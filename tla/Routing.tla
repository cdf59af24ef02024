------------------------------- MODULE Routing -------------------------------
(***************************************************************************)
(* The audio relation a render declares, and the table compiled from it    *)
(* for the voice plane.                                                    *)
(***************************************************************************)
EXTENDS Naturals, FiniteSets

NoAudio == [domains |-> [d \in {} |-> {}], listeners |-> {}, edges |-> {}]

\* Every directed pair the declarations imply: the definition of the relation.
resolve(audio) ==
  audio.edges
  \cup UNION {{e \in audio.domains[d] \X audio.domains[d] : e[1] # e[2]} : d \in DOMAIN audio.domains}
  \cup UNION {{<<a, l[1]>> : a \in audio.domains[l[2]] \ {l[1]}}
                : l \in {l \in audio.listeners : l[2] \in DOMAIN audio.domains}}

\* Slip: only who speaks is looked at, so the deafened keep receiving.
compile_Deafened(audio, presence, muted, deaf) ==
  LET routes == {<<presence[e[1]], presence[e[2]]>> :
                   e \in {e \in resolve(audio) : {e[1], e[2]} \subseteq DOMAIN presence}}
      heard == {r \in routes : r[1] \notin muted}
  IN  [a \in {r[1] : r \in heard} |-> {r[2] : r \in {x \in heard : x[1] = a}}]

\* Receivers per sender, written domain by domain; who is muted sends nothing
\* and who is deafened receives nothing.  presence maps the connections that
\* are rendered to their session.
compile(audio, presence, muted, deaf) ==
  LET session(C) == {presence[c] : c \in C \cap DOMAIN presence}
      listening(d) == session({l[1] : l \in {l \in audio.listeners : l[2] = d}}) \ deaf
      ofDomain(d) ==
        LET members == session(audio.domains[d])
        IN  {e \in (members \ muted) \X ((members \ deaf) \cup listening(d)) : e[1] # e[2]}
      explicit == {<<presence[e[1]], presence[e[2]]>> :
                     e \in {e \in audio.edges : {e[1], e[2]} \subseteq DOMAIN presence}}
      routes == UNION {ofDomain(d) : d \in DOMAIN audio.domains}
                \cup {e \in explicit : e[1] \notin muted /\ e[2] \notin deaf}
      senders == {r[1] : r \in routes}
  IN  [a \in senders |-> {b \in {r[2] : r \in routes} : <<a, b>> \in routes}]

=============================================================================
