----------------------------- MODULE AudioRules -----------------------------
(***************************************************************************)
(* A render declaring its audio relation call by call, over a view that    *)
(* carries some connections and hides others.  At every point the compiled *)
(* table and the closing check are compared with what the relation means.  *)
(***************************************************************************)
EXTENDS Render

CONSTANTS Conns,        \* connections
          Domains,      \* domain labels a flavor may use
          Places,       \* scopes users may occupy
          Observed,     \* observations connections may have
          MaxCalls      \* bound: declarations in one render

VARIABLES view,     \* the shared view: only the scopes of its users matter
          overlays, observations, muted, deaf,
          audio,    \* the relation so far
          calls

vars == <<view, overlays, observations, muted, deaf, audio, calls>>

Shared(users) == [channels |-> EmptyMap, users |-> users]

\* Who is rendered where and who observes what: anything.  One connection at
\* most has vanished, shown to itself or to everybody, and one is silent.
Init ==
  /\ \E S \in SUBSET Conns :
       /\ view \in {Shared([c \in S |-> User(RootId, at[c], {})]) : at \in [S -> Places]}
       /\ overlays \in {EmptyMap} \cup
            UNION {{[c \in to |-> Shared([x \in {h} |-> User(RootId, Root, {})])] : to \in {{h}, Conns}}
                     : h \in Conns \ S}
  /\ observations \in [Conns -> Observed]
  /\ muted \in {{}} \cup {{c} : c \in Conns}
  /\ deaf \in {{}} \cup {{c} : c \in Conns}
  /\ muted = {} \/ deaf = {}
  /\ audio = NoAudio
  /\ calls = 0

Declare(relation) ==
  /\ calls < MaxCalls
  /\ calls' = calls + 1
  /\ audio' = relation
  /\ UNCHANGED <<view, overlays, observations, muted, deaf>>

\* Repeated calls accumulate members.
domain(d, members) ==
  Declare([audio EXCEPT !.domains =
             [x \in DOMAIN @ \cup {d} |-> (IF x = d THEN members ELSE {})
                                          \cup (IF x \in DOMAIN @ THEN @[x] ELSE {})]])
\* Slip: the pair is stored the other way round.
listen_Swapped(c, d) == Declare([audio EXCEPT !.listeners = @ \cup {<<d, c>>}])

listen(c, d) == Declare([audio EXCEPT !.listeners = @ \cup {<<c, d>>}])
edge(a, b) == Declare([audio EXCEPT !.edges = @ \cup {<<a, b>>}])

Next ==
  \/ \E d \in Domains, members \in SUBSET Conns : domain(d, members)
  \/ \E c \in Conns, d \in Domains : listen(c, d)
  \/ \E a, b \in Conns : edge(a, b)

Spec == Init /\ [][Next]_vars

-----------------------------------------------------------------------------
\* Rendered in the shared view, or by its own overlay.
Presence ==
  [c \in {c \in Conns : c \in DOMAIN view.users \/ c \in Privately(overlays, c)} |-> c]

\* Declarations only name connections and domains.
TypeOK ==
  /\ calls \in 0..MaxCalls
  /\ DOMAIN audio.domains \subseteq Domains
  /\ audio.listeners \subseteq Conns \X Domains
  /\ audio.edges \subseteq Conns \X Conns

\* The table, written domain by domain, is the relation pair by pair: rendered
\* at both ends, speaker not muted, receiver not deafened.
CompileIsResolve ==
  LET table == compile(audio, Presence, muted, deaf)
  IN  {<<a, b>> \in Conns \X Conns : a \in DOMAIN table /\ b \in table[a]}
        = {e \in resolve(audio) : /\ {e[1], e[2]} \subseteq DOMAIN Presence
                                  /\ e[1] \notin muted /\ e[2] \notin deaf}

Checked == check_receivers_see_senders(view, overlays, audio, observations, Conns)

Seen(a, b) == can_see(b, a, shared_scope(view, Conns), overlays, observations)

\* A relation that passes the check has no edge to a receiver that cannot see
\* the sender, unless the receiver listens to a domain it is no member of.
CheckedRoutesSeen ==
  Checked => \A e \in resolve(audio) :
                \/ Seen(e[1], e[2])
                \/ \E d \in DOMAIN audio.domains :
                      <<e[2], d>> \in audio.listeners /\ e[2] \notin audio.domains[d]

\* A relation in which every receiver sees every sender is not refused.
SeenRoutesAccepted == (\A e \in resolve(audio) : Seen(e[1], e[2])) => Checked

=============================================================================
