---------------------------- MODULE MCAudioRules ----------------------------
(* Two scopes, of which the second observation sees only the root one.      *)
EXTENDS AudioRules, TLC

Interchangeable == Permutations(Conns)
MCPlaces == {Root, <<1>>}
MCObserved == {{<<1>>}, {<<2>>}}
=============================================================================
