--------------------------- MODULE MCServerHelper ---------------------------
(* Instances of ServerHelper for TLC.                                      *)
EXTENDS ServerHelper, TLC

(* Every guest comes to the one listener.                                  *)
ToTheListener == [g \in Guests |-> CHOOSE l \in Listeners : TRUE]

(* Every listener and client has a symbol of its own, or one is for all.   *)
OwnSymbol == [x \in Listeners \cup Clients |-> x]
OneSymbol == [x \in Listeners \cup Clients |-> CHOOSE l \in Listeners : TRUE]
OwnOrOne  == {OwnSymbol, OneSymbol}

Both == [x \in Listeners \cup Clients |-> {RECV, SEND}]
=============================================================================
