--------------------------- MODULE MCInboundRoute ---------------------------
(* Small instances of InboundRoute for TLC. *)
EXTENDS InboundRoute

scopeOf(nExits, nFaults, nBoots) ==
  [exits |-> nExits, faults |-> nFaults, boots |-> nBoots, earlier |-> 0, whole |-> TRUE]

\* Exits, failing steps, an agent restart, and a third placement that drains.
HandoverScopes ==
  {scopeOf(2, 0, 0), scopeOf(1, 1, 0), scopeOf(0, 2, 0), scopeOf(1, 0, 1), scopeOf(0, 1, 1),
   [scopeOf(1, 0, 0) EXCEPT !.earlier = 1]}

StraddleScopes == {[scopeOf(1, 0, 0) EXCEPT !.whole = FALSE]}
=============================================================================
