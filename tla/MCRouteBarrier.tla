--------------------------- MODULE MCRouteBarrier ---------------------------
(* Small instances of RouteBarrier for TLC. *)
EXTENDS RouteBarrier

scopeOf(nBreaks, nBoots, nFails) == [breaks |-> nBreaks, boots |-> nBoots, fails |-> nFails]

\* A broken session or a secondary's restart, or a primary restart or restore with a failing step.
BarrierScopes == {scopeOf(1, 1, 0), scopeOf(0, 2, 1)}

=============================================================================
