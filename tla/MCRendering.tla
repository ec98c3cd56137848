---------------------------- MODULE MCRendering ----------------------------
(* Small instances of Rendering for TLC. *)
EXTENDS Rendering, TLC

space(s) == [space |-> s, dep |-> 0]
deployment(d) == [space |-> 0, dep |-> d]
allow(a, b) == [source |-> a, destination |-> b]

scopeOf(members, documents, nWrites, nTurns, nChanges) ==
  [members |-> members, docs |-> documents, policies |-> {}, evicts |-> {}, reports |-> {},
   addrs |-> {"a"}, left |-> [write |-> nWrites, turn |-> nTurns, change |-> nChanges]]

web(s, n, name, strategy) == doc(s, n, name, TRUE, {}, strategy)

\* Two spaces joined by policies; a deployment named by one may be deleted.
Policies ==
  [scopeOf(Nodes, 1 :> {web(2, 1, "x", "ROLLOVER"), web(2, 2, "x", "ROLLOVER")}
                    @@ 2 :> {web(3, 3, "y", "ROLLOVER"), web(3, 3, "y", "STOPPED")}, 3, 1, 3)
   EXCEPT !.policies = {allow(space(2), space(3)), allow(deployment(2), space(4))}]

\* Ingress that moves with its deployment, a changing address inventory and a
\* node that is evicted.
Ingress ==
  [scopeOf(Nodes, 1 :> {doc(2, n, "x", TRUE, Addresses, "ROLLOVER") : n \in {1, 2}}
                    @@ 2 :> {doc(2, 3, "y", TRUE, {"b"}, "ROLLOVER")}, 3, 2, 2)
   EXCEPT !.evicts = {1}, !.reports = {[key |-> 1, addrs |-> {"b"}], [key |-> 2, addrs |-> {}]}]

\* The global space, renaming, host networking, RECREATE and a node that joins.
Global ==
  [scopeOf({1, 2}, 1 :> {web(1, 2, "x", "RECREATE"), web(1, 1, "z", "RECREATE")}
                     @@ 2 :> {web(2, 1, "y", "ROLLOVER"), doc(2, 1, "y", FALSE, {}, "ROLLOVER")}
                     @@ Netproxy(3) :> {doc(SystemSpace, 3, "netproxy", TRUE, {}, "RECREATE")},
           4, 2, 1)
   EXCEPT !.evicts = {2}]

RenderingScopes == {Policies, Ingress, Global}

\* A deployment that changes its space, and one that stays.
MoveScopes ==
  {scopeOf(Nodes, 1 :> {web(2, 1, "x", "ROLLOVER"), web(3, 1, "x", "ROLLOVER")}
                    @@ 2 :> {web(3, 2, "y", "ROLLOVER")}, 3, 3, 0)}
=============================================================================
