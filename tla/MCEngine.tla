------------------------------ MODULE MCEngine ------------------------------
(* Small instances of Engine for TLC. *)
EXTENDS Engine

scopeOf(strategy, buffer, nExits, nFaults, nBoots) ==
  [strategy |-> strategy, buffer |-> buffer, exits |-> nExits, faults |-> nFaults, boots |-> nBoots]

\* Subscriptions small enough to overflow, with and without an agent restart,
\* and one that does not overflow.
EngineScopes == {scopeOf("RECREATE", 3, 1, 1, 2), scopeOf("ROLLOVER", 2, 1, 1, 1),
                 scopeOf("ROLLOVER", 4, 1, 0, 2), scopeOf("RECREATE", 9, 1, 1, 2)}

StopScopes == {scopeOf("RECREATE", 4, 1, 0, 1)}

=============================================================================
