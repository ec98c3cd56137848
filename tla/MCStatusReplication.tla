------------------------ MODULE MCStatusReplication ------------------------
(* Small instances of StatusReplication for TLC. *)
EXTENDS StatusReplication

scopeOf(nInstances, nClocks, nSessions, nRefusals, nBoots) ==
  [ids |-> 1..nInstances, clocks |-> nClocks, sessions |-> nSessions, refusals |-> nRefusals,
   boots |-> nBoots, prompt |-> TRUE]

\* One instance over three sessions; two instances, which overflow the
\* subscription together; a refused frame; a primary restart.
ReplicationScopes ==
  {scopeOf(1, 2, 3, 0, 0), scopeOf(2, 1, 1, 0, 0), scopeOf(1, 2, 2, 1, 0), scopeOf(1, 2, 2, 0, 1)}
=============================================================================
