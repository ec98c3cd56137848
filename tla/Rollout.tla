------------------------------- MODULE Rollout -------------------------------
(***************************************************************************)
(* What the scheduler promises of one deployment, without how it decides:  *)
(* instances are issued with growing ids; one warms up, takes over service *)
(* from the one before it, drains when it is taken over from and is then   *)
(* over for good.  Service moves only to an instance that has never        *)
(* served, an instance drains only onto a newer one, and none warms up or  *)
(* drains beside an empty address.  A step is one commit.                  *)
(***************************************************************************)
EXTENDS Integers

VARIABLES issued,    \* every id below it has been issued
          standby,   \* instances that warm up
          serving,   \* the instance that serves, if any
          draining   \* instances that traffic is drained off

vars == <<issued, standby, serving, draining>>

Init == issued = 1 /\ standby = {} /\ serving = {} /\ draining = {}

Issued == issued .. (issued' - 1)

\* An instance that never served takes over, now or when it is issued; what
\* was wanted before it and is older may drain, the rest is over.
TakeOver ==
  \E k \in standby \cup Issued :
    /\ serving' = {k}
    /\ draining' \subseteq {j \in standby \cup serving \cup draining \cup Issued : j < k}
    /\ standby' \subseteq (standby \cup Issued) \ {k}

\* Service stays where it is; drains and warm-ups may end, new ones warm up.
Keep ==
  /\ serving # {} /\ serving' = serving
  /\ draining' \subseteq draining
  /\ standby' \subseteq standby \cup Issued

\* Nothing serves: then nothing warms up or drains either.
Withdraw == serving' = {} /\ draining' = {} /\ standby' = {}

Next == issued' >= issued /\ (TakeOver \/ Keep \/ Withdraw)

Spec == Init /\ [][Next]_vars
=============================================================================
