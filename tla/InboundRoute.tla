---------------------------- MODULE InboundRoute ----------------------------
(***************************************************************************)
(* Who holds a deployment's inbound address on one node while one          *)
(* placement takes over from another: the claim and teardown paths of two  *)
(* container runners (lib/engine/runner/container.go), the node's network  *)
(* manager they share (lib/network) and the kernel state it manages.       *)
(*                                                                         *)
(* A container network is named by its placement and run.  Old serves and  *)
(* New warms up behind it when the model starts; placements that Old took  *)
(* over from may still be draining, and are modelled by the slots they     *)
(* hold.  How a run ends, and the container a Stop can miss, are Engine's  *)
(* subject.                                                                *)
(***************************************************************************)
EXTENDS Integers, Sequences, FiniteSets

CONSTANTS Old, New,
          Slots,         \* v4SlotsPerDeployment
          MaxRun,        \* bound: run numbers
          Scopes,        \* the handovers explored, see Scope
          None

\* Bounds: containers that exit by themselves, failed steps, agent restarts, and
\* earlier placements still draining (explored without restarts).  whole assumes
\* that no handover falls inside a claim.
Scope == {s \in [exits : Nat, faults : Nat, boots : Nat, earlier : Nat, whole : BOOLEAN] :
            s.earlier = 0 \/ s.boots = 0}

ASSUME RouteAssumption ==
  /\ Old # New /\ Slots \in Nat \ {0} /\ MaxRun \in Nat \ {0} /\ Scopes \subseteq Scope
  /\ None \notin {Old, New} \X Nat

VARIABLES target,     \* each placement's target in the node's store
          announced,  \* RUNNING has been published for the placement
          inbox,      \* targets of the updates its operator has not received
          op,         \* its operator: pc and the target it saw last
          r,          \* its runner and run loop
          claim,      \* the claim in progress under its servingMu
          task,       \* the run number of its live container, 0 for none
          veth,       \* kernel: container networks that exist, namespace and link
          stuck,      \* kernel: links whose deletion failed, their namespace is gone
          earlier,    \* kernel: links of placements before Old
          route,      \* kernel: where the inbound address is routed
          tracked,    \* manager: containerNets
          current,    \* manager: CurrentNet
          ports,      \* manager: owner of the published host ports, or None
          up, exits, faults, boots,
          scope       \* the bounds of this behaviour

store == <<target, announced, inbox>>
links == <<veth, stuck, earlier>>
kernel == <<links, route>>
manager == <<tracked, current, ports>>
budgets == <<exits, faults, boots>>
vars == <<store, op, r, claim, task, kernel, manager, up, budgets>>

Placements == {Old, New}
Fault == faults < scope.faults /\ faults' = faults + 1

\* The container id of the run p's loop is in.
containerID(p) == <<p, r[p].n>>

\* A route goes with the link it points to.
RouteVia(rt, nets) == IF rt \in nets THEN rt ELSE None

-----------------------------------------------------------------------------
(* Updates to the operators.  Equal updates in a row are one. *)

notify(box, t) == IF box # <<>> /\ box[Len(box)] = t THEN box ELSE Append(box, t)

\* updateStatus: the row's update carries the target as it is now.
updateStatus(p, running) ==
  /\ inbox' = [inbox EXCEPT ![p] = notify(@, target[p])]
  /\ announced' = [announced EXCEPT ![p] = @ \/ running]
  /\ UNCHANGED target

\* The scheduler's decisions reach the node's store as one snapshot each: the
\* handover once New has been RUNNING, and the end of a placement.
MustApplyAssignments ==
  /\ up
  /\ \/ /\ target[Old] = "SERVING" /\ target[New] = "STANDBY" /\ announced[New]
        /\ scope.whole => \A p \in Placements : claim[p].pc = "none"
        /\ target' = [target EXCEPT ![Old] = "DRAINING", ![New] = "SERVING"]
     \/ target[Old] = "DRAINING" /\ target' = [target EXCEPT ![Old] = "TERMINATE"]
     \/ target[New] = "STANDBY" /\ target' = [target EXCEPT ![New] = "TERMINATE"]
  /\ inbox' = [p \in Placements |-> IF target'[p] = target[p] THEN inbox[p] ELSE notify(inbox[p], target'[p])]
  /\ UNCHANGED <<announced, op, r, claim, task, kernel, manager, up, budgets>>

-----------------------------------------------------------------------------
(* Claiming the inbound address.  servingMu admits one claim per runner: by  *)
(* its run loop ("loop", or "adopt" after a restart) or by its operator      *)
(* ("serve", "promote").  A claim that needs nothing ends where it begins.   *)

NoClaim == [pc |-> "none", by |-> None, net |-> None, old |-> None]

placementIsServing(p) == target[p] = "SERVING"

\* Mutant: an address that is held is not taken over.
ClaimsFree(p, serving) == serving /\ r[p].net # None /\ placementIsServing(p) /\ current = None

Claims(p, serving) == serving /\ r[p].net # None /\ placementIsServing(p)

begin(p, by) == claim' = [claim EXCEPT ![p] = [pc |-> "read", by |-> by, net |-> r[p].net, old |-> None]]

\* What follows the claim in the caller, x being the runner and o the operator.
\* A run loop whose claim failed kills its container; a promotion that failed
\* stops the candidate; a failed Serve is only logged.
afterClaim(p, by, ok) ==
  \/ /\ by \in {"loop", "adopt"} /\ ok
     /\ r' = [r EXCEPT ![p].pc = "up"]
     /\ updateStatus(p, TRUE)
     /\ UNCHANGED <<op, task>>
  \/ /\ by \in {"loop", "adopt"} /\ ~ok
     /\ r' = [r EXCEPT ![p].pc = "clearPorts", ![p].sweep = (by = "adopt")]
     /\ task' = [task EXCEPT ![p] = 0]
     /\ UNCHANGED <<op, store>>
  \/ /\ by = "serve" \/ (by = "promote" /\ ok)
     /\ op' = [op EXCEPT ![p].pc = "idle"]
     /\ r' = [r EXCEPT ![p].role = "current"]
     /\ UNCHANGED <<task, store>>
  \/ /\ by = "promote" /\ ~ok
     /\ op' = [op EXCEPT ![p].pc = "stop"]
     /\ r' = [r EXCEPT ![p].stopping = TRUE]
     /\ task' = [task EXCEPT ![p] = 0]
     /\ UNCHANGED store

\* The run loop's own claim, for a container that does not have to warm up.
claimInboundAddress(p) ==
  /\ r[p].pc \in {"claim", "adopted"} /\ claim[p].pc = "none"
  /\ LET by == IF r[p].pc = "claim" THEN "loop" ELSE "adopt"
     IN  \/ /\ Claims(p, r[p].serving)
            /\ begin(p, by)
            /\ r' = [r EXCEPT ![p].pc = "claiming"]
            /\ UNCHANGED <<store, op, task>>
         \/ /\ ~Claims(p, r[p].serving)
            /\ afterClaim(p, by, TRUE)
            /\ UNCHANGED claim
  /\ UNCHANGED <<kernel, manager, up, budgets>>

endClaim(p, ok) ==
  /\ claim' = [claim EXCEPT ![p] = NoClaim]
  /\ afterClaim(p, claim[p].by, ok)

step(p, pc) ==
  /\ claim' = [claim EXCEPT ![p].pc = pc]
  /\ UNCHANGED <<store, op, r, task>>

\* Mutant: a claim whose ports failed keeps the route.
NotRestored(old) == IF old = route THEN old ELSE route

\* Where the rollback leaves the route: Activate needs the old network's link.
Restored(old) == IF old \in veth \cup stuck THEN old ELSE route

\* claimInboundAddressLocked after its checks, one lock of the manager at a time.
\* The owner of the ports is the id of the run the loop is in by then.
claimInboundAddressLocked(p) ==
  LET c == claim[p] IN
  /\ \/ /\ c.pc = "read"
        /\ IF current = c.net
             THEN endClaim(p, TRUE)
             ELSE /\ claim' = [claim EXCEPT ![p].pc = "activate", ![p].old = current]
                  /\ UNCHANGED <<store, op, r, task>>
        /\ UNCHANGED <<kernel, manager, faults>>
     \/ /\ c.pc = "activate"
        /\ \/ c.net \in veth \cup stuck /\ route' = c.net /\ step(p, "ports") /\ UNCHANGED faults
           \/ /\ \/ c.net \notin veth \cup stuck /\ UNCHANGED faults
                 \/ Fault
              /\ endClaim(p, FALSE) /\ UNCHANGED route
        /\ UNCHANGED <<links, manager>>
     \/ /\ c.pc = "ports"
        /\ \/ ports' = containerID(p) /\ step(p, "current") /\ UNCHANGED faults
           \/ Fault /\ step(p, "rollback") /\ UNCHANGED ports
        /\ UNCHANGED <<kernel, tracked, current>>
     \/ /\ c.pc = "current"
        /\ current' = c.net
        /\ endClaim(p, TRUE)
        /\ UNCHANGED <<kernel, tracked, ports, faults>>
     \/ /\ c.pc = "rollback"
        /\ \/ route' = Restored(c.old) /\ UNCHANGED faults
           \/ Fault /\ UNCHANGED route
        /\ endClaim(p, FALSE)
        /\ UNCHANGED <<links, manager>>
  /\ UNCHANGED <<up, exits, boots>>

-----------------------------------------------------------------------------
(* The run loop. *)

FreshRunner(role) == [pc |-> "setup", n |-> 1, net |-> None, role |-> role, ready |-> FALSE,
                      serving |-> FALSE, stopping |-> FALSE, adopted |-> FALSE,
                      sweep |-> FALSE, told |-> FALSE]

\* Mutant: the loop ends with its run.
RespawnNever(p) == [r EXCEPT ![p].pc = "done", ![p].net = None]

Respawn(p) == [r EXCEPT ![p].pc = "setup", ![p].n = @ + 1, ![p].net = None, ![p].adopted = FALSE,
                        ![p].sweep = FALSE, ![p].told = FALSE]

\* A slot is free if no link has its name.
freeV4Slot(nets) == Cardinality(nets) + Cardinality(stuck) + earlier < Slots

\* A failed setup deletes what it made of the network, which can fail as well.  The
\* next run is tried after a while (bound: tries leave runs for the exits).
setupContainerNet(p) ==
  /\ r[p].pc = "setup"
  /\ LET id == containerID(p)
         nets == veth \ {id}
     IN  \/ /\ r[p].stopping
            /\ r' = [r EXCEPT ![p].pc = "done"]
            /\ updateStatus(p, FALSE)
            /\ UNCHANGED <<kernel, tracked, faults>>
         \/ /\ ~r[p].stopping /\ freeV4Slot(nets)
            /\ veth' = nets \cup {id} /\ route' = RouteVia(route, nets \cup stuck)
            /\ tracked' = tracked \cup {id}
            /\ r' = [r EXCEPT ![p].pc = "start", ![p].net = id]
            /\ UNCHANGED <<store, stuck, earlier, faults>>
         \/ /\ ~r[p].stopping
            /\ \/ ~freeV4Slot(nets) /\ r[p].n + scope.exits < MaxRun /\ UNCHANGED <<stuck, faults>>
               \/ freeV4Slot(nets) /\ r[p].n < MaxRun /\ Fault /\ stuck' \in {stuck, stuck \cup {id}}
            /\ veth' = nets /\ route' = RouteVia(route, nets \cup stuck)
            /\ tracked' = tracked \ {id}
            /\ r' = Respawn(p)
            /\ updateStatus(p, FALSE)
            /\ UNCHANGED earlier
  /\ UNCHANGED <<op, claim, task, current, ports, up, exits, boots>>

RunTask(p) ==
  /\ r[p].pc = "start"
  /\ \/ /\ ~r[p].stopping
        /\ task' = [task EXCEPT ![p] = r[p].n]
        /\ r' = [r EXCEPT ![p].pc = IF r[p].role = "candidate" /\ ~r[p].ready THEN "warm" ELSE "claim"]
        /\ UNCHANGED faults
     \/ /\ Fault \/ (r[p].stopping /\ UNCHANGED faults)
        /\ r' = [r EXCEPT ![p].pc = "clearPorts"]
        /\ UNCHANGED task
  /\ UNCHANGED <<store, op, claim, kernel, manager, up, exits, boots>>

waitForReadiness(p) ==
  /\ r[p].pc = "warm" /\ task[p] # 0
  /\ r' = [r EXCEPT ![p].pc = "up", ![p].ready = TRUE]
  /\ updateStatus(p, TRUE)
  /\ UNCHANGED <<op, claim, task, kernel, manager, up, budgets>>

\* The task exited.  The status is published before the network is cleaned up,
\* or after it for a candidate that was still warming and for an adopted task.
taskExited(p) ==
  /\ r[p].pc \in {"warm", "up"} /\ task[p] = 0
  /\ LET first == r[p].pc = "up" /\ ~r[p].adopted
     IN  /\ r' = [r EXCEPT ![p].pc = "clearPorts", ![p].told = first]
         /\ IF first THEN updateStatus(p, FALSE) ELSE UNCHANGED store
  /\ UNCHANGED <<op, claim, task, kernel, manager, up, budgets>>

ClearHostPorts(id) == IF ports = id THEN None ELSE ports

\* Mutant: whoever is current.
DropCurrentNetAny(id) == IF id # None THEN None ELSE current

DropCurrentNet(id) == IF current = id THEN None ELSE current

\* Mutant: the networks stay.
teardownNothing(gone, left) == veth' = veth \cup gone /\ stuck' = left /\ UNCHANGED faults

\* Networks are removed; of the links that could not be deleted before, those in
\* left are not tried again.  A link the kernel does not delete is only logged: it
\* stays, without its namespace.
teardownContainerNet(gone, left) ==
  /\ veth' = veth \ gone
  /\ \/ stuck' = left /\ UNCHANGED faults
     \/ \E x \in (gone \cap veth) \cup (stuck \ left) : stuck' = left \cup {x} /\ Fault

\* cleanupContainerNet, and cleanupDeploymentNetState where sweep is set: it
\* also removes every network of the deployment this process does not track.
cleanupContainerNet(p) ==
  LET id == containerID(p) IN
  /\ \/ /\ r[p].pc = "clearPorts"
        /\ ports' = ClearHostPorts(id)
        /\ r' = [r EXCEPT ![p].pc = "dropCurrent"]
        /\ UNCHANGED <<store, current, tracked, kernel, faults>>
     \/ /\ r[p].pc = "dropCurrent"
        /\ current' = DropCurrentNet(id)
        /\ r' = [r EXCEPT ![p].pc = "teardown"]
        /\ UNCHANGED <<store, ports, tracked, kernel, faults>>
     \/ /\ r[p].pc = "teardown" /\ (r[p].stopping \/ r[p].n < MaxRun)
        /\ tracked' = tracked \ {id}
        /\ IF r[p].sweep THEN teardownContainerNet({id} \cup (veth \ tracked'), {})
                         ELSE teardownContainerNet({id}, stuck)
        /\ route' = RouteVia(route, veth' \cup stuck')
        /\ r' = IF r[p].stopping THEN [r EXCEPT ![p].pc = "done", ![p].net = None] ELSE Respawn(p)
        /\ IF r[p].told THEN UNCHANGED store ELSE updateStatus(p, FALSE)
        /\ UNCHANGED <<ports, current, earlier>>
  /\ UNCHANGED <<op, claim, task, up, exits, boots>>

\* A restarted agent's runner looks for its container.  Recovery routes the
\* address to it and removes every network that is not tracked.
recoverContainerNet(p) ==
  LET id == containerID(p)
      found == task[p] # 0 /\ id \in veth
  IN
  /\ r[p].pc \in {"adopt", "adoptStopped"}
  /\ \/ /\ r[p].pc = "adopt" /\ found
        /\ tracked' = tracked \cup {id}
        /\ teardownContainerNet(veth \ tracked', {})
        /\ route' = id
        /\ r' = [r EXCEPT ![p].pc = "adopted", ![p].net = id, ![p].adopted = TRUE]
        /\ UNCHANGED <<task, earlier>>
     \/ /\ \/ (r[p].pc = "adoptStopped" \/ ~found) /\ UNCHANGED faults
           \/ Fault
        /\ task' = [task EXCEPT ![p] = 0]
        /\ r' = [r EXCEPT ![p].pc = "clearPorts", ![p].sweep = TRUE,
                          ![p].stopping = @ \/ r[p].pc = "adoptStopped"]
        /\ UNCHANGED <<tracked, kernel>>
  /\ UNCHANGED <<store, op, claim, current, ports, up, exits, boots>>

-----------------------------------------------------------------------------
(* The operator. *)

\* Until a candidate is promoted the operator's current runner is the Stopped
\* sentinel, whose Serve does nothing.
reconcile(p) ==
  /\ op[p].pc = "idle" /\ inbox[p] # <<>>
  /\ LET t == Head(inbox[p])
     IN  /\ inbox' = [inbox EXCEPT ![p] = Tail(@)]
         /\ \/ /\ t = "TERMINATE"
               /\ op' = [op EXCEPT ![p] = [pc |-> "stop", seen |-> t]]
               /\ r' = [r EXCEPT ![p].stopping = TRUE]
               /\ task' = [task EXCEPT ![p] = 0]
               /\ UNCHANGED claim
            \/ /\ t # "TERMINATE" /\ r[p].role = "none"       \* a new candidate
               /\ r' = [r EXCEPT ![p] = FreshRunner("candidate")]
               /\ op' = [op EXCEPT ![p].seen = t]
               /\ UNCHANGED <<claim, task>>
            \/ /\ t = "SERVING" /\ r[p].role = "current" /\ claim[p].pc = "none"   \* Serve
               /\ r' = [r EXCEPT ![p].serving = TRUE]
               /\ IF Claims(p, TRUE)
                    THEN begin(p, "serve") /\ op' = [op EXCEPT ![p] = [pc |-> "claim", seen |-> t]]
                    ELSE UNCHANGED claim /\ op' = [op EXCEPT ![p].seen = t]
               /\ UNCHANGED task
            \/ /\ t # "TERMINATE" /\ (r[p].role = "candidate" \/ (r[p].role = "current" /\ t # "SERVING"))
               /\ op' = [op EXCEPT ![p].seen = t]
               /\ UNCHANGED <<r, claim, task>>
  /\ UNCHANGED <<target, announced, kernel, manager, up, budgets>>

\* candidateReady: promotion claims the address only under a serving target.
Promote(p) ==
  /\ op[p].pc = "idle" /\ r[p].role = "candidate" /\ r[p].ready
  /\ LET serving == op[p].seen = "SERVING"
     IN  IF serving /\ Claims(p, TRUE)
           THEN /\ claim[p].pc = "none"
                /\ begin(p, "promote")
                /\ op' = [op EXCEPT ![p].pc = "claim"]
                /\ r' = [r EXCEPT ![p].serving = TRUE]
           ELSE /\ r' = [r EXCEPT ![p].role = "current", ![p].serving = @ \/ serving]
                /\ UNCHANGED <<op, claim>>
  /\ UNCHANGED <<store, task, kernel, manager, up, budgets>>

\* Stop returns: what the run loop left of the last run's network is removed.
Stop(p) ==
  /\ op[p].pc = "stop" /\ r[p].pc = "done"
  /\ teardownContainerNet({containerID(p)}, stuck)
  /\ route' = RouteVia(route, veth' \cup stuck')
  /\ tracked' = tracked \ {containerID(p)}
  /\ op' = [op EXCEPT ![p].pc = IF @ = "stop" /\ op[p].seen = "TERMINATE" THEN "off" ELSE "idle"]
  /\ r' = [r EXCEPT ![p].role = "none"]
  /\ UNCHANGED <<store, claim, task, current, ports, earlier, up, exits, boots>>

-----------------------------------------------------------------------------
(* The environment. *)

ContainerExit(p) ==
  /\ task[p] # 0 /\ exits < scope.exits
  /\ task' = [task EXCEPT ![p] = 0] /\ exits' = exits + 1
  /\ UNCHANGED <<store, op, r, claim, kernel, manager, up, faults, boots>>

\* A placement before Old is over and its network is gone.
EarlierEnds ==
  /\ earlier > 0 /\ earlier' = earlier - 1
  /\ UNCHANGED <<store, op, r, claim, task, veth, stuck, route, manager, up, budgets>>

\* The agent dies.  Containers, their networks and the route stay; the manager
\* and every runner object are gone.
Crash ==
  /\ up /\ boots < scope.boots /\ boots' = boots + 1
  /\ up' = FALSE
  /\ tracked' = {} /\ current' = None /\ ports' = None
  /\ claim' = [p \in Placements |-> NoClaim]
  /\ op' = [p \in Placements |-> [pc |-> "off", seen |-> target[p]]]
  /\ r' = [p \in Placements |-> [FreshRunner("none") EXCEPT !.pc = "off", !.n = r[p].n]]
  /\ inbox' = [p \in Placements |-> <<>>]
  /\ UNCHANGED <<target, announced, task, kernel, exits, faults>>

Boot ==
  /\ ~up /\ up' = TRUE
  /\ op' = [p \in Placements |-> [pc |-> "idle", seen |-> target[p]]]
  /\ r' = [p \in Placements |-> 
             [r[p] EXCEPT !.pc = IF target[p] = "TERMINATE" THEN "adoptStopped" ELSE "adopt",
                          !.role = "current", !.ready = TRUE]]
  /\ inbox' = [p \in Placements |-> <<target[p]>>]
  /\ UNCHANGED <<target, announced, claim, task, kernel, manager, budgets>>

-----------------------------------------------------------------------------
Init ==
  /\ target = [p \in Placements |-> IF p = Old THEN "SERVING" ELSE "STANDBY"]
  /\ announced = [p \in Placements |-> p = Old]
  /\ inbox = [p \in Placements |-> <<>>]
  /\ op = [p \in Placements |-> [pc |-> "idle", seen |-> target[p]]]
  /\ r = [p \in Placements |->
            IF p = Old THEN [FreshRunner("current") EXCEPT !.pc = "up", !.net = <<Old, 1>>,
                                                           !.ready = TRUE, !.serving = TRUE]
                       ELSE FreshRunner("candidate")]
  /\ claim = [p \in Placements |-> NoClaim]
  /\ task = [p \in Placements |-> IF p = Old THEN 1 ELSE 0]
  /\ veth = {<<Old, 1>>} /\ stuck = {} /\ route = <<Old, 1>>
  /\ tracked = {<<Old, 1>>} /\ current = <<Old, 1>> /\ ports = <<Old, 1>>
  /\ up = TRUE /\ exits = 0 /\ faults = 0 /\ boots = 0 /\ scope \in Scopes
  /\ earlier = scope.earlier

Loop(p) ==
  setupContainerNet(p) \/ RunTask(p) \/ waitForReadiness(p) \/ taskExited(p)
    \/ cleanupContainerNet(p) \/ claimInboundAddress(p) \/ recoverContainerNet(p)

Operator(p) == reconcile(p) \/ Promote(p) \/ Stop(p)

Next ==
  /\ \/ \E p \in Placements : Loop(p) \/ claimInboundAddressLocked(p) \/ Operator(p) \/ ContainerExit(p)
     \/ MustApplyAssignments \/ EarlierEnds \/ Crash \/ Boot
  /\ UNCHANGED scope

Spec == Init /\ [][Next]_<<vars, scope>>

\* The goroutines run, a healthy container signals readiness, the supervisor
\* restarts the agent and a draining placement is terminated in the end.
Fairness ==
  /\ \A p \in Placements :
       WF_vars(Loop(p)) /\ WF_vars(claimInboundAddressLocked(p)) /\ WF_vars(Operator(p))
  /\ WF_vars(Boot) /\ WF_vars(EarlierEnds)

LiveSpec == Spec /\ Fairness

-----------------------------------------------------------------------------
\* Nothing is left to do for the address but what a container's exit or a new
\* decision brings.
Quiet ==
  \A p \in Placements :
    /\ inbox[p] = <<>> /\ op[p].pc \in {"idle", "off"} /\ claim[p].pc = "none"
    /\ r[p].pc \in {"up", "warm", "done"} /\ ~(r[p].role = "candidate" /\ r[p].ready)

\* Once the dust settles the serving placement's container has the route, the
\* host ports and the registration, whatever order the two runners' claims and
\* teardowns and their operators' updates came in (a Serve that failed is not
\* repeated before the next update).  And whenever no claim is under way the
\* registered container, while it has its network, is the routed one, even after a
\* failed step: a claim that could not publish its ports has given the route back
\* (claimInboundAddressLocked; it takes a second failure to prevent that).
Settled ==
  /\ Quiet /\ faults = 0 => \A p \in Placements :
       target[p] = "SERVING" /\ r[p].pc = "up" =>
         route = r[p].net /\ current = r[p].net /\ ports = r[p].net
  /\ boots = 0 /\ faults <= 1 /\ (\A p \in Placements : claim[p].pc = "none") =>
       (current \in veth => route = current)

Ending(x) == r[x[1]].pc \in {"clearPorts", "dropCurrent", "teardown"}

Moved(x, y) ==
  x # y => \/ y # None /\ target[y[1]] = "SERVING"
           \/ y = None /\ (Ending(x) \/ x \in stuck)
           \/ \E p \in Placements : claim[p].pc = "rollback" /\ claim[p].old = y

\* The route, the ports and the registration leave a container only when it is
\* torn down itself or its link was left over, for a serving placement's container,
\* or to undo a claim: the teardown of a superseded run never takes what its
\* replacement holds (cleanupContainerNet, claimInboundAddressLocked).
HandedOver ==
  [][boots' = 0 => Moved(route, route') /\ Moved(current, current') /\ Moved(ports, ports')]_vars

\* No network outlives its run: when a placement sets its next run's network up, no
\* network of an earlier run of it is left, and one of the deployment's two slots is
\* free unless a draining placement still holds one or a link could not be deleted
\* (freeV4Slot says "at most two containers of a deployment run concurrently").
SlotFree ==
  \A p \in Placements : r[p].pc = "setup" /\ ~r[p].stopping =>
    /\ \A x \in veth : x[1] = p => x = containerID(p)
    /\ earlier = 0 /\ stuck = {} => freeV4Slot(veth \ {containerID(p)})

\* The placement that ends up serving ends up with the route, for good, unless a
\* step failed.
Serves ==
  \A p \in Placements : <>[](target[p] = "SERVING" /\ faults = 0) => <>[](route # None /\ route[1] = p)
=============================================================================
