------------------------------ MODULE Scheduler ------------------------------
(***************************************************************************)
(* The placement scheduler of the primary, for one deployment.             *)
(*                                                                         *)
(* The scheduler is an update trigger of the state store: every commit     *)
(* that touches the deployment, one of its scheduled instances or one of   *)
(* their statuses is followed, inside the same sqlite transaction and      *)
(* under the store's lock, by passes of `step' until a pass changes        *)
(* nothing.  The committed tables are db, the transaction's own view is    *)
(* work; a writer opens a transaction (work # db), Pass repeats step, and  *)
(* Commit closes it.  The route barrier is read live during a pass, so     *)
(* its answers are an input of every pass.                                 *)
(***************************************************************************)
EXTENDS Integers, FiniteSets

CONSTANTS MaxVersion,     \* bound: deployment documents written
          MaxReports,     \* bound: status reports accepted
          MaxTime,        \* bound: clock
          MaxBoots,       \* bound: starts of the primary process
          DrainTimeout    \* drainTimeout, in clock units

ASSUME BoundsAssumption ==
  /\ MaxVersion \in Nat /\ MaxReports \in Nat /\ MaxTime \in Nat
  /\ MaxBoots \in Nat /\ DrainTimeout \in Nat

VARIABLES db,        \* committed tables of the deployment
          seq,       \* committed global sequence number
          work,      \* the open transaction's view of the tables
          tx,        \* the open transaction: its clock, passes and flags
          up,        \* the primary process and its scheduler are running
          bootSeq,   \* last sequence number committed before this boot
          bootTime,  \* clock at this boot
          now,       \* wall clock
          reports,   \* counters of the bounds
          boots

vars == <<db, seq, work, tx, up, bootSeq, bootTime, now, reports, boots>>

Strategies == {"ROLLOVER", "RECREATE"}

\* STARTING stands for every runner status the scheduler treats alike:
\* starting and crashed.  NONE is a missing status row or a tombstone.
Statuses == {"NONE", "STARTING", "RUNNING", "STOPPED"}

WantsRunning == {"RUN_STANDBY", "RUN_SERVING", "RUN_DRAINING"}

Targets == WantsRunning \cup {"TERMINATE", "FINALIZED"}

Instance == [version : Nat, state : Targets, seq : Nat, time : Nat,
             status : Statuses]

NodeStatuses == {"MEMBER_NORMAL", "MEMBER_EVICTED"}

Deployment == [live : BOOLEAN, version : Nat, running : BOOLEAN,
               strategy : Strategies]

------------------------------------------------------------------------------
(* The tables of one deployment: its current document, the retained         *)
(* versions (with the strategy each one asks for), the retained instances   *)
(* (with their latest status), the id counter and the node's lifecycle.     *)

Tables(cfg, versions, insts, nextId, node) ==
  [cfg |-> cfg, versions |-> versions, insts |-> insts, nextId |-> nextId,
   node |-> node]

WithInsts(s, insts) == Tables(s.cfg, s.versions, insts, s.nextId, s.node)

Live(s) == {k \in DOMAIN s.insts : s.insts[k].state # "FINALIZED"}

Finals(s) == {k \in DOMAIN s.insts : s.insts[k].state = "FINALIZED"}

\* A final instance goes when its deployment is deleted, when another
\* instance is not final, or when a newer final exists; a version stays while
\* it is current or a retained instance pins it.
Pruned(s) ==
  {k \in Finals(s) : \/ ~s.cfg.live
                     \/ Live(s) # {}
                     \/ \E n \in Finals(s) : n > k}

\* Mutant: only the current version is kept.
retainCurrentOnly(s) ==
  LET kept == DOMAIN s.insts \ Pruned(s)
      current == IF s.cfg.live THEN {s.cfg.version} ELSE {}
  IN  Tables(s.cfg, [v \in DOMAIN s.versions \cap current |-> s.versions[v]],
             [k \in kept |-> s.insts[k]], s.nextId, s.node)

retainDeployment(s) ==
  LET kept == DOMAIN s.insts \ Pruned(s)
      pinned == {s.insts[k].version : k \in kept}
      current == IF s.cfg.live THEN {s.cfg.version} ELSE {}
  IN  Tables(s.cfg,
             [v \in DOMAIN s.versions \cap (pinned \cup current) |-> s.versions[v]],
             [k \in kept |-> s.insts[k]],
             s.nextId, s.node)

------------------------------------------------------------------------------
(* One pass of step.                                                        *)

terminalRunnerStatus(i) == i.status = "STOPPED"

set(i, target, sq, t) ==
  IF i.state = target THEN i
  ELSE [i EXCEPT !.state = target, !.seq = sq, !.time = t]

finalizeStopped(i, sq, t) ==
  IF i.state = "TERMINATE" /\ terminalRunnerStatus(i)
  THEN set(i, "FINALIZED", sq, t)
  ELSE i

DeploymentRunning(s) == s.cfg.live /\ s.cfg.running

\* Mutant: a deployment that is stopped keeps its standby.
RetiredServing(s, i) ==
  /\ i.state # "RUN_STANDBY"
  /\ \/ ~DeploymentRunning(s)
     \/ s.cfg.strategy = "RECREATE" /\ i.version # s.cfg.version

\* Mutant: an obsolete instance goes whatever the strategy.
RetiredObsolete(s, i) == ~DeploymentRunning(s) \/ i.version # s.cfg.version

Retired(s, i) ==
  \/ ~DeploymentRunning(s)
  \/ /\ i.version # s.cfg.version
     /\ s.cfg.strategy = "RECREATE" \/ i.state = "RUN_STANDBY"

\* Mutant: WantsRunning is not asked.
RetireOneAny(s, i, sq, t) ==
  finalizeStopped(IF Retired(s, i) THEN set(i, "TERMINATE", sq, t) ELSE i, sq, t)

RetireOne(s, i, sq, t) ==
  finalizeStopped(IF Retired(s, i) /\ i.state \in WantsRunning
                  THEN set(i, "TERMINATE", sq, t) ELSE i, sq, t)

Retire(s, sq, t) ==
  retainDeployment(WithInsts(s,
    [k \in DOMAIN s.insts |-> RetireOne(s, s.insts[k], sq, t)]))

\* Mutant: an instance counts as placed only once its runner is up.
ExactRunning(s) ==
  {k \in Live(s) : /\ s.insts[k].version = s.cfg.version
                   /\ s.insts[k].state \in WantsRunning
                   /\ s.insts[k].status = "RUNNING"}

\* Mutant: a stopped instance does not count as placed.
ExactAlive(s) ==
  {k \in Live(s) : /\ s.insts[k].version = s.cfg.version
                   /\ s.insts[k].state \in WantsRunning
                   /\ s.insts[k].status # "STOPPED"}

Exact(s) ==
  {k \in Live(s) : /\ s.insts[k].version = s.cfg.version
                   /\ s.insts[k].state \in WantsRunning}

Serving(s) == {k \in Live(s) : s.insts[k].state = "RUN_SERVING"}

\* Mutant: RECREATE does not wait for what terminates.
BlockedNever(s) == FALSE

Blocked(s) == /\ s.cfg.strategy = "RECREATE"
              /\ \E k \in Live(s) : s.insts[k].state = "TERMINATE"

\* Mutant: the id sequence is not advanced.
newInstanceReused(s, sq, t) ==
  WithInsts(s, [k \in DOMAIN s.insts \cup {s.nextId} |->
    IF k = s.nextId
    THEN [version |-> s.cfg.version,
          state |-> IF Serving(s) = {} THEN "RUN_SERVING" ELSE "RUN_STANDBY",
          seq |-> sq, time |-> t, status |-> "NONE"]
    ELSE s.insts[k]])

newInstance(s, sq, t) ==
  Tables(s.cfg, s.versions,
         [k \in DOMAIN s.insts \cup {s.nextId} |->
            IF k = s.nextId
            THEN [version |-> s.cfg.version,
                  state |-> IF Serving(s) = {} THEN "RUN_SERVING"
                            ELSE "RUN_STANDBY",
                  seq |-> sq, time |-> t, status |-> "NONE"]
            ELSE s.insts[k]],
         s.nextId + 1, s.node)

\* Mutant: the replaced instances keep serving.
promoteOnly(s, e, sq, t) ==
  WithInsts(s, [k \in DOMAIN s.insts |->
    IF k = e THEN set(s.insts[k], "RUN_SERVING", sq, t) ELSE s.insts[k]])

\* Mutant: the loop ends without promoting the new instance.
drainOnly(s, e, sq, t) ==
  WithInsts(s, [k \in DOMAIN s.insts |->
    IF k < e /\ s.insts[k].state \in WantsRunning
    THEN set(s.insts[k], "RUN_DRAINING", sq, t) ELSE s.insts[k]])

promote(s, e, sq, t) ==
  WithInsts(s, [k \in DOMAIN s.insts |->
    LET i == s.insts[k] IN
    IF k < e /\ i.state \in WantsRunning THEN set(i, "RUN_DRAINING", sq, t)
    ELSE IF k = e THEN set(i, "RUN_SERVING", sq, t)
    ELSE i])

\* The instance of the current version takes over once it runs, or, while it
\* is still warming up, when the older serving instance has stopped.
TakesOver(s, e) ==
  LET i == s.insts[e] IN
  \/ i.status = "RUNNING" /\ i.state \in {"RUN_STANDBY", "RUN_SERVING"}
  \/ /\ i.state = "RUN_STANDBY"
     /\ \E k \in Serving(s) : k < e /\ terminalRunnerStatus(s.insts[k])

Newest(S) == CHOOSE k \in S : \A j \in S : j <= k

Place(s, sq, t) ==
  IF ~DeploymentRunning(s) \/ s.node = "MEMBER_EVICTED" THEN s
  ELSE IF Exact(s) = {}
       THEN IF Blocked(s) THEN s ELSE retainDeployment(newInstance(s, sq, t))
       ELSE IF TakesOver(s, Newest(Exact(s)))
            THEN retainDeployment(promote(s, Newest(Exact(s)), sq, t))
            ELSE s

\* A drain that was under way at boot is given the whole timeout again.
Adopted(i) == i.seq <= bootSeq

Deadline(i) == DrainTimeout + IF Adopted(i) THEN bootTime ELSE i.time

\* Mutant: there is no deadline.
DrainOverAcked(i, sq, t, inForce) ==
  /\ i.state = "RUN_DRAINING"
  /\ i.seq < sq
  /\ ~Adopted(i) /\ i.seq \in inForce

\* inForce is the set of decisions the route barrier reports as applied.
DrainOver(i, sq, t, inForce) ==
  /\ i.state = "RUN_DRAINING"
  /\ i.seq < sq
  /\ (~Adopted(i) /\ i.seq \in inForce) \/ t >= Deadline(i)

Drain(s, sq, t, inForce) ==
  retainDeployment(WithInsts(s, [k \in DOMAIN s.insts |->
    LET i == s.insts[k] IN
    IF DrainOver(i, sq, t, inForce)
    THEN finalizeStopped(set(i, "TERMINATE", sq, t), sq, t) ELSE i]))

step(s, sq, t, inForce) == Drain(Place(Retire(s, sq, t), sq, t), sq, t, inForce)

------------------------------------------------------------------------------
(* Transactions of the state store.                                         *)

Closed == [open |-> FALSE, now |-> 0, pass |-> 0, limit |-> 0,
           mutated |-> FALSE]

\* The store's lock is taken, the writer's mutations are materialised and
\* the scheduler is about to run its first pass.
Open(s, mutated) ==
  /\ up /\ ~tx.open
  /\ work' = s
  /\ tx' = [open |-> TRUE, now |-> now, pass |-> 0,
            limit |-> 3 * Cardinality(Live(s)) + 8, mutated |-> mutated]
  /\ UNCHANGED <<db, seq, now>>

\* Mutant: one pass is taken to be enough.
SettlesAtOnce(inForce) ==
  tx.pass > 0 \/ step(work, seq + 1, tx.now, inForce) = work

Settles(inForce) == step(work, seq + 1, tx.now, inForce) = work

\* A pass past the limit would be the error "scheduler did not stabilize
\* deployment"; Stabilizes shows that no transaction gets there.
Pass ==
  /\ tx.open
  /\ \E inForce \in SUBSET {work.insts[k].seq : k \in DOMAIN work.insts} :
       /\ ~Settles(inForce)
       /\ work' = step(work, seq + 1, tx.now, inForce)
  /\ tx' = [open |-> TRUE, now |-> tx.now, pass |-> tx.pass + 1,
            limit |-> tx.limit, mutated |-> TRUE]
  /\ UNCHANGED <<db, seq, up, bootSeq, bootTime, now, reports, boots>>

\* The pass that changes nothing ends the transaction; an update without
\* mutations takes no sequence number.
Commit ==
  /\ tx.open
  /\ \E inForce \in SUBSET {work.insts[k].seq : k \in DOMAIN work.insts} :
       Settles(inForce)
  /\ db' = work
  /\ seq' = IF tx.mutated THEN seq + 1 ELSE seq
  /\ tx' = Closed
  /\ UNCHANGED <<work, up, bootSeq, bootTime, now, reports, boots>>

------------------------------------------------------------------------------
(* Writers.  Each one opens a transaction with its own mutations already    *)
(* materialised and retention applied to the deployment they touch.         *)

Document(s, running, strategy) ==
  LET new == s.cfg.version + 1 IN
  retainDeployment(
    Tables([live |-> TRUE, version |-> new, running |-> running,
            strategy |-> strategy],
           [v \in DOMAIN s.versions \cup {new} |->
              IF v = new THEN strategy ELSE s.versions[v]],
           s.insts, s.nextId, s.node))

\* Service.Create: the node must be a member that is not draining.
Create ==
  /\ db.cfg.version = 0 /\ MaxVersion > 0
  /\ db.node = "MEMBER_NORMAL"
  /\ \E running \in BOOLEAN, strategy \in Strategies :
       Open(Document(db, running, strategy), TRUE)
  /\ UNCHANGED <<up, bootSeq, bootTime, reports, boots>>

\* Service.Update: a new version of the whole document.  A node the operator
\* is draining refuses documents that run, which only removes behaviours.
Update ==
  /\ db.cfg.live /\ db.cfg.version < MaxVersion
  /\ \E running \in BOOLEAN, strategy \in Strategies :
       Open(Document(db, running, strategy), TRUE)
  /\ UNCHANGED <<up, bootSeq, bootTime, reports, boots>>

\* Whether the node is connected is asked of the session table.
canDeleteDeployment(connected) ==
  IF Live(db) = {} THEN ~db.cfg.running
  ELSE \A k \in Live(db) :
         \/ db.insts[k].status = "STOPPED"
         \/ db.insts[k].status \in {"RUNNING", "NONE"} /\ ~connected

Deleted(s) ==
  retainDeployment(Tables([s.cfg EXCEPT !.live = FALSE], s.versions, s.insts,
                          s.nextId, s.node))

Delete ==
  /\ db.cfg.live
  /\ \E connected \in BOOLEAN : canDeleteDeployment(connected)
  /\ Open(Deleted(db), TRUE)
  /\ UNCHANGED <<up, bootSeq, bootTime, reports, boots>>

Reported(s, k, st) ==
  WithInsts(s, [j \in DOMAIN s.insts |->
    IF j = k THEN [s.insts[j] EXCEPT !.status = st] ELSE s.insts[j]])

\* A report for an instance that is still retained, final or not; reports
\* that arrive out of order are dropped before they reach the tables.
WriteReplicatedStatus ==
  /\ reports < MaxReports
  /\ \E k \in DOMAIN db.insts, st \in Statuses \ {"NONE"} :
       /\ st # db.insts[k].status
       /\ Open(Reported(db, k, st), TRUE)
  /\ reports' = reports + 1
  /\ UNCHANGED <<up, bootSeq, bootTime, boots>>

Evicted(s, sq, t) ==
  retainDeployment(
    Tables(s.cfg, s.versions,
           [k \in DOMAIN s.insts |->
              IF k \in Live(s)
              THEN [version |-> s.insts[k].version, state |-> "FINALIZED",
                    seq |-> sq, time |-> t, status |-> "NONE"]
              ELSE s.insts[k]],
           s.nextId, "MEMBER_EVICTED"))

\* Every placement on the node is finalized whatever its runner reports, and
\* the statuses become tombstones.
EvictNode ==
  /\ db.node # "MEMBER_EVICTED"
  /\ Open(Evicted(db, seq + 1, now), TRUE)
  /\ UNCHANGED <<up, bootSeq, bootTime, reports, boots>>

Draining(s) == {k \in DOMAIN s.insts : s.insts[k].state = "RUN_DRAINING"}

Standby(s) == {k \in DOMAIN s.insts : s.insts[k].state = "RUN_STANDBY"}

\* Run: on an ack of the barrier or every drainPollInterval.
Sweep ==
  /\ Draining(db) # {}
  /\ Open(db, FALSE)
  /\ UNCHANGED <<up, bootSeq, bootTime, reports, boots>>

\* Start: the drains that are already under way are adopted.
Start ==
  /\ ~up /\ boots < MaxBoots
  /\ up' = TRUE /\ boots' = boots + 1
  /\ bootSeq' = seq /\ bootTime' = now
  /\ work' = db
  /\ tx' = [open |-> TRUE, now |-> now, pass |-> 0,
            limit |-> 3 * Cardinality(Live(db)) + 8, mutated |-> FALSE]
  /\ UNCHANGED <<db, seq, now, reports>>

\* The process dies; sqlite rolls the open transaction back.
Crash ==
  /\ up /\ boots < MaxBoots
  /\ up' = FALSE
  /\ work' = db /\ tx' = Closed
  /\ UNCHANGED <<db, seq, bootSeq, bootTime, now, reports, boots>>

\* The bound does not stop the clock while a drain waits for its deadline.
Tick ==
  /\ ~tx.open
  /\ now < MaxTime \/ \E k \in Draining(db) : now < Deadline(db.insts[k])
  /\ now' = now + 1
  /\ UNCHANGED <<db, seq, work, tx, up, bootSeq, bootTime, reports, boots>>

------------------------------------------------------------------------------

InitDb ==
  Tables([live |-> FALSE, version |-> 0, running |-> FALSE,
          strategy |-> "RECREATE"],
         [v \in {} |-> "RECREATE"], [k \in {} |-> 0], 1, "MEMBER_NORMAL")

Init ==
  /\ db = InitDb /\ work = InitDb
  /\ seq = 0 /\ tx = Closed
  /\ up = FALSE /\ bootSeq = 0 /\ bootTime = 0
  /\ now = 0 /\ reports = 0 /\ boots = 0

Next ==
  \/ Create \/ Update \/ Delete \/ WriteReplicatedStatus
  \/ EvictNode
  \/ Sweep \/ Start \/ Crash \/ Tick
  \/ Pass \/ Commit

Spec == Init /\ [][Next]_vars

\* The process is restarted when it dies, the clock advances (between
\* transactions, hence SF), the poll ticker of Run keeps firing, and an open
\* transaction runs to its end: its passes are a bounded loop of one goroutine
\* (Stabilizes).
Fairness ==
  /\ WF_vars(Start) /\ SF_vars(Tick) /\ WF_vars(Sweep)
  /\ []<>(~tx.open)

FairSpec == Spec /\ Fairness

------------------------------------------------------------------------------
(* Properties.                                                              *)

\* TypeOK: the tables hold the records the queries scan.
TablesOK(s) ==
  /\ s = Tables(s.cfg, s.versions, s.insts, s.nextId, s.node)
  /\ s.cfg \in Deployment
  /\ s.versions = [v \in DOMAIN s.versions |-> s.versions[v]]
  /\ DOMAIN s.versions \subseteq Nat
  /\ \A v \in DOMAIN s.versions : s.versions[v] \in Strategies
  /\ s.insts = [k \in DOMAIN s.insts |-> s.insts[k]]
  /\ DOMAIN s.insts \subseteq Nat
  /\ \A k \in DOMAIN s.insts : s.insts[k] \in Instance
  /\ s.nextId \in Nat
  /\ s.node \in NodeStatuses

TypeOK ==
  /\ TablesOK(db) /\ TablesOK(work)
  /\ seq \in Nat /\ bootSeq \in Nat /\ bootTime \in Nat /\ now \in Nat
  /\ tx \in [open : BOOLEAN, now : Nat, pass : Nat, limit : Nat,
             mutated : BOOLEAN]
  /\ up \in BOOLEAN /\ reports \in Nat /\ boots \in Nat

\* The commit's passes reach a fixpoint within the limit reconcile sets, so no
\* writer ever gets "scheduler did not stabilize deployment" back.
Stabilizes == tx.pass <= tx.limit

OneServing(s) == \A j, k \in Serving(s) : j = k

\* promote drains what it replaces and newInstance starts as a standby behind
\* a serving instance: two instances never serve the deployment's address.
AtMostOneServing == OneServing(db)

Alone(s) ==
  \A j, k \in Live(s) :
    j < k => s.versions[s.insts[k].version] = "ROLLOVER"

\* A RECREATE version starts only once everything older is final: an instance
\* of such a version never coexists with an older instance that is not.
RecreateAlone == Alone(db)

Succeeded(s) == \A k \in Draining(s) : \E j \in Serving(s) : j > k

\* Traffic is drained off an instance only onto a newer serving one, and the
\* successor is not lost while the drain lasts.
DrainingHasSuccessor == Succeeded(db)

Pins(s) == \A k \in DOMAIN s.insts : s.insts[k].version \in DOMAIN s.versions

\* The document a retained instance pins is never pruned: readSchedulingState
\* would fail on it and with it every later commit of the deployment.
PinnedVersionRetained == Pins(db)

Ordered(s) ==
  \A j, k \in DOMAIN s.insts :
    j < k => s.insts[j].version < s.insts[k].version

\* A version is placed once: no retry, restart of the primary or late status
\* makes the scheduler start the same version a second time, and newer
\* instances are of newer versions.
PlacedOnce == db.nextId <= db.cfg.version + 1 /\ Ordered(db)

\* Nothing is left to do between commits: whatever a writer, a status report
\* or a boot changed, the placement rules other than the drain's have been
\* applied to it in the same commit.
Settled ==
  boots > 0 => LET r == Retire(db, seq + 1, now)
               IN  r = db /\ Place(db, seq + 1, now) = db

Rank == [x \in Targets |->
  CASE x = "RUN_STANDBY" -> 0 [] x = "RUN_SERVING" -> 1
    [] x = "RUN_DRAINING" -> 2 [] x = "TERMINATE" -> 3 [] x = "FINALIZED" -> 4]

Forward(s, r) ==
  /\ s.nextId <= r.nextId
  /\ \A k \in DOMAIN s.insts \cap DOMAIN r.insts :
       Rank[s.insts[k].state] <= Rank[r.insts[k].state]
  /\ \A k \in DOMAIN r.insts \ DOMAIN s.insts : k >= s.nextId

\* An instance only moves forward through standby, serving, draining,
\* terminate and finalized, whatever is written in whatever order, and the id
\* of one that was pruned is not used again.
ForwardOnly == [][Forward(db, db')]_db

InService(s) == /\ DeploymentRunning(s) /\ s.cfg.strategy = "ROLLOVER"
                /\ s.node # "MEMBER_EVICTED"

Covered(k, s) ==
  k \in Serving(s) \/ \E j \in Serving(s) : s.insts[j].status = "RUNNING"

Gapless(s, r) ==
  InService(r) /\ Serving(s) # {} =>
    /\ Serving(r) # {}
    /\ \A k \in Serving(s) \cap DOMAIN r.insts :
         r.insts[k].status # "STOPPED" => Covered(k, r)

\* A rollover has no gap: while the deployment runs under ROLLOVER on a member
\* node, a commit that finds an instance serving leaves one serving, and takes
\* out of service one that has not stopped only for one that runs.
NoServingGap == [][Gapless(db, db')]_db

Promise == INSTANCE Rollout WITH issued <- db.nextId, standby <- Standby(db),
                                 serving <- Serving(db), draining <- Draining(db)

\* Every commit of the scheduler, whatever writer opened it and however many
\* passes it took, is a step Rollout allows: service moves only forward, onto
\* an instance that never served, and no instance warms up or drains beside an
\* address that nobody serves.
Refines == Promise!Spec

\* A drain ends even if no node ever acknowledges the map and the primary
\* restarts in between: the sweep terminates the instance at the deadline.
DrainEnds ==
  \A k \in 1..MaxVersion :
    (k \in Draining(db)) ~> (k \notin Draining(db))
------------------------------------------------------------------------------
(* The inductive invariant, of the committed tables and of the open         *)
(* transaction's.                                                           *)

Placing(s) == DeploymentRunning(s) /\ s.node # "MEMBER_EVICTED"

IdsBelow(s) == \A k \in DOMAIN s.insts : k < s.nextId

VersionsKnown(s) ==
  \A k \in DOMAIN s.insts : s.insts[k].version <= s.cfg.version

\* The current document is retained with the strategy it asks for.
CurrentRetained(s) ==
  s.cfg.live => /\ s.cfg.version \in DOMAIN s.versions
                /\ s.versions[s.cfg.version] = s.cfg.strategy

\* While the deployment is placed, the instance of its current version is
\* wanted, and an id is left for it as long as there is none.
CurrentWanted(s) ==
  Placing(s) =>
    /\ \A k \in DOMAIN s.insts :
         s.insts[k].version = s.cfg.version => s.insts[k].state \in WantsRunning
    /\ Exact(s) = {} => s.nextId <= s.cfg.version

TablesInv(s) ==
  /\ TablesOK(s)
  /\ IdsBelow(s) /\ VersionsKnown(s) /\ Ordered(s)
  /\ Pins(s) /\ CurrentRetained(s) /\ CurrentWanted(s)
  /\ s.nextId <= s.cfg.version + 1
  /\ OneServing(s) /\ Succeeded(s) /\ Alone(s)

\* Both tables satisfy the invariant, and what an open transaction has done so
\* far moves instances forward and leaves no gap.
IInv ==
  /\ TypeOK
  /\ TablesInv(db) /\ TablesInv(work)
  /\ Forward(db, work) /\ Gapless(db, work)
=============================================================================
