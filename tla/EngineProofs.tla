---------------------------- MODULE EngineProofs ----------------------------
(***************************************************************************)
(* Proofs about one placement on its node, for every number of runs, exits, *)
(* faults and agent restarts and every size of the operator's subscription. *)
(*                                                                         *)
(* The operator and the run loop share no lock, so the invariant says what *)
(* each may rely on while the other moves: what the operator's pc says of  *)
(* the runner (OpInv), how run numbers go (Numbers), which container may   *)
(* run at each point of the run loop (Charge), and that an operator without *)
(* a runner has no container but the ones known to be left behind (Left).  *)
(* The steps come in the order run loop, operator, preparer, environment.  *)
(***************************************************************************)
EXTENDS Engine, TLAPS

W == INSTANCE WellFoundedInduction

Targets == {"RUN", "TERMINATE", "FINALIZED"}
PrepStates == {"RESOLVING", "BUILDING", "READY", "FAILED"}
RunStates == {"STARTING", "RUNNING", "CRASHED", "STOPPED"}
ContainerStates == {"none", "running", "term", "exited"}
Update == [target : Targets, prep : PrepStates \cup {None}, run : RunStates \cup {None}]
OpType ==
  [pc : {"down", "boot", "idle", "wait", "kill", "join", "cancel", "off"}, cur : Targets,
   role : {"none", "current", "candidate"}, repair : BOOLEAN, started : BOOLEAN,
   then : Follows \cup {None}, task : 0..MaxRun, st : RunStates \cup {None}]
RunnerPcs ==
  {"none", "reattachRunning", "reattachStopped", "stopAdopted", "dropAdopted", "loop", "spawn",
   "started", "warming", "failReadiness", "gaveUp", "running", "backoff", "done"}
RunnerType ==
  [pc : RunnerPcs, st : RunStates, pid : BOOLEAN, restarts : Nat, had : BOOLEAN, n : 0..MaxRun,
   task : 0..MaxRun, stopping : BOOLEAN, cancelled : BOOLEAN, adopted : BOOLEAN,
   pending : BOOLEAN, expired : BOOLEAN, ready : Outcomes \cup {None}, why : Outcomes \cup {None},
   missing : BOOLEAN]

TypeOK ==
  /\ target \in Targets /\ prep \in PrepStates \cup {None} /\ run \in RunStatus \cup {None}
  /\ queue \in Seq(Update) /\ overflow \in BOOLEAN
  /\ op \in OpType /\ r \in RunnerType /\ ctr \in [Runs -> ContainerStates]
  /\ boots \in Nat

\* The order in which an assignment's target moves.
Later(a, b) == a = "RUN" \/ b = "FINALIZED" \/ (a = "TERMINATE" /\ b = "TERMINATE")

\* The updates q lead from the target c to the target t.
Leads(c, q, t) ==
  /\ Later(c, t)
  /\ \A i \in 1..Len(q) : Later(c, q[i].target) /\ Later(q[i].target, t)
  /\ \A i, j \in 1..Len(q) : i < j => Later(q[i].target, q[j].target)

\* The operator never sees the target go back.
QueueInv == op.pc # "down" => Leads(op.cur, queue, target)

\* What the operator's state says of the runner.
OpInv ==
  /\ op.role = "none" => r.pc \in {"none", "done"}
  /\ op.pc = "down" => op.role = "none" /\ r.pc = "none"
  /\ op.pc = "idle" /\ op.cur # "RUN" => op.role = "none"
  /\ op.pc = "cancel" => op.then = "finalized" \/ (op.then = "missing" /\ op.role = "none")
  /\ op.then = "finalized" => op.cur = "FINALIZED"
  /\ op.then = "terminate" => op.cur = "TERMINATE"
  /\ op.pc \in {"wait", "kill"} => op.role # "none"
  /\ op.role # "none" => (r.stopping <=> op.pc \in {"wait", "kill", "join"})
  /\ r.cancelled => r.stopping

NoneRunning == \A m \in Runs : ctr[m] # "running"

\* What is running has been left behind, or is run k.
NoneOwned == \A m \in Runs : ctr[m] = "running" => m \in orphans
OnlyOwned(k) == \A m \in Runs : ctr[m] = "running" => m = k \/ m \in orphans

\* Nothing is left of other runs when a task is about to be created.
Clean == OneContainer /\ (r.pc = "spawn" /\ ~r.cancelled => \A m \in Runs \ {r.n} : ctr[m] = "none")

\* The run loop has a run in hand.
Busy == {"spawn", "started", "warming", "running", "dropAdopted", "stopAdopted"}

\* The run number the next iteration takes.
Upcoming == IF r.had THEN r.restarts + 2 ELSE r.restarts + 1

\* Run numbers, and what the readiness outcome says of the run loop.
Numbers ==
  /\ r.pc \in Busy => r.n = r.restarts + 1 /\ r.n \in Runs
  /\ r.pc = "backoff" => r.n <= r.restarts + 1
  /\ r.pc = "loop" => r.n < Upcoming
  /\ r.pc \in {"reattachRunning", "reattachStopped"} => r.n = 0
  /\ r.pc \in {"spawn", "started", "warming", "backoff"} => r.had
  /\ r.pc = "running" => ~r.pending /\ (r.had \/ r.adopted)
  /\ r.pc \in {"warming", "failReadiness"} => r.pending
  /\ r.pc \in {"warming", "dropAdopted", "stopAdopted"} => r.task = r.n
  /\ r.pc \in {"reattachRunning", "reattachStopped", "dropAdopted", "stopAdopted"} => ~r.pending
  /\ r.adopted => r.pc = "running"
  /\ r.missing => r.pc \in {"failReadiness", "gaveUp", "done"}
  /\ r.pc = "failReadiness" => r.why \in {"failed", "missing"}
  /\ ~r.stopping => /\ r.ready \in {"failed", "missing"} => r.pc \in {"gaveUp", "done"}
                    /\ r.pending => r.ready = None

\* The container that may run, while the runner is not being stopped.
Charge ==
  ~r.stopping =>
    /\ r.pc \in {"failReadiness", "gaveUp", "done", "spawn"} => NoneOwned
    /\ r.pc \in Busy \cup {"loop", "backoff"} => OnlyOwned(r.n)
    /\ r.pc \in {"loop", "backoff"} /\ r.pending => NoneOwned

\* A placement without a runner has no container.
NoneYet ==
  /\ run = None /\ target # "FINALIZED" => r.pc = "none" /\ NoneRunning
  /\ op.pc # "down" /\ r.pc = "none" => NoneRunning

\* An operator without a runner has left behind whatever still runs.
Left == op.pc # "down" /\ op.role = "none" => NoneOwned

\* Before the first agent restart only a signal makes a ROLLOVER placement RUNNING.
ReadyInv ==
  scope.strategy = "ROLLOVER" /\ boots <= 1 =>
    /\ run # None /\ run.st = "RUNNING" => signalled
    /\ boots = 0 => run = None /\ op.pc = "down"
    /\ r.pc \notin {"reattachRunning", "reattachStopped", "stopAdopted", "dropAdopted"} /\ ~r.adopted
    /\ r.pc \in {"loop", "spawn", "started", "running", "backoff"} /\ ~r.pending => signalled

\* The inductive invariant.
IInv == TypeOK /\ QueueInv /\ OpInv /\ Clean /\ Numbers /\ Charge /\ NoneYet /\ Left /\ ReadyInv

-----------------------------------------------------------------------------

(* The store and the containers.                                             *)

\* The value that stands for nothing is none of the others.
LEMMA Nothing == None \notin Outcomes /\ None \notin Follows /\ None \notin RunStatus /\ MaxRun \in Nat /\ 1 \in Runs
BY EngineAssumption DEF Runs

\* A set of run numbers has a newest one (adoptTask).
LEMMA MaxIs ==
  ASSUME NEW S, S \subseteq Runs, S # {}
  PROVE  Max(S) \in S
<1>0. MaxRun \in Nat
  BY EngineAssumption
<1> DEFINE T == {MaxRun - x : x \in S}
           R == {xy \in Nat \X Nat : xy[1] < xy[2]}
<1>1. T \subseteq Nat /\ T # {}
  <2>1. \A x \in S : MaxRun - x \in Nat
    BY <1>0 DEF Runs
  <2>2. PICK x \in S : TRUE
    OBVIOUS
  <2>3. MaxRun - x \in T
    OBVIOUS
  <2> QED
    BY <2>1, <2>3
<1>2. W!IsWellFoundedOn(R, Nat)
  BY W!NatLessThanWellFounded DEF W!OpToRel
<1>3. PICK t \in T : \A u \in T : ~(<<u, t>> \in R)
  <2> HIDE DEF T, R
  <2> QED
    BY <1>1, <1>2, W!WFMin, Zenon
<1>4. PICK x \in S : t = MaxRun - x
  OBVIOUS
<1>5. \A y \in S : x >= y
  <2> TAKE y \in S
  <2>1. MaxRun - y \in T /\ MaxRun - y \in Nat /\ t \in Nat
    BY <1>1
  <2>2. ~(MaxRun - y < t)
    BY <1>3, <2>1, Zenon
  <2> QED
    BY <1>0, <1>4, <2>2 DEF Runs
<1> QED
  BY <1>5 DEF Max

\* An update of the newest target keeps the operator's view of it in order.
LEMMA LeadsAppend ==
  ASSUME NEW c, NEW q \in Seq(Update), NEW t, NEW u \in Update, u.target = t, Leads(c, q, t), Later(t, t)
  PROVE  Append(q, u) \in Seq(Update) /\ Leads(c, Append(q, u), t)
<1> DEFINE a == Append(q, u)
<1>1. a \in Seq(Update) /\ Len(q) \in Nat /\ Len(a) = Len(q) + 1
  OBVIOUS
<1>2. a[Len(q) + 1] = u /\ \A i \in 1..Len(q) : a[i] = q[i]
  OBVIOUS
<1> HIDE DEF a
<1>3. \A i \in 1..Len(a) : (i \in 1..Len(q) /\ a[i] = q[i]) \/ (i = Len(q) + 1 /\ a[i] = u)
  BY <1>1, <1>2
<1>4. \A i \in 1..Len(a) : Later(c, a[i].target) /\ Later(a[i].target, t)
  BY <1>3, Zenon DEF Leads
<1>5. ASSUME NEW i \in 1..Len(a), NEW j \in 1..Len(a), i < j
      PROVE  Later(a[i].target, a[j].target)
  <2>1. i \in 1..Len(q) /\ a[i] = q[i]
    BY <1>1, <1>3, <1>5
  <2>2. CASE j \in 1..Len(q) /\ a[j] = q[j]
    BY <1>5, <2>1, <2>2, Zenon DEF Leads
  <2>3. CASE a[j] = u
    BY <2>1, <2>3, Zenon DEF Leads
  <2> QED
    BY <1>3, <2>2, <2>3, Zenon
<1>6. Leads(c, a, t)
  BY <1>4, <1>5, Zenon DEF Leads
<1> QED
  BY <1>1, <1>6 DEF a

\* The next update: the operator's target moves up to it.
LEMMA LeadsTail ==
  ASSUME NEW c, NEW q \in Seq(Update), NEW t, q # <<>>, Leads(c, q, t)
  PROVE  /\ Head(q) \in Update /\ Tail(q) \in Seq(Update)
         /\ Later(c, Head(q).target) /\ Leads(Head(q).target, Tail(q), t)
<1> DEFINE b == Tail(q)
<1>1. b \in Seq(Update) /\ Len(q) \in Nat /\ Len(b) = Len(q) - 1 /\ 1 \in 1..Len(q)
  OBVIOUS
<1>2. \A i \in 1..Len(b) : b[i] = q[i + 1]
  OBVIOUS
<1>3. Head(q) \in Update /\ Head(q) = q[1]
  OBVIOUS
<1> HIDE DEF b
<1>4. \A i \in 1..Len(b) : i + 1 \in 1..Len(q) /\ 1 < i + 1
  BY <1>1
<1>5. Later(c, q[1].target) /\ Later(q[1].target, t)
  BY <1>1, Zenon DEF Leads
<1>6. \A i \in 1..Len(b) : Later(q[1].target, b[i].target) /\ Later(b[i].target, t)
  BY <1>1, <1>2, <1>4, Zenon DEF Leads
<1>7. ASSUME NEW i \in 1..Len(b), NEW j \in 1..Len(b), i < j
      PROVE  Later(b[i].target, b[j].target)
  <2>1. i + 1 < j + 1
    BY <1>1, <1>7
  <2> QED
    BY <1>2, <1>4, <2>1, Zenon DEF Leads
<1>8. Leads(q[1].target, b, t)
  BY <1>5, <1>6, <1>7, Zenon DEF Leads
<1> QED
  BY <1>1, <1>3, <1>5, <1>8 DEF b

\* The updates a step leaves lead the operator on from the target c.
Fed(c) == queue' \in Seq(Update) /\ overflow' \in BOOLEAN /\ (op.pc # "down" => Leads(c, queue', target'))

\* Delivery into a subscription, full or not (notify).
LEMMA NotifyIs ==
  ASSUME NEW c, NEW q \in Seq(Update), NEW lost \in BOOLEAN, NEW u \in Update,
         op.pc # "down" => Leads(c, q, target'), u.target = target', target' \in Targets, notify(q, lost, u)
  PROVE  Fed(c)
<1>1. Later(target', target')
  BY DEF Later, Targets
<1>2. queue' = q \/ queue' = Append(q, u)
  BY DEF notify
<1>3. overflow' \in BOOLEAN
  BY DEF notify
<1>4. CASE queue' = q
  BY <1>3, <1>4, Zenon DEF Fed
<1>5. CASE queue' = Append(q, u)
  <2>1. Append(q, u) \in Seq(Update)
    OBVIOUS
  <2>2. op.pc # "down" => Leads(c, Append(q, u), target')
    BY <1>1, LeadsAppend, Zenon
  <2> QED
    BY <1>3, <1>5, <2>1, <2>2, Zenon DEF Fed
<1> QED
  BY <1>2, <1>4, <1>5

\* A step of a goroutine other than the operator leaves the store like this.
Stored ==
  /\ target' = target /\ prep' \in PrepStates \cup {None} /\ run' \in RunStatus \cup {None}
  /\ run' = None /\ target # "FINALIZED" => run = None
  /\ Fed(op.cur)

\* The store's snapshot is an update with its own target.
LEMMA SnapshotIs ==
  ASSUME NEW t \in Targets, NEW p \in PrepStates \cup {None}, NEW s \in RunStatus \cup {None}
  PROVE  Snapshot(t, p, s) \in Update /\ Snapshot(t, p, s).target = t
BY DEF Snapshot, Update, RunStatus, RunStates

\* A step without a write leaves the store alone.
LEMMA Unwritten ==
  ASSUME IInv, UNCHANGED store
  PROVE  Stored /\ run' = run
BY DEF IInv, TypeOK, QueueInv, Stored, Fed, store

\* A status write reaches the operator, unless the placement is finalized.
LEMMA WriteIs ==
  ASSUME IInv, NEW p \in PrepStates \cup {None}, NEW s \in RunStatus \cup {None}, s = None => run = None,
         MustWriteScheduledInstanceStatus(p, s)
  PROVE  Stored /\ (run' = s \/ run' = run)
<1>1. CASE target = "FINALIZED"
  BY <1>1, Unwritten DEF MustWriteScheduledInstanceStatus
<1>2. CASE target # "FINALIZED"
  <2>1. prep' = p /\ run' = s /\ target' = target /\ notify(queue, overflow, Snapshot(target, p, s))
    BY <1>2 DEF MustWriteScheduledInstanceStatus
  <2>2. target \in Targets /\ queue \in Seq(Update) /\ overflow \in BOOLEAN
    BY DEF IInv, TypeOK
  <2>3. op.pc # "down" => Leads(op.cur, queue, target)
    BY DEF IInv, QueueInv
  <2>4. Snapshot(target, p, s) \in Update /\ Snapshot(target, p, s).target = target
    BY <2>2, SnapshotIs, Zenon
  <2>5. Fed(op.cur)
    BY <2>1, <2>2, <2>3, <2>4, NotifyIs, Zenon
  <2> QED
    BY <2>1, <2>5 DEF Stored
<1> QED
  BY <1>1, <1>2

\* No container starts in this step.
Fewer ==
  /\ ctr' \in [Runs -> ContainerStates]
  /\ \A m \in Runs : /\ ctr'[m] = "running" => ctr[m] = "running"
                     /\ Alive(ctr', m) => Alive(ctr, m)

\* The containers d are c with run k at most signalled or gone.
Milder(c, d, k) ==
  /\ d \in [Runs -> ContainerStates]
  /\ \A m \in Runs : /\ d[m] = "running" => c[m] = "running" /\ m # k
                     /\ Alive(d, m) => Alive(c, m)
                     /\ c[m] = "none" => d[m] = "none"

\* A call to containerd that touches one container.
LEMMA MilderIs ==
  ASSUME NEW c \in [Runs -> ContainerStates], NEW d \in [Runs -> ContainerStates], NEW k \in Runs,
         \A m \in Runs \ {k} : d[m] = c[m], c[k] # "none", d[k] # "running", d[k] = "term" => Alive(c, k)
  PROVE  Milder(c, d, k)
BY DEF Milder, Alive

\* What the calls to containerd do to the containers.
LEMMA SignalIs ==
  ASSUME NEW c \in [Runs -> ContainerStates], NEW k \in 0..MaxRun
  PROVE  Milder(c, SIGTERM(c, k), k) /\ Milder(c, SIGKILL(c, k), k)
<1>1. (k # 0 => k \in Runs) /\ 0 \notin Runs
  BY EngineAssumption DEF Runs
<1>2. Milder(c, SIGTERM(c, k), k)
  <2>1. CASE k # 0 /\ c[k] = "running"
    <3>1. /\ SIGTERM(c, k) \in [Runs -> ContainerStates] /\ SIGTERM(c, k)[k] = "term"
          /\ \A m \in Runs \ {k} : SIGTERM(c, k)[m] = c[m]
          /\ Alive(c, k) /\ k \in Runs /\ c[k] # "none"
      BY <1>1, <2>1 DEF SIGTERM, Alive, ContainerStates
    <3> QED
      BY <3>1, MilderIs
  <2>2. CASE ~(k # 0 /\ c[k] = "running")
    <3>1. SIGTERM(c, k) = c
      BY <2>2 DEF SIGTERM
    <3> QED
      BY <1>1, <2>2, <3>1 DEF Milder
  <2> QED
    BY <2>1, <2>2
<1>3. Milder(c, SIGKILL(c, k), k)
  <2>1. CASE k # 0 /\ Alive(c, k)
    <3>1. /\ SIGKILL(c, k) \in [Runs -> ContainerStates] /\ SIGKILL(c, k)[k] = "exited"
          /\ (\A m \in Runs \ {k} : SIGKILL(c, k)[m] = c[m]) /\ k \in Runs /\ c[k] # "none"
      BY <1>1, <2>1 DEF SIGKILL, ContainerStates, Alive
    <3> QED
      BY <3>1, MilderIs
  <2>2. CASE ~(k # 0 /\ Alive(c, k))
    <3>1. SIGKILL(c, k) = c
      BY <2>2 DEF SIGKILL
    <3>2. k # 0 => c[k] # "running"
      BY <2>2 DEF Alive
    <3> QED
      BY <1>1, <3>1, <3>2 DEF Milder
  <2> QED
    BY <2>1, <2>2
<1> QED
  BY <1>2, <1>3

\* Deleting a task: containerd keeps one that has not stopped.
LEMMA DeleteIs ==
  ASSUME NEW c \in [Runs -> ContainerStates], NEW k \in 0..MaxRun
  PROVE  deleteTask(c, k) = c \/ Milder(c, deleteTask(c, k), k)
<1>1. k # 0 => k \in Runs
  BY EngineAssumption DEF Runs
<1>2. CASE k # 0 /\ c[k] = "exited"
  <2>1. /\ deleteTask(c, k) \in [Runs -> ContainerStates] /\ deleteTask(c, k)[k] = "none"
        /\ (\A m \in Runs \ {k} : deleteTask(c, k)[m] = c[m]) /\ k \in Runs
    BY <1>1, <1>2 DEF deleteTask, ContainerStates
  <2> QED
    BY <1>2, <2>1, MilderIs
<1>3. CASE ~(k # 0 /\ c[k] = "exited")
  BY <1>3 DEF deleteTask
<1> QED
  BY <1>2, <1>3

\* Removing the other containers: under a cancelled context nothing is removed.
LEMMA RemoveIs ==
  ASSUME IInv, NEW k, ctr' = RemoveAllBut(k)
  PROVE  /\ Fewer
         /\ ~r.cancelled => \A m \in Runs \ {k} : ctr'[m] = "none"
<1>1. ctr \in [Runs -> ContainerStates] /\ r.cancelled \in BOOLEAN
  BY DEF IInv, TypeOK, RunnerType
<1>2. /\ ctr' = [m \in Runs |-> IF m \in ListContainerIDs \ {k} THEN "none" ELSE ctr[m]]
      /\ ~r.cancelled => \A m \in Runs : m \in ListContainerIDs <=> ctr[m] # "none"
  BY DEF RemoveAllBut, ListContainerIDs
<1>3. \A m \in Runs : ctr'[m] = "none" \/ ctr'[m] = ctr[m]
  BY <1>2
<1>4. ctr' \in [Runs -> ContainerStates]
  BY <1>1, <1>2 DEF ContainerStates
<1>5. Fewer
  BY <1>3, <1>4 DEF Fewer, Alive
<1>6. ~r.cancelled => \A m \in Runs \ {k} : ctr'[m] = "none"
  BY <1>1, <1>2
<1> QED
  BY <1>5, <1>6

\* Stop's calls on one task: a container is signalled and deleted, or killed and
\* deleted, and none other changes.
LEMMA TermIs ==
  ASSUME IInv, NEW k \in 0..MaxRun,
         ctr' = deleteTask(SIGTERM(ctr, k), k) \/ ctr' = deleteTask(SIGKILL(ctr, k), k)
  PROVE  Fewer /\ \A m \in Runs : ctr'[m] = "running" => ctr[m] = "running" /\ m # k
<1>0. ctr \in [Runs -> ContainerStates]
  BY Zenon DEF IInv, TypeOK
<1>1. ASSUME NEW d, Milder(ctr, d, k), ctr' = deleteTask(d, k)
      PROVE  Fewer /\ \A m \in Runs : ctr'[m] = "running" => ctr[m] = "running" /\ m # k
  <2>1. d \in [Runs -> ContainerStates]
    BY <1>1, Zenon DEF Milder
  <2>2. ctr' = d \/ Milder(d, ctr', k)
    BY <1>1, <2>1, DeleteIs, Zenon
  <2> QED
    BY <1>1, <2>2, Zenon DEF Milder, Fewer
<1> QED
  BY <1>0, <1>1, SignalIs, Zenon

\* Deleting an exited task starts nothing.
LEMMA DelIs ==
  ASSUME IInv, NEW k \in 0..MaxRun, ctr' = deleteTask(ctr, k)
  PROVE  Fewer
<1>0. ctr \in [Runs -> ContainerStates]
  BY Zenon DEF IInv, TypeOK
<1>1. ctr' = ctr \/ Milder(ctr, ctr', k)
  BY <1>0, DeleteIs, Zenon
<1> QED
  BY <1>0, <1>1, Zenon DEF Milder, Fewer

\* adoptTask's choice: a container that exists, if there is one.
LEMMA BestIs ==
  ASSUME IInv
  PROVE  best \in 0..MaxRun /\ (~r.cancelled => \A m \in Runs : ctr[m] # "none" => best # 0)
<1>1. ListContainerIDs \subseteq Runs
  BY DEF ListContainerIDs
<1>2. Runs \subseteq 0..MaxRun /\ 0 \in 0..MaxRun /\ 0 \notin Runs
  BY Nothing DEF Runs
<1>3. best = 0 \/ best \in Runs
  BY <1>1, MaxIs, Zenon DEF best
<1>4. ListContainerIDs # {} => best # 0
  BY <1>1, <1>2, MaxIs, Zenon DEF best
<1>5. ~r.cancelled => \A m \in Runs : ctr[m] # "none" => m \in ListContainerIDs
  BY DEF ListContainerIDs
<1> QED
  BY <1>2, <1>3, <1>4, <1>5, Zenon

\* A missed adoption still spends the newest run's number.
LEMMA MissedIs ==
  ASSUME NEW a \in Nat, NEW b \in 0..MaxRun
  PROVE  Max({a, b}) \in Nat
<1>1. b \in Nat
  BY Nothing
<1>2. PICK c \in {a, b} : \A d \in {a, b} : c >= d
  <2>1. CASE a >= b
    BY <2>1
  <2>2. CASE ~(a >= b)
    BY <1>1, <2>2
  <2> QED
    BY <2>1, <2>2
<1>3. Max({a, b}) \in {a, b}
  BY <1>2 DEF Max
<1> QED
  BY <1>1, <1>3

\* A container that stays as it is.
LEMMA SameContainers == ASSUME IInv, ctr' = ctr PROVE Fewer
BY DEF Fewer, IInv, TypeOK

\* One step of the run loop, as far as the rest of the placement can tell.
RunnerMoves ==
  /\ r' \in RunnerType /\ r'.stopping = r.stopping /\ r'.cancelled = r.cancelled
  /\ r.pc \notin {"none", "done"} /\ r'.pc \notin {"none", "reattachRunning", "reattachStopped"}
  /\ r'.pc = "spawn" => ~r.stopping
  /\ op' = op /\ boots' = boots /\ scope' = scope

\* The operator's view of such a step.
LEMMA RunnerOp ==
  ASSUME IInv, Stored, RunnerMoves
  PROVE  QueueInv' /\ OpInv' /\ op.role # "none" /\ op.pc # "down"
<1>1. op.role # "none" /\ op.pc # "down"
  BY DEF RunnerMoves, IInv, OpInv
<1>2. QueueInv'
  BY <1>1 DEF RunnerMoves, Stored, Fed, QueueInv
<1>3. OpInv'
  BY <1>1 DEF RunnerMoves, IInv, OpInv
<1> QED
  BY <1>1, <1>2, <1>3

\* A step of the run loop that starts no container.
LEMMA RunnerStep ==
  ASSUME IInv, Stored, RunnerMoves, Fewer, Numbers', Charge', ReadyInv',
         r'.pc = "spawn" /\ ~r.cancelled => \A m \in Runs \ {r'.n} : ctr'[m] = "none"
  PROVE  IInv'
<1>1. QueueInv' /\ OpInv' /\ op.role # "none" /\ op.pc # "down"
  BY RunnerOp
<1>2. TypeOK'
  BY DEF RunnerMoves, Stored, Fed, Fewer, IInv, TypeOK
<1>3. Clean'
  <2>1. OneContainer'
    BY DEF Fewer, IInv, Clean, OneContainer
  <2> QED
    BY <2>1 DEF Clean, RunnerMoves
<1>4. NoneYet'
  BY DEF RunnerMoves, Stored, IInv, NoneYet
<1>5. Left'
  BY <1>1 DEF Left, RunnerMoves
<1> QED
  BY <1>1, <1>2, <1>3, <1>4, <1>5 DEF IInv

\* A run that is over leaves its number behind.
LEMMA NumberSpent ==
  ASSUME IInv, r.pc \in Busy \cup {"backoff"}
  PROVE  r.n <= r.restarts + 1 /\ r.n < r.restarts + 2
<1>1. r.restarts \in Nat /\ r.n \in 0..MaxRun /\ MaxRun \in Nat
  BY Nothing, Zenon DEF IInv, TypeOK, RunnerType
<1>2. r.n = r.restarts + 1 \/ r.n <= r.restarts + 1
  BY Zenon DEF IInv, Numbers
<1> QED
  BY <1>1, <1>2

\* The runner y is x but for its status.
Like(y, x) ==
  /\ y.pc = x.pc /\ y.restarts = x.restarts /\ y.had = x.had /\ y.n = x.n /\ y.task = x.task
  /\ y.stopping = x.stopping /\ y.cancelled = x.cancelled /\ y.adopted = x.adopted
  /\ y.pending = x.pending /\ y.expired = x.expired /\ y.ready = x.ready /\ y.why = x.why
  /\ y.missing = x.missing

\* updateStatus sets the status of x and publishes it.
LEMMA UpdateIs ==
  ASSUME IInv, NEW x \in RunnerType, NEW st \in RunStates, NEW pid \in BOOLEAN, updateStatus(x, st, pid)
  PROVE  /\ Like(r', x) /\ r' \in RunnerType
         /\ Stored /\ (run' = run \/ (run' # None /\ run'.st = st))
<1> DEFINE y == [x EXCEPT !.st = st, !.pid = pid]
<1>1. r' = y /\ MustWriteScheduledInstanceStatus(prep, Published(y))
  BY DEF updateStatus
<1>2. y \in RunnerType /\ y.st = st /\ Like(y, x)
  BY Zenon DEF RunnerType, Like
<1> HIDE DEF y
<1>3. Published(y) \in RunStatus /\ Published(y).st = st /\ Published(y) # None
  BY <1>2, Nothing DEF Published, RunStatus, RunnerType, RunStates
<1>4. prep \in PrepStates \cup {None}
  BY Zenon DEF IInv, TypeOK
<1>5. Stored /\ (run' = Published(y) \/ run' = run)
  BY <1>1, <1>3, <1>4, WriteIs, Zenon
<1> QED
  BY <1>1, <1>2, <1>3, <1>5, Zenon

\* shouldPublishStopped spares a write that would change nothing.
LEMMA PublishIs ==
  ASSUME IInv, NEW x \in RunnerType, publishStopped(x)
  PROVE  /\ Like(r', x) /\ r' \in RunnerType
         /\ Stored /\ (run' = run \/ (run' # None /\ run'.st = "STOPPED"))
<1>1. CASE updateStatus(x, "STOPPED", FALSE)
  BY <1>1, UpdateIs, Zenon DEF RunStates
<1>2. CASE r' = x /\ UNCHANGED store
  BY <1>2, Unwritten, Zenon DEF Like
<1> QED
  BY <1>1, <1>2, Zenon DEF publishStopped

-----------------------------------------------------------------------------
(* The run loop.                                                             *)

\* The head of the loop: the next run number is chosen and the rest removed.
LEMMA LoopStep ==
  ASSUME IInv, loop, scope' = scope
  PROVE  IInv'
<1>0. r \in RunnerType
  BY Zenon DEF IInv, TypeOK
<1>1. /\ r.pc = "loop" /\ op' = op /\ boots' = boots /\ scope' = scope /\ signalled' = signalled
      /\ orphans' = orphans
      /\ op.pc # "down"
  BY Zenon DEF loop, budgets, world, IInv, OpInv
<1> DEFINE restarts == IF r.had THEN r.restarts + 1 ELSE r.restarts
<1>9. /\ restarts = Upcoming - 1 /\ restarts + 1 = Upcoming
      /\ restarts < MaxRun => Upcoming \in Runs
  <2>1. r.had \in BOOLEAN /\ r.restarts \in Nat /\ MaxRun \in Nat
    BY <1>0, Nothing, Zenon DEF RunnerType
  <2> QED
    BY <2>1 DEF Upcoming, Runs
<1>2. CASE r.stopping /\ updateStatus([r EXCEPT !.pc = "done"], "STOPPED", FALSE) /\ ctr' = ctr
  <2> DEFINE x == [r EXCEPT !.pc = "done"]
  <2>1. x \in RunnerType
    BY <1>0, Zenon DEF RunnerType, RunnerPcs, Outcomes
  <2>2. Like(r', x) /\ r' \in RunnerType /\ Stored /\ (run' = run \/ (run' # None /\ run'.st = "STOPPED"))
    BY <1>2, <2>1, UpdateIs, Zenon DEF RunStates
  <2>3. /\ r'.pc = "done" /\ r'.restarts = r.restarts /\ r'.had = r.had /\ r'.n = r.n
        /\ r'.task = r.task /\ r'.stopping = r.stopping /\ r'.cancelled = r.cancelled
        /\ r'.adopted = r.adopted /\ r'.pending = r.pending /\ r'.expired = r.expired
        /\ r'.ready = r.ready /\ r'.why = r.why /\ r'.missing = r.missing
    BY <1>0, <2>2, Zenon DEF Like, RunnerType
  <2>4. Fewer /\ ctr' = ctr
    BY <1>2, SameContainers, Zenon
  <2>5. RunnerMoves
    BY <1>1, <1>2, <2>2, <2>3, Zenon DEF RunnerMoves
  <2>6. Numbers'
    BY <1>1, <1>2, <2>3, Zenon DEF IInv, Numbers, Busy
  <2>7. Charge'
    BY <1>1, <1>2, <2>3, <2>4, Zenon DEF IInv, Charge, Busy, NoneOwned, OnlyOwned
  <2>8. ReadyInv'
    BY <1>1, <1>2, <2>2, <2>3, Zenon DEF IInv, ReadyInv
  <2> QED
    BY <1>1, <2>2, <2>3, <2>4, <2>5, <2>6, <2>7, <2>8, RunnerStep, Zenon
<1>3. CASE /\ ~r.stopping /\ r.pending /\ r.expired
           /\ r' = [r EXCEPT !.pc = "failReadiness", !.why = "failed"] /\ UNCHANGED store /\ ctr' = ctr
  <2> DEFINE x == [r EXCEPT !.pc = "failReadiness", !.why = "failed"]
  <2>1. x \in RunnerType
    BY <1>0, Zenon DEF RunnerType, RunnerPcs, Outcomes
  <2>2. Like(r', x) /\ r' \in RunnerType /\ Stored /\ run' = run
    BY <1>3, <2>1, Unwritten, Zenon DEF Like
  <2>3. /\ r'.pc = "failReadiness" /\ r'.restarts = r.restarts /\ r'.had = r.had /\ r'.n = r.n
        /\ r'.task = r.task /\ r'.stopping = r.stopping /\ r'.cancelled = r.cancelled
        /\ r'.adopted = r.adopted /\ r'.pending = r.pending /\ r'.expired = r.expired
        /\ r'.ready = r.ready /\ r'.why = "failed" /\ r'.missing = r.missing
    BY <1>0, <2>2, Zenon DEF Like, RunnerType
  <2>4. Fewer /\ ctr' = ctr
    BY <1>3, SameContainers, Zenon
  <2>a. NoneOwned
    BY <1>1, <1>3, Zenon DEF IInv, Charge
  <2>b. NoneOwned'
    BY <1>1, <2>4, <2>a, Zenon DEF NoneOwned
  <2>5. RunnerMoves
    BY <1>1, <1>3, <2>2, <2>3, Zenon DEF RunnerMoves
  <2>6. Numbers'
    BY <1>1, <1>3, <2>3, Zenon DEF IInv, Numbers, Busy
  <2>7. Charge'
    BY <1>1, <1>3, <2>3, <2>4, <2>b, Zenon DEF IInv, Charge, Busy, NoneOwned, OnlyOwned
  <2>8. ReadyInv'
    BY <1>1, <1>3, <2>2, <2>3, Zenon DEF IInv, ReadyInv
  <2> QED
    BY <1>1, <2>2, <2>3, <2>4, <2>5, <2>6, <2>7, <2>8, RunnerStep, Zenon
<1>4. CASE /\ ~r.stopping /\ ~(r.pending /\ r.expired) /\ UNCHANGED store
           /\ Upcoming \in Runs /\ ctr' = removeStaleContainers(Upcoming)
           /\ r' = [r EXCEPT !.pc = "spawn", !.restarts = Upcoming - 1, !.had = TRUE, !.n = Upcoming]
  <2> DEFINE x == [r EXCEPT !.pc = "spawn", !.restarts = Upcoming - 1, !.had = TRUE, !.n = Upcoming]
  <2>0. Upcoming \in 0..MaxRun /\ Upcoming - 1 \in Nat
    BY <1>0, <1>4 DEF Upcoming, RunnerType, Runs
  <2>1. x \in RunnerType
    BY <1>0, <2>0, Zenon DEF RunnerType, RunnerPcs, Outcomes
  <2>2. Like(r', x) /\ r' \in RunnerType /\ Stored /\ run' = run
    BY <1>4, <2>1, Unwritten, Zenon DEF Like
  <2>3. /\ r'.pc = "spawn" /\ r'.restarts = Upcoming - 1 /\ r'.had = TRUE /\ r'.n = Upcoming
        /\ r'.task = r.task /\ r'.stopping = r.stopping /\ r'.cancelled = r.cancelled
        /\ r'.adopted = r.adopted /\ r'.pending = r.pending /\ r'.expired = r.expired
        /\ r'.ready = r.ready /\ r'.why = r.why /\ r'.missing = r.missing
    BY <1>0, <2>2, Zenon DEF Like, RunnerType
  <2>4. Fewer /\ (~r.cancelled => \A m \in Runs \ {Upcoming} : ctr'[m] = "none")
    BY <1>4, RemoveIs, Zenon DEF removeStaleContainers
  <2>a. NoneOwned'
    <3>1. OnlyOwned(r.n) /\ r.n < Upcoming /\ ~r.cancelled
      BY <1>1, <1>4, Zenon DEF IInv, Charge, Numbers, OpInv
    <3>2. r.n # Upcoming
      BY <1>0, <1>4, <3>1 DEF RunnerType, Runs
    <3> QED
      BY <1>1, <2>4, <3>1, <3>2 DEF NoneOwned, OnlyOwned, Fewer
  <2>b. OnlyOwned(r.n)'
    BY <2>a, Zenon DEF NoneOwned, OnlyOwned
  <2>c. Upcoming = (Upcoming - 1) + 1
    BY <1>0, <1>4 DEF Upcoming, RunnerType, Runs
  <2>5. RunnerMoves
    BY <1>1, <1>4, <2>2, <2>3, Zenon DEF RunnerMoves
  <2>6. Numbers'
    BY <1>1, <1>4, <2>3, <2>c, Zenon DEF IInv, Numbers, Busy
  <2>7. Charge'
    BY <1>1, <1>4, <2>3, <2>4, <2>a, <2>b, Zenon DEF IInv, Charge, Busy, NoneOwned, OnlyOwned
  <2>8. ReadyInv'
    BY <1>1, <1>4, <2>2, <2>3, Zenon DEF IInv, ReadyInv
  <2> QED
    BY <1>1, <2>2, <2>3, <2>4, <2>5, <2>6, <2>7, <2>8, RunnerStep, Zenon
<1>5. CASE /\ ~r.stopping /\ ~(r.pending /\ r.expired) /\ Upcoming \in Runs /\ ctr' = ctr
           /\ updateStatus([r EXCEPT !.pc = "backoff", !.restarts = Upcoming - 1, !.had = TRUE], "CRASHED", FALSE)
  <2> DEFINE x == [r EXCEPT !.pc = "backoff", !.restarts = Upcoming - 1, !.had = TRUE]
  <2>0. Upcoming - 1 \in Nat
    BY <1>0, <1>5 DEF Upcoming, RunnerType, Runs
  <2>1. x \in RunnerType
    BY <1>0, <2>0, Zenon DEF RunnerType, RunnerPcs, Outcomes
  <2>2. Like(r', x) /\ r' \in RunnerType /\ Stored /\ (run' = run \/ (run' # None /\ run'.st = "CRASHED"))
    BY <1>5, <2>1, UpdateIs, Zenon DEF RunStates
  <2>3. /\ r'.pc = "backoff" /\ r'.restarts = Upcoming - 1 /\ r'.had = TRUE /\ r'.n = r.n
        /\ r'.task = r.task /\ r'.stopping = r.stopping /\ r'.cancelled = r.cancelled
        /\ r'.adopted = r.adopted /\ r'.pending = r.pending /\ r'.expired = r.expired
        /\ r'.ready = r.ready /\ r'.why = r.why /\ r'.missing = r.missing
    BY <1>0, <2>2, Zenon DEF Like, RunnerType
  <2>4. Fewer /\ ctr' = ctr
    BY <1>5, SameContainers, Zenon
  <2>a. r.n <= (Upcoming - 1) + 1
    <3>1. r.n < Upcoming
      BY <1>1, Zenon DEF IInv, Numbers
    <3> QED
      BY <1>0, <1>5, <3>1 DEF RunnerType, Runs
  <2>5. RunnerMoves
    BY <1>1, <1>5, <2>2, <2>3, Zenon DEF RunnerMoves
  <2>6. Numbers'
    BY <1>1, <1>5, <2>3, <2>a, Zenon DEF IInv, Numbers, Busy
  <2>7. Charge'
    BY <1>1, <1>5, <2>3, <2>4, Zenon DEF IInv, Charge, Busy, NoneOwned, OnlyOwned
  <2>8. ReadyInv'
    BY <1>1, <1>5, <2>2, <2>3, Zenon DEF IInv, ReadyInv
  <2> QED
    BY <1>1, <2>2, <2>3, <2>4, <2>5, <2>6, <2>7, <2>8, RunnerStep, Zenon
<1> QED
  BY <1>1, <1>2, <1>3, <1>4, <1>5, <1>9, Zenon DEF loop

\* A task is created: nothing is left of other runs.
LEMMA StartIs ==
  ASSUME IInv, r.pc = "spawn", ~r.cancelled, ctr' = [ctr EXCEPT ![r.n] = "running"],
         r' = [r EXCEPT !.pc = "started"], UNCHANGED store,
         op' = op, boots' = boots, scope' = scope, signalled' = signalled, orphans' = orphans \ {r.n}
  PROVE  IInv'
<1>0. r \in RunnerType
  BY Zenon DEF IInv, TypeOK
<1> DEFINE x == [r EXCEPT !.pc = "started"]
<1>1. x \in RunnerType
  BY <1>0, Zenon DEF RunnerType, RunnerPcs
<1>2. Like(r', x) /\ r' \in RunnerType /\ Stored /\ run' = run
  BY <1>1, Unwritten, Zenon DEF Like
<1>3. /\ r'.pc = "started" /\ r'.restarts = r.restarts /\ r'.had = r.had /\ r'.n = r.n
      /\ r'.task = r.task /\ r'.stopping = r.stopping /\ r'.cancelled = r.cancelled
      /\ r'.adopted = r.adopted /\ r'.pending = r.pending /\ r'.expired = r.expired
      /\ r'.ready = r.ready /\ r'.why = r.why /\ r'.missing = r.missing
  BY <1>0, <1>2, Zenon DEF Like, RunnerType
<1> HIDE DEF x
<1>4. RunnerMoves
  BY <1>2, <1>3, Zenon DEF RunnerMoves
<1>5. QueueInv' /\ OpInv' /\ op.role # "none" /\ op.pc # "down"
  BY <1>2, <1>4, RunnerOp, Zenon
<1>6. r.n \in Runs /\ ctr \in [Runs -> ContainerStates]
  BY Zenon DEF IInv, TypeOK, Numbers, Busy
<1>7. /\ ctr' \in [Runs -> ContainerStates] /\ ctr'[r.n] = "running"
      /\ \A m \in Runs \ {r.n} : ctr'[m] = ctr[m]
  BY <1>6 DEF ContainerStates
<1>8. \A m \in Runs \ {r.n} : ctr[m] = "none"
  BY Zenon DEF IInv, Clean
<1>9. TypeOK'
  BY <1>2, <1>4, <1>7, Zenon DEF RunnerMoves, Stored, Fed, IInv, TypeOK
<1>10. Clean'
  <2>1. OneContainer'
    BY <1>7, <1>8 DEF OneContainer, Alive
  <2> QED
    BY <1>3, <2>1, Zenon DEF Clean
<1>11. Numbers'
  BY <1>3, Zenon DEF IInv, Numbers, Busy
<1>12. Charge'
  <2>1. OnlyOwned(r.n)'
    BY <1>3, <1>7, <1>8 DEF OnlyOwned
  <2> QED
    BY <1>3, <2>1, Zenon DEF Charge, OnlyOwned
<1>13. NoneYet'
  BY <1>2, <1>3, Zenon DEF Stored, IInv, NoneYet
<1>14. Left'
  BY <1>5, Zenon DEF Left
<1>15. ReadyInv'
  BY <1>2, <1>3, Zenon DEF IInv, ReadyInv
<1> QED
  BY <1>5, <1>9, <1>10, <1>11, <1>12, <1>13, <1>14, <1>15, Zenon DEF IInv

\* RunTask: the container starts, the image is missing, or the start fails.
LEMMA RunTaskStep ==
  ASSUME IInv, RunTask, scope' = scope
  PROVE  IInv'
<1>0. r \in RunnerType
  BY Zenon DEF IInv, TypeOK
<1>1. /\ r.pc = "spawn" /\ op' = op /\ boots' = boots /\ scope' = scope /\ signalled' = signalled
      /\ op.pc # "down"
  BY Zenon DEF RunTask, budgets, world, IInv, OpInv
<1>2. CASE /\ ~r.cancelled /\ ctr' = [ctr EXCEPT ![r.n] = "running"]
           /\ r' = [r EXCEPT !.pc = "started"] /\ UNCHANGED store /\ orphans' = orphans \ {r.n}
  BY <1>1, <1>2, StartIs, Zenon
<1>3. CASE /\ ~r.cancelled /\ ctr' = [ctr EXCEPT ![r.n] = "none"] /\ orphans' = orphans
           /\ updateStatus([r EXCEPT !.pc = IF r.pending THEN "failReadiness" ELSE "done",
                                     !.missing = TRUE, !.why = "missing"], "CRASHED", FALSE)
  <2> DEFINE x == [r EXCEPT !.pc = IF r.pending THEN "failReadiness" ELSE "done", !.missing = TRUE, !.why = "missing"]
  <2>1. x \in RunnerType
    BY <1>0, Zenon DEF RunnerType, RunnerPcs, Outcomes
  <2>2. Like(r', x) /\ r' \in RunnerType /\ Stored /\ (run' = run \/ (run' # None /\ run'.st = "CRASHED"))
    BY <1>3, <2>1, UpdateIs, Zenon DEF RunStates
  <2>3. /\ r'.pc = (IF r.pending THEN "failReadiness" ELSE "done") /\ r'.restarts = r.restarts
        /\ r'.had = r.had /\ r'.n = r.n /\ r'.task = r.task /\ r'.stopping = r.stopping
        /\ r'.cancelled = r.cancelled /\ r'.adopted = r.adopted /\ r'.pending = r.pending
        /\ r'.expired = r.expired /\ r'.ready = r.ready /\ r'.why = "missing" /\ r'.missing = TRUE
    BY <1>0, <2>2, Zenon DEF Like, RunnerType
  <2>4. Fewer /\ (~r.stopping => NoneOwned')
    <3>1. r.n \in Runs /\ ctr \in [Runs -> ContainerStates] /\ (~r.stopping => NoneOwned)
      BY <1>1, Zenon DEF IInv, TypeOK, Numbers, Busy, Charge
    <3>2. /\ ctr' \in [Runs -> ContainerStates]
          /\ \A m \in Runs : ctr'[m] = "none" \/ ctr'[m] = ctr[m]
      BY <1>3, <3>1 DEF ContainerStates
    <3> QED
      BY <1>3, <3>1, <3>2 DEF Fewer, Alive, NoneOwned
  <2>5. RunnerMoves
    BY <1>1, <1>3, <2>2, <2>3, Zenon DEF RunnerMoves
  <2>6. Numbers'
    BY <1>1, <1>3, <2>3, Zenon DEF IInv, Numbers, Busy
  <2>7. Charge'
    BY <1>1, <1>3, <2>3, <2>4, Zenon DEF IInv, Charge, Busy, NoneOwned, OnlyOwned
  <2>8. ReadyInv'
    BY <1>1, <1>3, <2>2, <2>3, Zenon DEF IInv, ReadyInv
  <2> QED
    BY <1>1, <2>2, <2>3, <2>4, <2>5, <2>6, <2>7, <2>8, RunnerStep, Zenon
<1>4. CASE /\ updateStatus([r EXCEPT !.pc = "backoff"], "CRASHED", FALSE) /\ orphans' = orphans
           /\ ctr' \in {ctr, [ctr EXCEPT ![r.n] = "none"]}
  <2> DEFINE x == [r EXCEPT !.pc = "backoff"]
  <2>1. x \in RunnerType
    BY <1>0, Zenon DEF RunnerType, RunnerPcs, Outcomes
  <2>2. Like(r', x) /\ r' \in RunnerType /\ Stored /\ (run' = run \/ (run' # None /\ run'.st = "CRASHED"))
    BY <1>4, <2>1, UpdateIs, Zenon DEF RunStates
  <2>3. /\ r'.pc = "backoff" /\ r'.restarts = r.restarts /\ r'.had = r.had /\ r'.n = r.n
        /\ r'.task = r.task /\ r'.stopping = r.stopping /\ r'.cancelled = r.cancelled
        /\ r'.adopted = r.adopted /\ r'.pending = r.pending /\ r'.expired = r.expired
        /\ r'.ready = r.ready /\ r'.why = r.why /\ r'.missing = r.missing
    BY <1>0, <2>2, Zenon DEF Like, RunnerType
  <2>4. Fewer /\ (~r.stopping => NoneOwned')
    <3>1. r.n \in Runs /\ ctr \in [Runs -> ContainerStates] /\ (~r.stopping => NoneOwned)
      BY <1>1, Zenon DEF IInv, TypeOK, Numbers, Busy, Charge
    <3>2. /\ ctr' \in [Runs -> ContainerStates]
          /\ \A m \in Runs : ctr'[m] = "none" \/ ctr'[m] = ctr[m]
      BY <1>4, <3>1 DEF ContainerStates
    <3> QED
      BY <1>4, <3>1, <3>2 DEF Fewer, Alive, NoneOwned
  <2>a. r.n <= r.restarts + 1
    BY <1>1, NumberSpent, Zenon DEF Busy
  <2>5. RunnerMoves
    BY <1>1, <1>4, <2>2, <2>3, Zenon DEF RunnerMoves
  <2>6. Numbers'
    BY <1>1, <1>4, <2>3, <2>a, Zenon DEF IInv, Numbers, Busy
  <2>7. Charge'
    BY <1>1, <1>4, <2>3, <2>4, Zenon DEF IInv, Charge, Busy, NoneOwned, OnlyOwned
  <2>8. ReadyInv'
    BY <1>1, <1>4, <2>2, <2>3, Zenon DEF IInv, ReadyInv
  <2> QED
    BY <1>1, <2>2, <2>3, <2>4, <2>5, <2>6, <2>7, <2>8, RunnerStep, Zenon
<1> QED
  BY <1>1, <1>3, <1>4, <1>2, Zenon DEF RunTask

\* taskStarted: the task is known to Stop before its status is published.
LEMMA TaskStartedStep ==
  ASSUME IInv, taskStarted, scope' = scope
  PROVE  IInv'
<1>0. r \in RunnerType
  BY Zenon DEF IInv, TypeOK
<1>1. /\ r.pc = "started" /\ op' = op /\ boots' = boots /\ scope' = scope /\ signalled' = signalled
      /\ orphans' = orphans
      /\ op.pc # "down"
  BY Zenon DEF taskStarted, budgets, world, IInv, OpInv
<1>2. CASE /\ updateStatus([r EXCEPT !.task = r.n, !.pc = IF r.pending THEN "warming" ELSE "running"],
                        IF r.pending THEN "STARTING" ELSE "RUNNING", TRUE)
           /\ ctr' = ctr
  <2> DEFINE x == [r EXCEPT !.task = r.n, !.pc = IF r.pending THEN "warming" ELSE "running"]
  <2>1. x \in RunnerType
    BY <1>0, Zenon DEF RunnerType, RunnerPcs, Outcomes
  <2>2. Like(r', x) /\ r' \in RunnerType /\ Stored /\ (run' = run \/ (run' # None /\ run'.st = (IF r.pending THEN "STARTING" ELSE "RUNNING")))
    BY <1>2, <2>1, UpdateIs, Zenon DEF RunStates
  <2>3. /\ r'.pc = (IF r.pending THEN "warming" ELSE "running") /\ r'.restarts = r.restarts
        /\ r'.had = r.had /\ r'.n = r.n /\ r'.task = r.n /\ r'.stopping = r.stopping
        /\ r'.cancelled = r.cancelled /\ r'.adopted = r.adopted /\ r'.pending = r.pending
        /\ r'.expired = r.expired /\ r'.ready = r.ready /\ r'.why = r.why /\ r'.missing = r.missing
    BY <1>0, <2>2, Zenon DEF Like, RunnerType
  <2>4. Fewer /\ ctr' = ctr
    BY <1>2, SameContainers, Zenon
  <2>5. RunnerMoves
    BY <1>1, <1>2, <2>2, <2>3, Zenon DEF RunnerMoves
  <2>6. Numbers'
    BY <1>1, <1>2, <2>3, Zenon DEF IInv, Numbers, Busy
  <2>7. Charge'
    BY <1>1, <1>2, <2>3, <2>4, Zenon DEF IInv, Charge, Busy, NoneOwned, OnlyOwned
  <2>8. ReadyInv'
    BY <1>1, <1>2, <2>2, <2>3, Zenon DEF IInv, ReadyInv
  <2> QED
    BY <1>1, <2>2, <2>3, <2>4, <2>5, <2>6, <2>7, <2>8, RunnerStep, Zenon
<1>3. CASE /\ ~r.pending /\ ctr' = deleteTask(SIGTERM(ctr, r.n), r.n)
           /\ updateStatus([r EXCEPT !.task = r.n, !.pc = "backoff"], "CRASHED", FALSE)
  <2> DEFINE x == [r EXCEPT !.pc = "backoff", !.task = r.n]
  <2>1. x \in RunnerType
    BY <1>0, Zenon DEF RunnerType, RunnerPcs, Outcomes
  <2>2. Like(r', x) /\ r' \in RunnerType /\ Stored /\ (run' = run \/ (run' # None /\ run'.st = "CRASHED"))
    BY <1>3, <2>1, UpdateIs, Zenon DEF RunStates
  <2>3. /\ r'.pc = "backoff" /\ r'.restarts = r.restarts /\ r'.had = r.had /\ r'.n = r.n
        /\ r'.task = r.n /\ r'.stopping = r.stopping /\ r'.cancelled = r.cancelled
        /\ r'.adopted = r.adopted /\ r'.pending = r.pending /\ r'.expired = r.expired
        /\ r'.ready = r.ready /\ r'.why = r.why /\ r'.missing = r.missing
    BY <1>0, <2>2, Zenon DEF Like, RunnerType
  <2>4. Fewer /\ (\A m \in Runs : ctr'[m] = "running" => ctr[m] = "running" /\ m # r.n)
    <3>1. r.n \in 0..MaxRun
      BY <1>0, Zenon DEF RunnerType
    <3> QED
      BY <1>3, <3>1, TermIs, Zenon
  <2>a. ~r.stopping => NoneOwned'
    BY <1>1, <2>4, Zenon DEF IInv, Charge, Busy, NoneOwned, OnlyOwned
  <2>b. r.n <= r.restarts + 1
    BY <1>1, NumberSpent, Zenon DEF Busy
  <2>5. RunnerMoves
    BY <1>1, <1>3, <2>2, <2>3, Zenon DEF RunnerMoves
  <2>6. Numbers'
    BY <1>1, <1>3, <2>3, <2>b, Zenon DEF IInv, Numbers, Busy
  <2>7. Charge'
    BY <1>1, <1>3, <2>3, <2>4, <2>a, Zenon DEF IInv, Charge, Busy, NoneOwned, OnlyOwned
  <2>8. ReadyInv'
    BY <1>1, <1>3, <2>2, <2>3, Zenon DEF IInv, ReadyInv
  <2> QED
    BY <1>1, <2>2, <2>3, <2>4, <2>5, <2>6, <2>7, <2>8, RunnerStep, Zenon
<1> QED
  BY <1>1, <1>2, <1>3, Zenon DEF taskStarted

\* waitForReadiness: ready, to be retried, or given up.
LEMMA WaitStep ==
  ASSUME IInv, waitForReadiness, scope' = scope
  PROVE  IInv'
<1>0. r \in RunnerType
  BY Zenon DEF IInv, TypeOK
<1>1. /\ r.pc = "warming" /\ op' = op /\ boots' = boots /\ scope' = scope
      /\ op.pc # "down"
  BY Zenon DEF waitForReadiness, budgets, world, IInv, OpInv
<1>2. CASE /\ updateStatus([notifyReady(r, "ok") EXCEPT !.pending = FALSE, !.pc = "running"], "RUNNING", TRUE)
           /\ signalled' = TRUE /\ ctr' = ctr /\ orphans' = orphans
  <2> DEFINE x == [notifyReady(r, "ok") EXCEPT !.pending = FALSE, !.pc = "running"]
  <2>1. x \in RunnerType
    BY <1>0, ZenonT(40) DEF RunnerType, RunnerPcs, Outcomes, notifyReady
  <2>2. Like(r', x) /\ r' \in RunnerType /\ Stored /\ (run' = run \/ (run' # None /\ run'.st = "RUNNING"))
    BY <1>2, <2>1, UpdateIs, Zenon DEF RunStates
  <2>3. /\ r'.pc = "running" /\ r'.restarts = r.restarts /\ r'.had = r.had /\ r'.n = r.n
        /\ r'.task = r.task /\ r'.stopping = r.stopping /\ r'.cancelled = r.cancelled
        /\ r'.adopted = r.adopted /\ r'.pending = FALSE /\ r'.expired = r.expired
        /\ r'.ready = (IF r.ready = None THEN "ok" ELSE r.ready) /\ r'.why = r.why
        /\ r'.missing = r.missing
    BY <1>0, <2>2, Zenon DEF Like, RunnerType, notifyReady
  <2>4. Fewer /\ ctr' = ctr
    BY <1>2, SameContainers, Zenon
  <2>a. /\ ~r.stopping => r'.ready = "ok"
        /\ r.had /\ ~r.adopted
    BY <1>1, <2>3, Zenon DEF IInv, Numbers, Busy
  <2>5. RunnerMoves
    BY <1>1, <1>2, <2>2, <2>3, Zenon DEF RunnerMoves
  <2>6. Numbers'
    BY <1>1, <1>2, <2>3, <2>a, Zenon DEF IInv, Numbers, Busy
  <2>7. Charge'
    BY <1>1, <1>2, <2>3, <2>4, <2>a, Zenon DEF IInv, Charge, Busy, NoneOwned, OnlyOwned
  <2>8. ReadyInv'
    BY <1>1, <1>2, <2>2, <2>3, Zenon DEF IInv, ReadyInv
  <2> QED
    BY <1>1, <2>2, <2>3, <2>4, <2>5, <2>6, <2>7, <2>8, RunnerStep, Zenon
<1>3. CASE /\ \/ (ctr[r.n] = "exited" \/ r.cancelled) /\ ctr' = deleteTask(ctr, r.n) /\ orphans' = orphans
              \/ ctr' = deleteTask(ctr, r.n) /\ orphans' = orphans \cup {r.n}
              \/ ctr' = deleteTask(SIGTERM(ctr, r.n), r.n) /\ orphans' = orphans
           /\ signalled' = signalled
           /\ updateStatus([r EXCEPT !.task = 0, !.pc = IF r.stopping THEN "done" ELSE "backoff"],
                           IF r.stopping THEN "STOPPED" ELSE "CRASHED", FALSE)
  <2> DEFINE x == [r EXCEPT !.task = 0, !.pc = IF r.stopping THEN "done" ELSE "backoff"]
  <2>0. 0 \in 0..MaxRun
    BY Nothing
  <2>1. x \in RunnerType
    BY <1>0, <2>0, Zenon DEF RunnerType, RunnerPcs, Outcomes
  <2>2. Like(r', x) /\ r' \in RunnerType /\ Stored /\ (run' = run \/ (run' # None /\ run'.st = (IF r.stopping THEN "STOPPED" ELSE "CRASHED")))
    BY <1>3, <2>1, UpdateIs, Zenon DEF RunStates
  <2>3. /\ r'.pc = (IF r.stopping THEN "done" ELSE "backoff") /\ r'.restarts = r.restarts
        /\ r'.had = r.had /\ r'.n = r.n /\ r'.task = 0 /\ r'.stopping = r.stopping
        /\ r'.cancelled = r.cancelled /\ r'.adopted = r.adopted /\ r'.pending = r.pending
        /\ r'.expired = r.expired /\ r'.ready = r.ready /\ r'.why = r.why /\ r'.missing = r.missing
    BY <1>0, <2>2, Zenon DEF Like, RunnerType
  <2>9. r.n \in 0..MaxRun
    BY <1>0, Zenon DEF RunnerType
  <2>4. Fewer
    BY <1>3, <2>9, DelIs, TermIs, Zenon
  <2>a. ~r.stopping => NoneOwned'
    <3> SUFFICES ASSUME ~r.stopping PROVE NoneOwned'
      OBVIOUS
    <3>1. OnlyOwned(r.n) /\ ~r.cancelled
      BY <1>1, Zenon DEF IInv, Charge, Busy, OpInv
    <3>2. CASE ctr[r.n] = "exited" /\ orphans' = orphans
      BY <2>4, <3>1, <3>2, Zenon DEF NoneOwned, OnlyOwned, Fewer
    <3>3. CASE orphans' = orphans \cup {r.n}
      BY <2>4, <3>1, <3>3, Zenon DEF NoneOwned, OnlyOwned, Fewer
    <3>4. CASE ctr' = deleteTask(SIGTERM(ctr, r.n), r.n) /\ orphans' = orphans
      <4>1. \A m \in Runs : ctr'[m] = "running" => ctr[m] = "running" /\ m # r.n
        BY <2>9, <3>4, TermIs, Zenon
      <4> QED
        BY <3>1, <3>4, <4>1, Zenon DEF NoneOwned, OnlyOwned
    <3> QED
      BY <1>3, <3>1, <3>2, <3>3, <3>4, Zenon
  <2>b. r.pending
    BY <1>1, Zenon DEF IInv, Numbers
  <2>c. r.n <= r.restarts + 1
    BY <1>1, NumberSpent, Zenon DEF Busy
  <2>5. RunnerMoves
    BY <1>1, <1>3, <2>2, <2>3, Zenon DEF RunnerMoves
  <2>6. Numbers'
    BY <1>1, <1>3, <2>3, <2>c, Zenon DEF IInv, Numbers, Busy
  <2>7. Charge'
    BY <1>1, <1>3, <2>3, <2>4, <2>a, Zenon DEF IInv, Charge, Busy, NoneOwned, OnlyOwned
  <2>8. ReadyInv'
    BY <1>1, <1>3, <2>2, <2>3, <2>b, Zenon DEF IInv, ReadyInv
  <2> QED
    BY <1>1, <2>2, <2>3, <2>4, <2>5, <2>6, <2>7, <2>8, RunnerStep, Zenon
<1>4. CASE /\ ctr' = deleteTask(SIGTERM(ctr, r.n), r.n) /\ signalled' = signalled /\ orphans' = orphans
           /\ r' = [r EXCEPT !.task = 0, !.pc = "failReadiness", !.why = "failed"] /\ UNCHANGED store
  <2> DEFINE x == [r EXCEPT !.pc = "failReadiness", !.task = 0, !.why = "failed"]
  <2>0. 0 \in 0..MaxRun
    BY Nothing
  <2>1. x \in RunnerType
    BY <1>0, <2>0, Zenon DEF RunnerType, RunnerPcs, Outcomes
  <2>2. Like(r', x) /\ r' \in RunnerType /\ Stored /\ run' = run
    BY <1>4, <2>1, Unwritten, Zenon DEF Like
  <2>3. /\ r'.pc = "failReadiness" /\ r'.restarts = r.restarts /\ r'.had = r.had /\ r'.n = r.n
        /\ r'.task = 0 /\ r'.stopping = r.stopping /\ r'.cancelled = r.cancelled
        /\ r'.adopted = r.adopted /\ r'.pending = r.pending /\ r'.expired = r.expired
        /\ r'.ready = r.ready /\ r'.why = "failed" /\ r'.missing = r.missing
    BY <1>0, <2>2, Zenon DEF Like, RunnerType
  <2>4. Fewer /\ (\A m \in Runs : ctr'[m] = "running" => ctr[m] = "running" /\ m # r.n)
    <3>1. r.n \in 0..MaxRun
      BY <1>0, Zenon DEF RunnerType
    <3> QED
      BY <1>4, <3>1, TermIs, Zenon
  <2>a. ~r.stopping => NoneOwned'
    BY <1>1, <1>4, <2>4, Zenon DEF IInv, Charge, Busy, NoneOwned, OnlyOwned
  <2>5. RunnerMoves
    BY <1>1, <1>4, <2>2, <2>3, Zenon DEF RunnerMoves
  <2>6. Numbers'
    BY <1>1, <1>4, <2>3, Zenon DEF IInv, Numbers, Busy
  <2>7. Charge'
    BY <1>1, <1>4, <2>3, <2>4, <2>a, Zenon DEF IInv, Charge, Busy, NoneOwned, OnlyOwned
  <2>8. ReadyInv'
    BY <1>1, <1>4, <2>2, <2>3, Zenon DEF IInv, ReadyInv
  <2> QED
    BY <1>1, <2>2, <2>3, <2>4, <2>5, <2>6, <2>7, <2>8, RunnerStep, Zenon
<1> QED
  BY <1>1, <1>2, <1>3, <1>4, Zenon DEF waitForReadiness, readinessRetry

\* failReadiness: the operator is released, then the end is published.
LEMMA FailStep ==
  ASSUME IInv, failReadiness, scope' = scope
  PROVE  IInv'
<1>0. r \in RunnerType
  BY Zenon DEF IInv, TypeOK
<1>1. /\ r.pc \in {"failReadiness", "gaveUp"} /\ op' = op /\ boots' = boots /\ scope' = scope
      /\ signalled' = signalled /\ orphans' = orphans /\ ctr' = ctr
      /\ op.pc # "down"
  BY Zenon DEF failReadiness, budgets, world, IInv, OpInv
<1>2. CASE /\ r.pc = "failReadiness" /\ UNCHANGED store /\ ctr' = ctr
           /\ r' = [notifyReady(r, r.why) EXCEPT !.pending = FALSE, !.pc = "gaveUp"]
  <2> DEFINE x == [notifyReady(r, r.why) EXCEPT !.pending = FALSE, !.pc = "gaveUp"]
  <2>1. x \in RunnerType
    BY <1>0, ZenonT(40) DEF RunnerType, RunnerPcs, Outcomes, notifyReady
  <2>2. Like(r', x) /\ r' \in RunnerType /\ Stored /\ run' = run
    BY <1>2, <2>1, Unwritten, Zenon DEF Like
  <2>3. /\ r'.pc = "gaveUp" /\ r'.restarts = r.restarts /\ r'.had = r.had /\ r'.n = r.n
        /\ r'.task = r.task /\ r'.stopping = r.stopping /\ r'.cancelled = r.cancelled
        /\ r'.adopted = r.adopted /\ r'.pending = FALSE /\ r'.expired = r.expired
        /\ r'.ready = (IF r.ready = None THEN r.why ELSE r.ready) /\ r'.why = r.why
        /\ r'.missing = r.missing
    BY <1>0, <2>2, Zenon DEF Like, RunnerType, notifyReady
  <2>4. Fewer /\ ctr' = ctr
    BY <1>2, SameContainers, Zenon
  <2>5. RunnerMoves
    BY <1>1, <1>2, <2>2, <2>3, Zenon DEF RunnerMoves
  <2>6. Numbers'
    BY <1>1, <1>2, <2>3, Zenon DEF IInv, Numbers, Busy
  <2>7. Charge'
    BY <1>1, <1>2, <2>3, <2>4, Zenon DEF IInv, Charge, Busy, NoneOwned, OnlyOwned
  <2>8. ReadyInv'
    BY <1>1, <1>2, <2>2, <2>3, Zenon DEF IInv, ReadyInv
  <2> QED
    BY <1>1, <2>2, <2>3, <2>4, <2>5, <2>6, <2>7, <2>8, RunnerStep, Zenon
<1>3. CASE /\ r.pc = "gaveUp" /\ UNCHANGED store /\ ctr' = ctr
           /\ r' = [r EXCEPT !.pc = "done"]
  <2> DEFINE x == [r EXCEPT !.pc = "done"]
  <2>1. x \in RunnerType
    BY <1>0, Zenon DEF RunnerType, RunnerPcs, Outcomes
  <2>2. Like(r', x) /\ r' \in RunnerType /\ Stored /\ run' = run
    BY <1>3, <2>1, Unwritten, Zenon DEF Like
  <2>3. /\ r'.pc = "done" /\ r'.restarts = r.restarts /\ r'.had = r.had /\ r'.n = r.n
        /\ r'.task = r.task /\ r'.stopping = r.stopping /\ r'.cancelled = r.cancelled
        /\ r'.adopted = r.adopted /\ r'.pending = r.pending /\ r'.expired = r.expired
        /\ r'.ready = r.ready /\ r'.why = r.why /\ r'.missing = r.missing
    BY <1>0, <2>2, Zenon DEF Like, RunnerType
  <2>4. Fewer /\ ctr' = ctr
    BY <1>3, SameContainers, Zenon
  <2>5. RunnerMoves
    BY <1>1, <1>3, <2>2, <2>3, Zenon DEF RunnerMoves
  <2>6. Numbers'
    BY <1>1, <1>3, <2>3, Zenon DEF IInv, Numbers, Busy
  <2>7. Charge'
    BY <1>1, <1>3, <2>3, <2>4, Zenon DEF IInv, Charge, Busy, NoneOwned, OnlyOwned
  <2>8. ReadyInv'
    BY <1>1, <1>3, <2>2, <2>3, Zenon DEF IInv, ReadyInv
  <2> QED
    BY <1>1, <2>2, <2>3, <2>4, <2>5, <2>6, <2>7, <2>8, RunnerStep, Zenon
<1>4. CASE /\ r.pc = "gaveUp" /\ ctr' = ctr
           /\ updateStatus([r EXCEPT !.pc = "done"], IF r.stopping THEN "STOPPED" ELSE "CRASHED", FALSE)
  <2> DEFINE x == [r EXCEPT !.pc = "done"]
  <2>1. x \in RunnerType
    BY <1>0, Zenon DEF RunnerType, RunnerPcs, Outcomes
  <2>2. Like(r', x) /\ r' \in RunnerType /\ Stored /\ (run' = run \/ (run' # None /\ run'.st = (IF r.stopping THEN "STOPPED" ELSE "CRASHED")))
    BY <1>4, <2>1, UpdateIs, Zenon DEF RunStates
  <2>3. /\ r'.pc = "done" /\ r'.restarts = r.restarts /\ r'.had = r.had /\ r'.n = r.n
        /\ r'.task = r.task /\ r'.stopping = r.stopping /\ r'.cancelled = r.cancelled
        /\ r'.adopted = r.adopted /\ r'.pending = r.pending /\ r'.expired = r.expired
        /\ r'.ready = r.ready /\ r'.why = r.why /\ r'.missing = r.missing
    BY <1>0, <2>2, Zenon DEF Like, RunnerType
  <2>4. Fewer /\ ctr' = ctr
    BY <1>4, SameContainers, Zenon
  <2>5. RunnerMoves
    BY <1>1, <1>4, <2>2, <2>3, Zenon DEF RunnerMoves
  <2>6. Numbers'
    BY <1>1, <1>4, <2>3, Zenon DEF IInv, Numbers, Busy
  <2>7. Charge'
    BY <1>1, <1>4, <2>3, <2>4, Zenon DEF IInv, Charge, Busy, NoneOwned, OnlyOwned
  <2>8. ReadyInv'
    BY <1>1, <1>4, <2>2, <2>3, Zenon DEF IInv, ReadyInv
  <2> QED
    BY <1>1, <2>2, <2>3, <2>4, <2>5, <2>6, <2>7, <2>8, RunnerStep, Zenon
<1> QED
  BY <1>1, <1>2, <1>3, <1>4, Zenon DEF failReadiness

\* taskExited: an adopted task respawns at once, any other after a backoff.
LEMMA ExitedStep ==
  ASSUME IInv, taskExited, scope' = scope
  PROVE  IInv'
<1>0. r \in RunnerType
  BY Zenon DEF IInv, TypeOK
<1>1. /\ r.pc = "running" /\ op' = op /\ boots' = boots /\ scope' = scope /\ signalled' = signalled
      /\ orphans' = orphans
      /\ op.pc # "down"
  BY Zenon DEF taskExited, budgets, world, IInv, OpInv
<1>2. CASE /\ r.adopted /\ ctr' = deleteTask(ctr, r.n)
           /\ r.stopping /\ UNCHANGED store
           /\ r' = [r EXCEPT !.pc = "loop", !.task = 0, !.had = TRUE, !.adopted = FALSE]
  <2> DEFINE x == [r EXCEPT !.pc = "loop", !.task = 0, !.had = TRUE, !.adopted = FALSE]
  <2>0. 0 \in 0..MaxRun
    BY Nothing
  <2>1. x \in RunnerType
    BY <1>0, <2>0, Zenon DEF RunnerType, RunnerPcs, Outcomes
  <2>2. Like(r', x) /\ r' \in RunnerType /\ Stored /\ run' = run
    BY <1>2, <2>1, Unwritten, Zenon DEF Like
  <2>3. /\ r'.pc = "loop" /\ r'.restarts = r.restarts /\ r'.had = TRUE /\ r'.n = r.n /\ r'.task = 0
        /\ r'.stopping = r.stopping /\ r'.cancelled = r.cancelled /\ r'.adopted = FALSE
        /\ r'.pending = r.pending /\ r'.expired = r.expired /\ r'.ready = r.ready /\ r'.why = r.why
        /\ r'.missing = r.missing
    BY <1>0, <2>2, Zenon DEF Like, RunnerType
  <2>4. Fewer
    <3>1. r.n \in 0..MaxRun
      BY <1>0, Zenon DEF RunnerType
    <3> QED
      BY <1>2, <3>1, DelIs, Zenon
  <2>n. r'.n < Upcoming'
    <3>1. r.n < r.restarts + 2
      BY <1>1, NumberSpent, Zenon DEF Busy
    <3> QED
      BY <2>3, <3>1 DEF Upcoming
  <2>5. RunnerMoves
    BY <1>1, <1>2, <2>2, <2>3, Zenon DEF RunnerMoves
  <2>6. Numbers'
    BY <1>1, <1>2, <2>3, <2>n, Zenon DEF IInv, Numbers, Busy
  <2>7. Charge'
    BY <1>1, <1>2, <2>3, <2>4, Zenon DEF IInv, Charge, Busy, NoneOwned, OnlyOwned
  <2>8. ReadyInv'
    BY <1>1, <1>2, <2>2, <2>3, Zenon DEF IInv, ReadyInv
  <2> QED
    BY <1>1, <2>2, <2>3, <2>4, <2>5, <2>6, <2>7, <2>8, RunnerStep, Zenon
<1>3. CASE /\ r.adopted /\ ctr' = deleteTask(ctr, r.n)
           /\ ~r.stopping
           /\ updateStatus([r EXCEPT !.pc = "loop", !.task = 0, !.had = TRUE, !.adopted = FALSE], "CRASHED", TRUE)
  <2> DEFINE x == [r EXCEPT !.pc = "loop", !.task = 0, !.had = TRUE, !.adopted = FALSE]
  <2>0. 0 \in 0..MaxRun
    BY Nothing
  <2>1. x \in RunnerType
    BY <1>0, <2>0, Zenon DEF RunnerType, RunnerPcs, Outcomes
  <2>2. Like(r', x) /\ r' \in RunnerType /\ Stored /\ (run' = run \/ (run' # None /\ run'.st = "CRASHED"))
    BY <1>3, <2>1, UpdateIs, Zenon DEF RunStates
  <2>3. /\ r'.pc = "loop" /\ r'.restarts = r.restarts /\ r'.had = TRUE /\ r'.n = r.n /\ r'.task = 0
        /\ r'.stopping = r.stopping /\ r'.cancelled = r.cancelled /\ r'.adopted = FALSE
        /\ r'.pending = r.pending /\ r'.expired = r.expired /\ r'.ready = r.ready /\ r'.why = r.why
        /\ r'.missing = r.missing
    BY <1>0, <2>2, Zenon DEF Like, RunnerType
  <2>4. Fewer
    <3>1. r.n \in 0..MaxRun
      BY <1>0, Zenon DEF RunnerType
    <3> QED
      BY <1>3, <3>1, DelIs, Zenon
  <2>n. r'.n < Upcoming'
    <3>1. r.n < r.restarts + 2
      BY <1>1, NumberSpent, Zenon DEF Busy
    <3> QED
      BY <2>3, <3>1 DEF Upcoming
  <2>b. ~r.pending
    BY <1>1, <1>3, Zenon DEF IInv, Numbers
  <2>c. OnlyOwned(r.n)'
    BY <1>1, <1>3, <2>3, <2>4, Zenon DEF IInv, Charge, Busy, OnlyOwned, Fewer
  <2>5. RunnerMoves
    BY <1>1, <1>3, <2>2, <2>3, Zenon DEF RunnerMoves
  <2>6. Numbers'
    BY <1>1, <1>3, <2>3, <2>n, Zenon DEF IInv, Numbers, Busy
  <2>7. Charge'
    BY <1>1, <1>3, <2>3, <2>b, <2>c, Zenon DEF IInv, Charge, Busy, NoneOwned, OnlyOwned
  <2>8. ReadyInv'
    BY <1>1, <1>3, <2>2, <2>3, Zenon DEF IInv, ReadyInv
  <2> QED
    BY <1>1, <2>2, <2>3, <2>4, <2>5, <2>6, <2>7, <2>8, RunnerStep, Zenon
<1>4. CASE ~r.adopted /\ r.stopping /\ updateStatus([r EXCEPT !.pc = "done"], "STOPPED", FALSE) /\ ctr' = ctr
  <2> DEFINE x == [r EXCEPT !.pc = "done"]
  <2>1. x \in RunnerType
    BY <1>0, Zenon DEF RunnerType, RunnerPcs, Outcomes
  <2>2. Like(r', x) /\ r' \in RunnerType /\ Stored /\ (run' = run \/ (run' # None /\ run'.st = "STOPPED"))
    BY <1>4, <2>1, UpdateIs, Zenon DEF RunStates
  <2>3. /\ r'.pc = "done" /\ r'.restarts = r.restarts /\ r'.had = r.had /\ r'.n = r.n
        /\ r'.task = r.task /\ r'.stopping = r.stopping /\ r'.cancelled = r.cancelled
        /\ r'.adopted = r.adopted /\ r'.pending = r.pending /\ r'.expired = r.expired
        /\ r'.ready = r.ready /\ r'.why = r.why /\ r'.missing = r.missing
    BY <1>0, <2>2, Zenon DEF Like, RunnerType
  <2>4. Fewer /\ ctr' = ctr
    BY <1>4, SameContainers, Zenon
  <2>5. RunnerMoves
    BY <1>1, <1>4, <2>2, <2>3, Zenon DEF RunnerMoves
  <2>6. Numbers'
    BY <1>1, <1>4, <2>3, Zenon DEF IInv, Numbers, Busy
  <2>7. Charge'
    BY <1>1, <1>4, <2>3, <2>4, Zenon DEF IInv, Charge, Busy, NoneOwned, OnlyOwned
  <2>8. ReadyInv'
    BY <1>1, <1>4, <2>2, <2>3, Zenon DEF IInv, ReadyInv
  <2> QED
    BY <1>1, <2>2, <2>3, <2>4, <2>5, <2>6, <2>7, <2>8, RunnerStep, Zenon
<1>5. CASE /\ ~r.adopted /\ ~r.stopping /\ ctr' = deleteTask(ctr, r.n)
           /\ updateStatus([r EXCEPT !.pc = "backoff"], "CRASHED", TRUE)
  <2> DEFINE x == [r EXCEPT !.pc = "backoff"]
  <2>1. x \in RunnerType
    BY <1>0, Zenon DEF RunnerType, RunnerPcs, Outcomes
  <2>2. Like(r', x) /\ r' \in RunnerType /\ Stored /\ (run' = run \/ (run' # None /\ run'.st = "CRASHED"))
    BY <1>5, <2>1, UpdateIs, Zenon DEF RunStates
  <2>3. /\ r'.pc = "backoff" /\ r'.restarts = r.restarts /\ r'.had = r.had /\ r'.n = r.n
        /\ r'.task = r.task /\ r'.stopping = r.stopping /\ r'.cancelled = r.cancelled
        /\ r'.adopted = r.adopted /\ r'.pending = r.pending /\ r'.expired = r.expired
        /\ r'.ready = r.ready /\ r'.why = r.why /\ r'.missing = r.missing
    BY <1>0, <2>2, Zenon DEF Like, RunnerType
  <2>4. Fewer
    <3>1. r.n \in 0..MaxRun
      BY <1>0, Zenon DEF RunnerType
    <3> QED
      BY <1>5, <3>1, DelIs, Zenon
  <2>a. OnlyOwned(r.n)'
    BY <1>1, <1>5, <2>3, <2>4, Zenon DEF IInv, Charge, Busy, OnlyOwned, Fewer
  <2>b. ~r.pending
    BY <1>1, Zenon DEF IInv, Numbers
  <2>c. r.n <= r.restarts + 1
    BY <1>1, NumberSpent, Zenon DEF Busy
  <2>5. RunnerMoves
    BY <1>1, <1>5, <2>2, <2>3, Zenon DEF RunnerMoves
  <2>6. Numbers'
    BY <1>1, <1>5, <2>3, <2>c, Zenon DEF IInv, Numbers, Busy
  <2>7. Charge'
    BY <1>1, <1>5, <2>3, <2>a, <2>b, Zenon DEF IInv, Charge, Busy, NoneOwned, OnlyOwned
  <2>8. ReadyInv'
    BY <1>1, <1>5, <2>2, <2>3, Zenon DEF IInv, ReadyInv
  <2> QED
    BY <1>1, <2>2, <2>3, <2>4, <2>5, <2>6, <2>7, <2>8, RunnerStep, Zenon
<1> QED
  BY <1>1, <1>2, <1>3, <1>4, <1>5, Zenon DEF taskExited

\* The backoff ends, or the loop does.
LEMMA BackoffStep ==
  ASSUME IInv, sleepBackoff, scope' = scope
  PROVE  IInv'
<1>0. r \in RunnerType
  BY Zenon DEF IInv, TypeOK
<1>1. /\ r.pc = "backoff" /\ op' = op /\ boots' = boots /\ scope' = scope /\ signalled' = signalled
      /\ orphans' = orphans /\ ctr' = ctr
      /\ op.pc # "down"
  BY Zenon DEF sleepBackoff, budgets, world, IInv, OpInv
<1>2. CASE r' = [r EXCEPT !.pc = "loop"] /\ UNCHANGED store /\ ctr' = ctr
  <2> DEFINE x == [r EXCEPT !.pc = "loop"]
  <2>1. x \in RunnerType
    BY <1>0, Zenon DEF RunnerType, RunnerPcs, Outcomes
  <2>2. Like(r', x) /\ r' \in RunnerType /\ Stored /\ run' = run
    BY <1>2, <2>1, Unwritten, Zenon DEF Like
  <2>3. /\ r'.pc = "loop" /\ r'.restarts = r.restarts /\ r'.had = r.had /\ r'.n = r.n
        /\ r'.task = r.task /\ r'.stopping = r.stopping /\ r'.cancelled = r.cancelled
        /\ r'.adopted = r.adopted /\ r'.pending = r.pending /\ r'.expired = r.expired
        /\ r'.ready = r.ready /\ r'.why = r.why /\ r'.missing = r.missing
    BY <1>0, <2>2, Zenon DEF Like, RunnerType
  <2>4. Fewer /\ ctr' = ctr
    BY <1>2, SameContainers, Zenon
  <2>n. r'.n < Upcoming'
    <3>1. r.n < r.restarts + 2 /\ r.had
      BY <1>1, NumberSpent, Zenon DEF IInv, Numbers
    <3> QED
      BY <2>3, <3>1 DEF Upcoming
  <2>5. RunnerMoves
    BY <1>1, <1>2, <2>2, <2>3, Zenon DEF RunnerMoves
  <2>6. Numbers'
    BY <1>1, <1>2, <2>3, <2>n, Zenon DEF IInv, Numbers, Busy
  <2>7. Charge'
    BY <1>1, <1>2, <2>3, <2>4, Zenon DEF IInv, Charge, Busy, NoneOwned, OnlyOwned
  <2>8. ReadyInv'
    BY <1>1, <1>2, <2>2, <2>3, Zenon DEF IInv, ReadyInv
  <2> QED
    BY <1>1, <2>2, <2>3, <2>4, <2>5, <2>6, <2>7, <2>8, RunnerStep, Zenon
<1>3. CASE /\ r.cancelled /\ ctr' = ctr
           /\ updateStatus([r EXCEPT !.pc = "done"], "STOPPED", FALSE)
  <2> DEFINE x == [r EXCEPT !.pc = "done"]
  <2>1. x \in RunnerType
    BY <1>0, Zenon DEF RunnerType, RunnerPcs, Outcomes
  <2>2. Like(r', x) /\ r' \in RunnerType /\ Stored /\ (run' = run \/ (run' # None /\ run'.st = "STOPPED"))
    BY <1>3, <2>1, UpdateIs, Zenon DEF RunStates
  <2>3. /\ r'.pc = "done" /\ r'.restarts = r.restarts /\ r'.had = r.had /\ r'.n = r.n
        /\ r'.task = r.task /\ r'.stopping = r.stopping /\ r'.cancelled = r.cancelled
        /\ r'.adopted = r.adopted /\ r'.pending = r.pending /\ r'.expired = r.expired
        /\ r'.ready = r.ready /\ r'.why = r.why /\ r'.missing = r.missing
    BY <1>0, <2>2, Zenon DEF Like, RunnerType
  <2>4. Fewer /\ ctr' = ctr
    BY <1>3, SameContainers, Zenon
  <2>a. r.stopping
    BY <1>3, Zenon DEF IInv, OpInv
  <2>5. RunnerMoves
    BY <1>1, <1>3, <2>2, <2>3, Zenon DEF RunnerMoves
  <2>6. Numbers'
    BY <1>1, <1>3, <2>3, Zenon DEF IInv, Numbers, Busy
  <2>7. Charge'
    BY <1>1, <1>3, <2>3, <2>4, <2>a, Zenon DEF IInv, Charge, Busy, NoneOwned, OnlyOwned
  <2>8. ReadyInv'
    BY <1>1, <1>3, <2>2, <2>3, Zenon DEF IInv, ReadyInv
  <2> QED
    BY <1>1, <2>2, <2>3, <2>4, <2>5, <2>6, <2>7, <2>8, RunnerStep, Zenon
<1> QED
  BY <1>1, <1>2, <1>3, Zenon DEF sleepBackoff

\* A restarted agent adopts the newest container, or goes on to the next run.
LEMMA ReattachRunStep ==
  ASSUME IInv, reattachRunning, scope' = scope
  PROVE  IInv'
<1>0. r \in RunnerType
  BY Zenon DEF IInv, TypeOK
<1>1. /\ r.pc = "reattachRunning" /\ op' = op /\ boots' = boots /\ scope' = scope /\ signalled' = signalled
      /\ orphans' = orphans
      /\ op.pc # "down"
  BY Zenon DEF reattachRunning, budgets, world, IInv, OpInv
<1>8. best \in 0..MaxRun /\ (~r.cancelled => \A m \in Runs : ctr[m] # "none" => best # 0)
  BY BestIs
<1>2. CASE /\ Adoptable /\ ctr' = RemoveAllBut(best)
           /\ updateStatus([Adopted EXCEPT !.pc = "running", !.adopted = TRUE], "RUNNING", TRUE)
  <2> DEFINE x == [Adopted EXCEPT !.pc = "running", !.adopted = TRUE]
  <2>0. best \in 0..MaxRun /\ best \in Runs /\ best - 1 \in Nat /\ best = (best - 1) + 1 /\ best # 0
    <3>1. best # 0 /\ MaxRun \in Nat
      BY <1>2, Nothing, Zenon DEF Adoptable
    <3> QED
      BY <1>8, <3>1 DEF Runs
  <2>1. x \in RunnerType
    BY <1>0, <2>0, Zenon DEF RunnerType, RunnerPcs, Outcomes, Adopted
  <2>2. Like(r', x) /\ r' \in RunnerType /\ Stored /\ (run' = run \/ (run' # None /\ run'.st = "RUNNING"))
    BY <1>2, <2>1, UpdateIs, Zenon DEF RunStates
  <2>3. /\ r'.pc = "running" /\ r'.restarts = best - 1 /\ r'.had = r.had /\ r'.n = best
        /\ r'.task = best /\ r'.stopping = r.stopping /\ r'.cancelled = r.cancelled
        /\ r'.adopted = TRUE /\ r'.pending = r.pending /\ r'.expired = r.expired
        /\ r'.ready = r.ready /\ r'.why = r.why /\ r'.missing = r.missing
    BY <1>0, <2>2, Zenon DEF Like, RunnerType, Adopted
  <2>4. Fewer /\ (~r.cancelled => \A m \in Runs \ {best} : ctr'[m] = "none")
    BY <1>2, RemoveIs, Zenon
  <2>a. ~r.stopping => \A m \in Runs : ctr'[m] = "running" => m = best \/ m \in orphans'
    <3>1. ~r.stopping => ~r.cancelled
      BY Zenon DEF IInv, OpInv
    <3> QED
      BY <2>4, <3>1
  <2>b. best \in Runs /\ best = (best - 1) + 1 /\ best # 0
    BY <2>0, Zenon
  <2>5. RunnerMoves
    BY <1>1, <1>2, <2>2, <2>3, Zenon DEF RunnerMoves
  <2>6. Numbers'
    BY <1>1, <1>2, <2>3, <2>b, Zenon DEF IInv, Numbers, Busy
  <2>7. Charge'
    BY <1>1, <1>2, <2>3, <2>4, <2>a, Zenon DEF IInv, Charge, Busy, NoneOwned, OnlyOwned
  <2>8. ReadyInv'
    BY <1>1, <1>2, <2>2, <2>3, Zenon DEF IInv, ReadyInv
  <2> QED
    BY <1>1, <2>2, <2>3, <2>4, <2>5, <2>6, <2>7, <2>8, RunnerStep, Zenon
<1>3. CASE /\ Adoptable /\ ctr' = RemoveAllBut(best) /\ UNCHANGED store
           /\ r' = [Adopted EXCEPT !.pc = "dropAdopted"]
  <2> DEFINE x == [Adopted EXCEPT !.pc = "dropAdopted"]
  <2>0. best \in 0..MaxRun /\ best \in Runs /\ best - 1 \in Nat /\ best = (best - 1) + 1 /\ best # 0
    <3>1. best # 0 /\ MaxRun \in Nat
      BY <1>3, Nothing, Zenon DEF Adoptable
    <3> QED
      BY <1>8, <3>1 DEF Runs
  <2>1. x \in RunnerType
    BY <1>0, <2>0, Zenon DEF RunnerType, RunnerPcs, Outcomes, Adopted
  <2>2. Like(r', x) /\ r' \in RunnerType /\ Stored /\ run' = run
    BY <1>3, <2>1, Unwritten, Zenon DEF Like
  <2>3. /\ r'.pc = "dropAdopted" /\ r'.restarts = best - 1 /\ r'.had = r.had /\ r'.n = best
        /\ r'.task = best /\ r'.stopping = r.stopping /\ r'.cancelled = r.cancelled
        /\ r'.adopted = r.adopted /\ r'.pending = r.pending /\ r'.expired = r.expired
        /\ r'.ready = r.ready /\ r'.why = r.why /\ r'.missing = r.missing
    BY <1>0, <2>2, Zenon DEF Like, RunnerType, Adopted
  <2>4. Fewer /\ (~r.cancelled => \A m \in Runs \ {best} : ctr'[m] = "none")
    BY <1>3, RemoveIs, Zenon
  <2>a. ~r.stopping => \A m \in Runs : ctr'[m] = "running" => m = best \/ m \in orphans'
    <3>1. ~r.stopping => ~r.cancelled
      BY Zenon DEF IInv, OpInv
    <3> QED
      BY <2>4, <3>1
  <2>b. best \in Runs /\ best = (best - 1) + 1 /\ best # 0
    BY <2>0, Zenon
  <2>5. RunnerMoves
    BY <1>1, <1>3, <2>2, <2>3, Zenon DEF RunnerMoves
  <2>6. Numbers'
    BY <1>1, <1>3, <2>3, <2>b, Zenon DEF IInv, Numbers, Busy
  <2>7. Charge'
    BY <1>1, <1>3, <2>3, <2>4, <2>a, Zenon DEF IInv, Charge, Busy, NoneOwned, OnlyOwned
  <2>8. ReadyInv'
    BY <1>1, <1>3, <2>2, <2>3, Zenon DEF IInv, ReadyInv
  <2> QED
    BY <1>1, <2>2, <2>3, <2>4, <2>5, <2>6, <2>7, <2>8, RunnerStep, Zenon
<1>4. CASE /\ ~Adoptable /\ ctr' = RemoveAllBut(best) /\ UNCHANGED store
           /\ r' = [Missed EXCEPT !.pc = "loop", !.had = r.pid \/ r.st \in {"RUNNING", "STARTING"}]
  <2> DEFINE x == [Missed EXCEPT !.pc = "loop", !.had = r.pid \/ r.st \in {"RUNNING", "STARTING"}]
  <2>0. Max({r.restarts, best}) \in Nat
    BY <1>0, <1>8, MissedIs, Zenon DEF RunnerType
  <2>1. x \in RunnerType
    BY <1>0, <2>0, Zenon DEF RunnerType, RunnerPcs, Outcomes, Missed
  <2>2. Like(r', x) /\ r' \in RunnerType /\ Stored /\ run' = run
    BY <1>4, <2>1, Unwritten, Zenon DEF Like
  <2>3. /\ r'.pc = "loop" /\ r'.restarts = Max({r.restarts, best})
        /\ r'.had = (r.pid \/ r.st \in {"RUNNING", "STARTING"}) /\ r'.n = r.n /\ r'.task = r.task
        /\ r'.stopping = r.stopping /\ r'.cancelled = r.cancelled /\ r'.adopted = r.adopted
        /\ r'.pending = r.pending /\ r'.expired = r.expired /\ r'.ready = r.ready /\ r'.why = r.why
        /\ r'.missing = r.missing
    BY <1>0, <2>2, Zenon DEF Like, RunnerType, Missed
  <2>4. Fewer /\ (~r.cancelled => \A m \in Runs \ {best} : ctr'[m] = "none")
    BY <1>4, RemoveIs, Zenon
  <2>a. ~r.stopping => NoneOwned'
    <3>1. ~r.stopping => ~r.cancelled
      BY Zenon DEF IInv, OpInv
    <3>2. best # 0 => ctr[best] # "running"
      BY <1>4, Zenon DEF Adoptable, Alive
    <3> QED
      BY <1>1, <1>8, <2>4, <3>1, <3>2 DEF Fewer, NoneOwned
  <2>n. r'.n < Upcoming'
    <3>1. r.n = 0
      BY <1>1, Zenon DEF IInv, Numbers
    <3> QED
      BY <2>0, <2>3, <3>1 DEF Upcoming
  <2>5. RunnerMoves
    BY <1>1, <1>4, <2>2, <2>3, Zenon DEF RunnerMoves
  <2>6. Numbers'
    BY <1>1, <1>4, <2>3, <2>n, Zenon DEF IInv, Numbers, Busy
  <2>7. Charge'
    BY <1>1, <1>4, <2>3, <2>4, <2>a, Zenon DEF IInv, Charge, Busy, NoneOwned, OnlyOwned
  <2>8. ReadyInv'
    BY <1>1, <1>4, <2>2, <2>3, Zenon DEF IInv, ReadyInv
  <2> QED
    BY <1>1, <2>2, <2>3, <2>4, <2>5, <2>6, <2>7, <2>8, RunnerStep, Zenon
<1> QED
  BY <1>1, <1>2, <1>3, <1>4, Zenon DEF reattachRunning

\* A restarted agent finds what it has to stop.
LEMMA ReattachStopStep ==
  ASSUME IInv, reattachStopped, scope' = scope
  PROVE  IInv'
<1>0. r \in RunnerType
  BY Zenon DEF IInv, TypeOK
<1>1. /\ r.pc = "reattachStopped" /\ op' = op /\ boots' = boots /\ scope' = scope /\ signalled' = signalled
      /\ orphans' = orphans
      /\ op.pc # "down"
  BY Zenon DEF reattachStopped, budgets, world, IInv, OpInv
<1>8. best \in 0..MaxRun /\ (~r.cancelled => \A m \in Runs : ctr[m] # "none" => best # 0)
  BY BestIs
<1>2. CASE /\ Adoptable /\ ctr' = RemoveAllBut(best) /\ UNCHANGED store
           /\ r' = [Adopted EXCEPT !.pc = "stopAdopted"]
  <2> DEFINE x == [Adopted EXCEPT !.pc = "stopAdopted"]
  <2>0. best \in 0..MaxRun /\ best \in Runs /\ best - 1 \in Nat /\ best = (best - 1) + 1 /\ best # 0
    <3>1. best # 0 /\ MaxRun \in Nat
      BY <1>2, Nothing, Zenon DEF Adoptable
    <3> QED
      BY <1>8, <3>1 DEF Runs
  <2>1. x \in RunnerType
    BY <1>0, <2>0, Zenon DEF RunnerType, RunnerPcs, Outcomes, Adopted
  <2>2. Like(r', x) /\ r' \in RunnerType /\ Stored /\ run' = run
    BY <1>2, <2>1, Unwritten, Zenon DEF Like
  <2>3. /\ r'.pc = "stopAdopted" /\ r'.restarts = best - 1 /\ r'.had = r.had /\ r'.n = best
        /\ r'.task = best /\ r'.stopping = r.stopping /\ r'.cancelled = r.cancelled
        /\ r'.adopted = r.adopted /\ r'.pending = r.pending /\ r'.expired = r.expired
        /\ r'.ready = r.ready /\ r'.why = r.why /\ r'.missing = r.missing
    BY <1>0, <2>2, Zenon DEF Like, RunnerType, Adopted
  <2>4. Fewer /\ (~r.cancelled => \A m \in Runs \ {best} : ctr'[m] = "none")
    BY <1>2, RemoveIs, Zenon
  <2>a. ~r.stopping => \A m \in Runs : ctr'[m] = "running" => m = best \/ m \in orphans'
    <3>1. ~r.stopping => ~r.cancelled
      BY Zenon DEF IInv, OpInv
    <3> QED
      BY <2>4, <3>1
  <2>b. best \in Runs /\ best = (best - 1) + 1 /\ best # 0
    BY <2>0, Zenon
  <2>5. RunnerMoves
    BY <1>1, <1>2, <2>2, <2>3, Zenon DEF RunnerMoves
  <2>6. Numbers'
    BY <1>1, <1>2, <2>3, <2>b, Zenon DEF IInv, Numbers, Busy
  <2>7. Charge'
    BY <1>1, <1>2, <2>3, <2>4, <2>a, Zenon DEF IInv, Charge, Busy, NoneOwned, OnlyOwned
  <2>8. ReadyInv'
    BY <1>1, <1>2, <2>2, <2>3, Zenon DEF IInv, ReadyInv
  <2> QED
    BY <1>1, <2>2, <2>3, <2>4, <2>5, <2>6, <2>7, <2>8, RunnerStep, Zenon
<1>3. CASE /\ ~Adoptable /\ ctr' = RemoveAllBut(best)
           /\ publishStopped([Missed EXCEPT !.pc = "done"])
  <2> DEFINE x == [Missed EXCEPT !.pc = "done"]
  <2>0. Max({r.restarts, best}) \in Nat
    BY <1>0, <1>8, MissedIs, Zenon DEF RunnerType
  <2>1. x \in RunnerType
    BY <1>0, <2>0, Zenon DEF RunnerType, RunnerPcs, Outcomes, Missed
  <2>2. Like(r', x) /\ r' \in RunnerType /\ Stored /\ (run' = run \/ (run' # None /\ run'.st = "STOPPED"))
    BY <1>3, <2>1, PublishIs, Zenon
  <2>3. /\ r'.pc = "done" /\ r'.restarts = Max({r.restarts, best}) /\ r'.had = r.had /\ r'.n = r.n
        /\ r'.task = r.task /\ r'.stopping = r.stopping /\ r'.cancelled = r.cancelled
        /\ r'.adopted = r.adopted /\ r'.pending = r.pending /\ r'.expired = r.expired
        /\ r'.ready = r.ready /\ r'.why = r.why /\ r'.missing = r.missing
    BY <1>0, <2>2, Zenon DEF Like, RunnerType, Missed
  <2>4. Fewer /\ (~r.cancelled => \A m \in Runs \ {best} : ctr'[m] = "none")
    BY <1>3, RemoveIs, Zenon
  <2>a. ~r.stopping => NoneOwned'
    <3>1. ~r.stopping => ~r.cancelled
      BY Zenon DEF IInv, OpInv
    <3>2. best # 0 => ctr[best] # "running"
      BY <1>3, Zenon DEF Adoptable, Alive
    <3> QED
      BY <1>1, <1>8, <2>4, <3>1, <3>2 DEF Fewer, NoneOwned
  <2>5. RunnerMoves
    BY <1>1, <1>3, <2>2, <2>3, Zenon DEF RunnerMoves
  <2>6. Numbers'
    BY <1>1, <1>3, <2>3, Zenon DEF IInv, Numbers, Busy
  <2>7. Charge'
    BY <1>1, <1>3, <2>3, <2>4, <2>a, Zenon DEF IInv, Charge, Busy, NoneOwned, OnlyOwned
  <2>8. ReadyInv'
    BY <1>1, <1>3, <2>2, <2>3, Zenon DEF IInv, ReadyInv
  <2> QED
    BY <1>1, <2>2, <2>3, <2>4, <2>5, <2>6, <2>7, <2>8, RunnerStep, Zenon
<1> QED
  BY <1>1, <1>2, <1>3, Zenon DEF reattachStopped

\* An adopted container is stopped, or dropped because its network cannot be recovered.
LEMMA StopAdoptedStep ==
  ASSUME IInv, stopAdoptedTask, scope' = scope
  PROVE  IInv'
<1>0. r \in RunnerType
  BY Zenon DEF IInv, TypeOK
<1>1. /\ r.pc \in {"stopAdopted", "dropAdopted"} /\ op' = op /\ boots' = boots /\ scope' = scope
      /\ signalled' = signalled /\ orphans' = orphans
      /\ op.pc # "down"
  BY Zenon DEF stopAdoptedTask, budgets, world, IInv, OpInv
<1>8. Fewer /\ (\A m \in Runs : ctr'[m] = "running" => ctr[m] = "running" /\ m # r.task)
  <2>1. r.task \in 0..MaxRun
    BY <1>0, Zenon DEF RunnerType
  <2>2. \/ ctr' = deleteTask(SIGTERM(ctr, r.task), r.task)
        \/ ctr' = deleteTask(SIGKILL(ctr, r.task), r.task)
    BY Zenon DEF stopAdoptedTask
  <2> QED
    BY <2>1, <2>2, TermIs, Zenon
<1>2. CASE r.pc = "stopAdopted" /\ publishStopped([r EXCEPT !.pc = "done", !.task = 0])
  <2> DEFINE x == [r EXCEPT !.pc = "done", !.task = 0]
  <2>0. 0 \in 0..MaxRun
    BY Nothing
  <2>1. x \in RunnerType
    BY <1>0, <2>0, Zenon DEF RunnerType, RunnerPcs, Outcomes
  <2>2. Like(r', x) /\ r' \in RunnerType /\ Stored /\ (run' = run \/ (run' # None /\ run'.st = "STOPPED"))
    BY <1>2, <2>1, PublishIs, Zenon
  <2>3. /\ r'.pc = "done" /\ r'.restarts = r.restarts /\ r'.had = r.had /\ r'.n = r.n
        /\ r'.task = 0 /\ r'.stopping = r.stopping /\ r'.cancelled = r.cancelled
        /\ r'.adopted = r.adopted /\ r'.pending = r.pending /\ r'.expired = r.expired
        /\ r'.ready = r.ready /\ r'.why = r.why /\ r'.missing = r.missing
    BY <1>0, <2>2, Zenon DEF Like, RunnerType
  <2>4. Fewer /\ (\A m \in Runs : ctr'[m] = "running" => ctr[m] = "running" /\ m # r.task)
    BY <1>8, Zenon
  <2>a. ~r.stopping => NoneOwned'
    BY <1>1, <2>4, Zenon DEF IInv, Numbers, Charge, Busy, NoneOwned, OnlyOwned
  <2>5. RunnerMoves
    BY <1>1, <1>2, <2>2, <2>3, Zenon DEF RunnerMoves
  <2>6. Numbers'
    BY <1>1, <1>2, <2>3, Zenon DEF IInv, Numbers, Busy
  <2>7. Charge'
    BY <1>1, <1>2, <2>3, <2>4, <2>a, Zenon DEF IInv, Charge, Busy, NoneOwned, OnlyOwned
  <2>8. ReadyInv'
    BY <1>1, <1>2, <2>2, <2>3, Zenon DEF IInv, ReadyInv
  <2> QED
    BY <1>1, <2>2, <2>3, <2>4, <2>5, <2>6, <2>7, <2>8, RunnerStep, Zenon
<1>3. CASE /\ r.pc = "dropAdopted"
           /\ updateStatus([r EXCEPT !.pc = "loop", !.task = 0, !.had = TRUE], "CRASHED", FALSE)
  <2> DEFINE x == [r EXCEPT !.pc = "loop", !.task = 0, !.had = TRUE]
  <2>0. 0 \in 0..MaxRun
    BY Nothing
  <2>1. x \in RunnerType
    BY <1>0, <2>0, Zenon DEF RunnerType, RunnerPcs, Outcomes
  <2>2. Like(r', x) /\ r' \in RunnerType /\ Stored /\ (run' = run \/ (run' # None /\ run'.st = "CRASHED"))
    BY <1>3, <2>1, UpdateIs, Zenon DEF RunStates
  <2>3. /\ r'.pc = "loop" /\ r'.restarts = r.restarts /\ r'.had = TRUE /\ r'.n = r.n /\ r'.task = 0
        /\ r'.stopping = r.stopping /\ r'.cancelled = r.cancelled /\ r'.adopted = r.adopted
        /\ r'.pending = r.pending /\ r'.expired = r.expired /\ r'.ready = r.ready /\ r'.why = r.why
        /\ r'.missing = r.missing
    BY <1>0, <2>2, Zenon DEF Like, RunnerType
  <2>4. Fewer /\ (\A m \in Runs : ctr'[m] = "running" => ctr[m] = "running" /\ m # r.task)
    BY <1>8, Zenon
  <2>a. ~r.stopping => NoneOwned'
    BY <1>1, <2>4, Zenon DEF IInv, Numbers, Charge, Busy, NoneOwned, OnlyOwned
  <2>n. r'.n < Upcoming'
    <3>1. r.n < r.restarts + 2
      BY <1>1, NumberSpent, Zenon DEF Busy
    <3> QED
      BY <2>3, <3>1 DEF Upcoming
  <2>5. RunnerMoves
    BY <1>1, <1>3, <2>2, <2>3, Zenon DEF RunnerMoves
  <2>6. Numbers'
    BY <1>1, <1>3, <2>3, <2>n, Zenon DEF IInv, Numbers, Busy
  <2>7. Charge'
    BY <1>1, <1>3, <2>3, <2>4, <2>a, Zenon DEF IInv, Charge, Busy, NoneOwned, OnlyOwned
  <2>8. ReadyInv'
    BY <1>1, <1>3, <2>2, <2>3, Zenon DEF IInv, ReadyInv
  <2> QED
    BY <1>1, <2>2, <2>3, <2>4, <2>5, <2>6, <2>7, <2>8, RunnerStep, Zenon
<1> QED
  BY <1>1, <1>2, <1>3, Zenon DEF stopAdoptedTask

------------------------------------------------------------------------------
(* Steps that leave the run loop where it is.                                *)

\* No container starts, and none is created.
Kept == Fewer /\ \A m \in Runs : ctr[m] = "none" => ctr'[m] = "none"

\* The calls an operator makes on one task.
LEMMA KeptIs ==
  ASSUME IInv, NEW k \in 0..MaxRun,
         ctr' = ctr \/ ctr' = SIGTERM(ctr, k) \/ ctr' = SIGKILL(ctr, k) \/ ctr' = deleteTask(ctr, k)
  PROVE  Kept /\ (ctr' = SIGTERM(ctr, k) => \A m \in Runs : ctr'[m] = "running" => m # k)
<1>0. ctr \in [Runs -> ContainerStates]
  BY Zenon DEF IInv, TypeOK
<1>1. Milder(ctr, SIGTERM(ctr, k), k) /\ Milder(ctr, SIGKILL(ctr, k), k)
  BY <1>0, SignalIs, Zenon
<1>2. deleteTask(ctr, k) = ctr \/ Milder(ctr, deleteTask(ctr, k), k)
  BY <1>0, DeleteIs, Zenon
<1>3. ctr' = ctr \/ Milder(ctr, ctr', k)
  BY <1>1, <1>2, Zenon
<1>4. Kept
  BY <1>0, <1>3, Zenon DEF Kept, Fewer, Milder
<1>5. ctr' = SIGTERM(ctr, k) => \A m \in Runs : ctr'[m] = "running" => m # k
  BY <1>1, Zenon DEF Milder
<1> QED
  BY <1>4, <1>5, Zenon

\* The parts of the invariant that speak only of the run loop and its containers.
LEMMA RunnerRests ==
  ASSUME IInv, r' = r, Kept, orphans \subseteq orphans'
  PROVE  /\ Clean' /\ Numbers' /\ Charge'
         /\ NoneRunning => NoneRunning'
         /\ NoneOwned => NoneOwned'
<1>1. /\ NoneRunning => NoneRunning'
      /\ NoneOwned => NoneOwned'
  BY Zenon DEF Kept, Fewer, NoneRunning, NoneOwned
<1>2. OnlyOwned(r.n) => OnlyOwned(r.n)'
  BY Zenon DEF Kept, Fewer, OnlyOwned
<1>3. Clean'
  <2>1. OneContainer'
    BY Zenon DEF Kept, Fewer, IInv, Clean, OneContainer
  <2> QED
    BY <2>1, Zenon DEF Kept, IInv, Clean
<1>4. Numbers'
  BY Zenon DEF IInv, Numbers, Upcoming
<1>5. Charge'
  BY <1>1, <1>2, Zenon DEF IInv, Charge
<1> QED
  BY <1>1, <1>3, <1>4, <1>5, Zenon

\* A step of the preparer or of a container: the operator does not move either.
LEMMA OthersStep ==
  ASSUME IInv, Stored, run' = run, r' = r, op' = op, Kept, boots' = boots, scope' = scope,
         signalled' = signalled /\ orphans' = orphans
  PROVE  IInv'
<1>1. /\ Clean' /\ Numbers' /\ Charge'
      /\ NoneRunning => NoneRunning'
      /\ NoneOwned => NoneOwned'
  BY RunnerRests, Zenon
<1>2. TypeOK'
  BY Zenon DEF IInv, TypeOK, Stored, Fed, Kept, Fewer
<1>3. QueueInv'
  BY Zenon DEF Stored, Fed, QueueInv
<1>4. OpInv' /\ ReadyInv'
  BY Zenon DEF IInv, OpInv, ReadyInv
<1>5. NoneYet'
  BY <1>1, Zenon DEF IInv, NoneYet, Stored
<1>6. Left'
  BY <1>1, Zenon DEF IInv, Left
<1> QED
  BY <1>1, <1>2, <1>3, <1>4, <1>5, <1>6, Zenon DEF IInv

\* Preparation publishes its own half of the status.
LEMMA PublishesPrep ==
  ASSUME IInv, prepare \/ retryRuntimeInputs
  PROVE  Stored /\ run' = run
<1>2. /\ prep \in PrepStates \cup {None} /\ run \in RunStatus \cup {None}
      /\ ctr \in [Runs -> ContainerStates]
  BY Zenon DEF IInv, TypeOK
<1>3. ASSUME NEW p \in PrepStates \cup {None}, MustWriteScheduledInstanceStatus(p, run)
      PROVE  Stored /\ run' = run
  BY <1>2, <1>3, WriteIs, Zenon
<1>4. ASSUME NEW p \in PrepStates, WriteStatus(p)
      PROVE  Stored /\ run' = run
  BY <1>3, <1>4, Unwritten, Zenon DEF WriteStatus
<1>5. Stored /\ run' = run
  <2>1. CASE prepare
    BY <1>4, <2>1, Zenon DEF prepare, PrepStates
  <2>2. CASE retryRuntimeInputs
    BY <1>2, <1>3, <2>2, Unwritten, Zenon DEF retryRuntimeInputs
  <2> QED
    BY <2>1, <2>2, Zenon
<1> QED
  BY <1>5

\* Preparation leaves everything else alone.
LEMMA PrepareStep ==
  ASSUME IInv, prepare \/ retryRuntimeInputs, scope' = scope
  PROVE  IInv'
<1>1. /\ op' = op /\ r' = r /\ ctr' = ctr /\ signalled' = signalled /\ orphans' = orphans /\ boots' = boots
  BY Zenon DEF prepare, retryRuntimeInputs, world, budgets
<1>2. Stored /\ run' = run
  BY PublishesPrep, Zenon
<1>3. Kept
  BY <1>1, Zenon DEF Kept, Fewer, IInv, TypeOK
<1> QED
  BY <1>1, <1>2, <1>3, OthersStep, Zenon

\* A container exits, or the image is lost: nothing is written and nothing starts.
LEMMA ExitsOnly ==
  ASSUME IInv, ContainerExit \/ ImageLost
  PROVE  /\ op' = op /\ r' = r /\ signalled' = signalled /\ orphans' = orphans /\ boots' = boots
         /\ Stored /\ run' = run /\ Kept
<1>0. ctr \in [Runs -> ContainerStates]
  BY Zenon DEF IInv, TypeOK
<1>1. /\ op' = op /\ r' = r /\ signalled' = signalled /\ orphans' = orphans /\ boots' = boots /\ UNCHANGED store
      /\ ctr' = ctr \/ \E n \in Runs : Alive(ctr, n) /\ ctr' = [ctr EXCEPT ![n] = "exited"]
  BY Zenon DEF ContainerExit, ImageLost, Alive
<1>2. Kept
  <2>1. CASE ctr' = ctr
    BY <1>0, <2>1, Zenon DEF Kept, Fewer
  <2>2. ASSUME NEW n \in Runs, Alive(ctr, n), ctr' = [ctr EXCEPT ![n] = "exited"]
        PROVE  Kept
    <3>1. /\ ctr' \in [Runs -> ContainerStates] /\ ctr'[n] = "exited"
          /\ \A m \in Runs \ {n} : ctr'[m] = ctr[m]
      BY <1>0, <2>2 DEF ContainerStates
    <3> QED
      BY <2>2, <3>1 DEF Kept, Fewer, Alive
  <2> QED
    BY <1>1, <2>1, <2>2, Zenon
<1>3. Stored /\ run' = run
  BY <1>1, Unwritten, Zenon
<1> QED
  BY <1>1, <1>2, <1>3, Zenon

\* Such a step keeps the invariant.
LEMMA ExitStep ==
  ASSUME IInv, ContainerExit \/ ImageLost, scope' = scope
  PROVE  IInv'
BY ExitsOnly, OthersStep, Zenon

-----------------------------------------------------------------------------
(* The operator.                                                             *)

\* A step in which only the operator and the containers move.
OperatorAlone ==
  /\ r' = r /\ Kept /\ op' \in OpType /\ op'.pc # "down" /\ op.pc # "down"
  /\ boots' = boots /\ scope' = scope /\ signalled' = signalled /\ orphans \subseteq orphans'

\* Such a step, with the parts of the invariant that name the operator's state.
LEMMA OperatorStep ==
  ASSUME IInv, OperatorAlone, OpInv', Left',
         target' = target, prep' \in PrepStates \cup {None}, run' \in RunStatus \cup {None},
         run' = run \/ (run' # None /\ run'.st # "RUNNING"), Fed(op'.cur)
  PROVE  IInv'
<1>1. /\ Clean' /\ Numbers' /\ Charge'
      /\ NoneRunning => NoneRunning'
  BY RunnerRests, Zenon DEF OperatorAlone
<1>2. TypeOK'
  BY Zenon DEF IInv, TypeOK, Fed, OperatorAlone, Kept, Fewer
<1>3. QueueInv'
  BY Zenon DEF Fed, QueueInv, OperatorAlone
<1>4. NoneYet'
  BY <1>1, Zenon DEF IInv, NoneYet, OperatorAlone
<1>5. ReadyInv'
  BY Zenon DEF IInv, ReadyInv, OperatorAlone
<1> QED
  BY <1>1, <1>2, <1>3, <1>4, <1>5, Zenon DEF IInv

\* Stop begins.
LEMMA BeginStop ==
  ASSUME IInv, NEW o \in OpType, NEW then \in Follows, beginStop(o, then),
         op.pc \in {"boot", "idle", "cancel"}, o.role = op.role,
         then = "terminate" => o.cur = "TERMINATE",
         then = "finalized" => o.cur = "FINALIZED",
         target' = target, prep' = prep, run' = run, Fed(o.cur),
         boots' = boots, scope' = scope, signalled' = signalled /\ orphans' = orphans
  PROVE  IInv'
<1>0. r \in RunnerType /\ prep \in PrepStates \cup {None} /\ run \in RunStatus \cup {None}
  BY Zenon DEF IInv, TypeOK
<1>1. r.task \in 0..MaxRun /\ 0 \in 0..MaxRun
  BY <1>0, Nothing DEF RunnerType
<1>2. CASE o.role = "none"
  <2>1. op' = [o EXCEPT !.pc = "join", !.then = then, !.task = 0] /\ r' = r /\ ctr' = ctr
    BY <1>2, Zenon DEF beginStop
  <2>2. /\ op' \in OpType /\ op'.pc = "join" /\ op'.then = then /\ op'.cur = o.cur
        /\ op'.role = o.role
    BY <1>1, <2>1, Zenon DEF OpType
  <2>3. Kept
    BY <1>1, <2>1, KeptIs, Zenon
  <2>4. OpInv'
    BY <1>2, <2>1, <2>2, Zenon DEF IInv, OpInv
  <2>5. Left'
    BY <1>2, <2>1, <2>2, Zenon DEF IInv, Left, NoneOwned
  <2>6. OperatorAlone
    BY <2>1, <2>2, <2>3, Zenon DEF OperatorAlone
  <2> QED
    BY <1>0, <2>2, <2>4, <2>5, <2>6, OperatorStep, Zenon
<1>3. CASE o.role # "none"
  <2>1. /\ op' = [o EXCEPT !.pc = IF r.task = 0 THEN "kill" ELSE "wait", !.then = then, !.task = r.task]
        /\ r' = [notifyReady(r, "failed") EXCEPT !.stopping = TRUE]
        /\ ctr' = SIGTERM(ctr, r.task)
    BY <1>3, Zenon DEF beginStop
  <2>2. /\ op' \in OpType /\ op'.pc \in {"kill", "wait"} /\ op'.then = then /\ op'.cur = o.cur
        /\ op'.role = o.role
    BY <1>1, <2>1, Zenon DEF OpType
  <2>3. Kept /\ \A m \in Runs : ctr'[m] = "running" => m # r.task
    BY <1>1, <2>1, KeptIs, Zenon
  <2>4. /\ r' \in RunnerType
        /\ r'.pc = r.pc /\ r'.restarts = r.restarts /\ r'.had = r.had /\ r'.n = r.n
        /\ r'.task = r.task /\ r'.stopping = TRUE /\ r'.cancelled = r.cancelled
        /\ r'.adopted = r.adopted /\ r'.pending = r.pending /\ r'.expired = r.expired
        /\ r'.ready = (IF r.ready = None THEN "failed" ELSE r.ready) /\ r'.why = r.why
        /\ r'.missing = r.missing
    BY <1>0, <2>1, Zenon DEF RunnerType, notifyReady, Outcomes
  <2>5. TypeOK'
    BY <1>0, <2>2, <2>3, <2>4, Zenon DEF IInv, TypeOK, Fed, Kept, Fewer
  <2>6. QueueInv'
    BY <2>2, Zenon DEF Fed, QueueInv
  <2>7. OpInv'
    BY <1>3, <2>2, <2>4, Zenon DEF IInv, OpInv
  <2>8. Clean'
    <3>1. OneContainer'
      BY <2>3, Zenon DEF Kept, Fewer, IInv, Clean, OneContainer
    <3> QED
      BY <2>3, <2>4, <3>1, Zenon DEF Kept, IInv, Clean
  <2>9. Numbers' /\ Charge'
    BY <2>4, ZenonT(40) DEF IInv, Numbers, Charge, Busy, Upcoming
  <2>10. NoneYet'
    BY <2>2, <2>3, <2>4, Zenon DEF IInv, NoneYet, NoneRunning, Kept, Fewer
  <2>11. Left'
    BY <1>3, <2>2, Zenon DEF Left
  <2>12. ReadyInv'
    BY <2>4, Zenon DEF IInv, ReadyInv
  <2> QED
    BY <2>5, <2>6, <2>7, <2>8, <2>9, <2>10, <2>11, <2>12, Zenon DEF IInv
<1> QED
  BY <1>2, <1>3, Zenon

\* Stop gives up on SIGTERM: SIGKILL, and the run loop's context is cancelled.
LEMMA StopKillStep ==
  ASSUME IInv, StopKill, scope' = scope
  PROVE  IInv'
<1>0. r \in RunnerType /\ op \in OpType
  BY Zenon DEF IInv, TypeOK
<1>1. /\ op.pc \in {"wait", "kill"} /\ ctr' = SIGKILL(ctr, op.task)
      /\ r' = [r EXCEPT !.cancelled = TRUE] /\ op' = [op EXCEPT !.pc = "join"]
      /\ UNCHANGED store /\ signalled' = signalled /\ orphans' = orphans /\ boots' = boots
  BY Zenon DEF StopKill, budgets
<1>2. /\ op' \in OpType /\ op'.pc = "join" /\ op'.then = op.then /\ op'.cur = op.cur
      /\ op'.role = op.role /\ op.task \in 0..MaxRun
  BY <1>0, <1>1, Zenon DEF OpType
<1>3. Kept
  BY <1>1, <1>2, KeptIs, Zenon
<1>4. /\ r' \in RunnerType
      /\ r'.pc = r.pc /\ r'.restarts = r.restarts /\ r'.had = r.had /\ r'.n = r.n
      /\ r'.task = r.task /\ r'.stopping = r.stopping /\ r'.cancelled = TRUE
      /\ r'.adopted = r.adopted /\ r'.pending = r.pending /\ r'.expired = r.expired
      /\ r'.ready = r.ready /\ r'.why = r.why /\ r'.missing = r.missing
  BY <1>0, <1>1, Zenon DEF RunnerType
<1>5. r.stopping /\ op.role # "none"
  BY <1>1, Zenon DEF IInv, OpInv
<1>6. Stored /\ run' = run
  BY <1>1, Unwritten, Zenon
<1>7. TypeOK'
  BY <1>1, <1>2, <1>3, <1>4, <1>6, Zenon DEF IInv, TypeOK, Stored, Fed, Kept, Fewer
<1>8. QueueInv'
  BY <1>1, <1>2, <1>6, Zenon DEF Stored, Fed, QueueInv
<1>9. OpInv'
  BY <1>1, <1>2, <1>4, <1>5, Zenon DEF IInv, OpInv
<1>10. Clean'
  BY <1>3, <1>4, Zenon DEF Kept, Fewer, IInv, Clean, OneContainer
<1>11. Numbers' /\ Charge'
  BY <1>4, <1>5, ZenonT(40) DEF IInv, Numbers, Charge, Busy, Upcoming
<1>12. NoneYet'
  BY <1>1, <1>2, <1>3, <1>4, <1>6, Zenon DEF IInv, NoneYet, NoneRunning, Kept, Fewer, Stored
<1>13. Left'
  BY <1>2, <1>5, Zenon DEF Left
<1>14. ReadyInv'
  BY <1>1, <1>4, <1>6, Zenon DEF IInv, ReadyInv
<1> QED
  BY <1>7, <1>8, <1>9, <1>10, <1>11, <1>12, <1>13, <1>14, Zenon DEF IInv

\* The run loop is over and Stop returns.
LEMMA StopJoinStep ==
  ASSUME IInv, StopJoin, scope' = scope
  PROVE  IInv'
<1>0. op \in OpType
  BY Zenon DEF IInv, TypeOK
<1> DEFINE o == [op EXCEPT !.pc = "idle", !.role = "none", !.then = None, !.task = 0, !.st = None]
<1>1. /\ op.pc \in {"wait", "join"} /\ (op.role = "none" \/ r.pc = "done")
      /\ ctr' = deleteTask(ctr, op.task) /\ r' = r /\ signalled' = signalled /\ boots' = boots
      /\ orphans' = orphans \cup {n \in Runs : Alive(ctr, n)}
  BY Zenon DEF StopJoin, budgets
<1>2. \/ op.then = "terminate" /\ writeTerminalStopped /\ op' = o
      \/ op.then = "finalized" /\ op' = [o EXCEPT !.pc = "off"] /\ UNCHANGED store
      \/ op.then = "missing" /\ op' = [o EXCEPT !.pc = "cancel", !.then = "missing"] /\ UNCHANGED store
      \/ op.then = "failed" /\ op' = o /\ UNCHANGED store
  BY Zenon DEF StopJoin, beginCancel
<1>3. 0 \in 0..MaxRun /\ op.task \in 0..MaxRun
  BY <1>0, Nothing DEF OpType
<1>4. /\ o \in OpType /\ o.pc = "idle" /\ o.cur = op.cur /\ o.role = "none" /\ o.then = None
  BY <1>0, <1>3, Zenon DEF OpType
<1>5. /\ op' \in OpType /\ op'.pc \in {"idle", "off", "cancel"} /\ op'.cur = op.cur /\ op'.role = "none"
      /\ op'.pc = "cancel" => op'.then = "missing"
      /\ op'.then \in {None, "missing"}
  <2> HIDE DEF o
  <2> QED
    BY <1>2, <1>4, Zenon DEF OpType, Follows
<1>6. r.pc \in {"none", "done"}
  BY <1>1, Zenon DEF IInv, OpInv
<1>7. OpInv'
  <2>1. op'.then # "finalized" /\ op'.then # "terminate"
    BY <1>5, Nothing, Zenon DEF Follows
  <2> QED
    BY <1>1, <1>5, <1>6, <2>1, Zenon DEF IInv, OpInv
<1>8. Kept
  BY <1>1, <1>3, KeptIs, Zenon
<1>9. Left'
  <2>1. \A m \in Runs : ctr'[m] = "running" => m \in orphans'
    BY <1>1, <1>8 DEF Kept, Fewer, Alive
  <2> QED
    BY <2>1, Zenon DEF Left, NoneOwned
<1>10. Stored /\ (run' = run \/ (run' # None /\ run'.st # "RUNNING"))
  <2> DEFINE s == [st |-> "STOPPED", pid |-> FALSE, restarts |-> IF run = None THEN 0 ELSE run.restarts]
  <2>1. prep \in PrepStates \cup {None} /\ run \in RunStatus \cup {None}
    BY Zenon DEF IInv, TypeOK
  <2>2. s \in RunStatus /\ s.st = "STOPPED" /\ s # None
    <3>1. (IF run = None THEN 0 ELSE run.restarts) \in Nat
      BY <2>1 DEF RunStatus
    <3>2. s \in RunStatus /\ s.st = "STOPPED"
      BY <3>1, Zenon DEF RunStatus
    <3> QED
      BY <3>2, Nothing, Zenon
  <2>3. UNCHANGED store \/ MustWriteScheduledInstanceStatus(prep, s)
    BY <1>2, Zenon DEF writeTerminalStopped
  <2> HIDE DEF s
  <2>4. CASE UNCHANGED store
    BY <2>4, Unwritten, Zenon
  <2>5. CASE MustWriteScheduledInstanceStatus(prep, s)
    <3>1. s \in RunStatus \cup {None} /\ (s = None => run = None)
      BY <2>2, Zenon
    <3>2. Stored /\ (run' = s \/ run' = run)
      BY <2>1, <2>5, <3>1, WriteIs, Zenon
    <3> QED
      BY <2>2, <3>2
  <2> QED
    BY <2>3, <2>4, <2>5, Zenon
<1>11. OperatorAlone
  <2>1. orphans \subseteq orphans'
    BY <1>1
  <2> QED
    BY <1>1, <1>5, <1>8, <2>1, Zenon DEF OperatorAlone
<1>12. /\ target' = target /\ prep' \in PrepStates \cup {None} /\ run' \in RunStatus \cup {None}
       /\ Fed(op'.cur)
  BY <1>5, <1>10, Zenon DEF Stored
<1> QED
  BY <1>7, <1>9, <1>10, <1>11, <1>12, OperatorStep, Zenon

\* What the store looks like to a step that does not write.
LEMMA Still ==
  ASSUME IInv, UNCHANGED store
  PROVE  /\ target' = target /\ prep' = prep /\ run' = run /\ Fed(op.cur)
         /\ prep' \in PrepStates \cup {None} /\ run' \in RunStatus \cup {None}
<1>1. Stored /\ run' = run
  BY Unwritten, Zenon
<1>2. prep' = prep
  BY Zenon DEF store
<1> QED
  BY <1>1, <1>2, Zenon DEF Stored

\* preparer.Cancel returned: the placement is ended, or its repair begins.
LEMMA CancelStep ==
  ASSUME IInv, CancelDone, scope' = scope
  PROVE  IInv'
<1>0. op \in OpType
  BY Zenon DEF IInv, TypeOK
<1>1. op.pc = "cancel" /\ UNCHANGED store /\ signalled' = signalled /\ orphans' = orphans /\ boots' = boots
  BY Zenon DEF CancelDone, budgets
<1>2. /\ target' = target /\ prep' = prep /\ run' = run /\ Fed(op.cur)
      /\ prep' \in PrepStates \cup {None} /\ run' \in RunStatus \cup {None}
  BY <1>1, Still, Zenon
<1>3. CASE op.then = "finalized" /\ beginStop(op, "finalized")
  <2>1. op.cur = "FINALIZED" /\ "finalized" \in Follows
    BY <1>3, Zenon DEF IInv, OpInv, Follows
  <2> QED
    BY <1>0, <1>1, <1>2, <1>3, <2>1, BeginStop, Zenon
<1>4. CASE /\ op.then = "missing" /\ r' = r /\ ctr' = ctr
           /\ op' = [op EXCEPT !.pc = "idle", !.then = None, !.repair = TRUE, !.started = FALSE]
  <2>1. op' \in OpType /\ op'.pc = "idle" /\ op'.cur = op.cur /\ op'.role = op.role /\ op'.then = None
    BY <1>0, <1>4, Zenon DEF OpType
  <2>2. op.role = "none" /\ r.pc \in {"none", "done"}
    BY <1>1, <1>4, Zenon DEF IInv, OpInv
  <2>3. OpInv'
    <3>1. op'.then # "finalized" /\ op'.then # "terminate"
      BY <2>1, Nothing, Zenon DEF Follows
    <3> QED
      BY <1>4, <2>1, <2>2, <3>1, Zenon DEF IInv, OpInv
  <2>4. Kept
    BY <1>4, Zenon DEF Kept, Fewer, IInv, TypeOK
  <2>5. Left'
    BY <1>1, <1>4, <2>1, Zenon DEF IInv, Left, NoneOwned
  <2>6. OperatorAlone
    BY <1>1, <1>4, <2>1, <2>4, Zenon DEF OperatorAlone
  <2>7. Fed(op'.cur)
    BY <1>2, <2>1, Zenon
  <2> QED
    BY <1>2, <2>3, <2>5, <2>6, <2>7, OperatorStep, Zenon
<1> QED
  BY <1>3, <1>4, Zenon DEF CancelDone

\* The current runner has no artifact: it is stopped, and a repair begins.
LEMMA MissingStep ==
  ASSUME IInv, ArtifactMissing, scope' = scope
  PROVE  IInv'
<1>0. op \in OpType /\ "missing" \in Follows
  BY Zenon DEF IInv, TypeOK, Follows
<1>1. /\ op.pc = "idle" /\ op.role = "current" /\ r.missing /\ beginStop(op, "missing")
      /\ UNCHANGED store /\ signalled' = signalled /\ orphans' = orphans /\ boots' = boots
  BY Zenon DEF ArtifactMissing, budgets
<1>2. /\ target' = target /\ prep' = prep /\ run' = run /\ Fed(op.cur)
  BY <1>1, Still, Zenon
<1> QED
  BY <1>0, <1>1, <1>2, BeginStop, Zenon

\* The candidate's outcome: promoted, or stopped with its container.
LEMMA CandidateStep ==
  ASSUME IInv, candidateReady, scope' = scope
  PROVE  IInv'
<1>0. op \in OpType
  BY Zenon DEF IInv, TypeOK
<1>1. /\ op.pc = "idle" /\ op.role = "candidate" /\ UNCHANGED store
      /\ signalled' = signalled /\ orphans' = orphans /\ boots' = boots
  BY Zenon DEF candidateReady
<1>2. /\ target' = target /\ prep' = prep /\ run' = run /\ Fed(op.cur)
      /\ prep' \in PrepStates \cup {None} /\ run' \in RunStatus \cup {None}
  BY <1>1, Still, Zenon
<1>3. ~r.stopping
  BY <1>1, Zenon DEF IInv, OpInv
<1>4. CASE /\ op' = [op EXCEPT !.role = "current", !.repair = FALSE, !.started = FALSE]
           /\ r' = r /\ ctr' = ctr
  <2>1. /\ op' \in OpType /\ op'.pc = op.pc /\ op'.cur = op.cur /\ op'.role = "current"
        /\ op'.then = op.then
    BY <1>0, <1>4, Zenon DEF OpType
  <2>2. OpInv'
    BY <1>1, <1>3, <1>4, <2>1, Zenon DEF IInv, OpInv
  <2>3. Kept
    BY <1>4, Zenon DEF Kept, Fewer, IInv, TypeOK
  <2>4. Left'
    BY <1>1, <2>1, Zenon DEF Left
  <2>5. OperatorAlone
    BY <1>1, <1>4, <2>1, <2>3, Zenon DEF OperatorAlone
  <2>6. Fed(op'.cur)
    BY <1>2, <2>1, Zenon
  <2> QED
    BY <1>2, <2>2, <2>4, <2>5, <2>6, OperatorStep, Zenon
<1>5. ASSUME NEW then \in {"missing", "failed"}, beginStop(op, then)
      PROVE  IInv'
  BY <1>0, <1>1, <1>2, <1>5, BeginStop, Zenon DEF Follows
<1> QED
  BY <1>4, <1>5, Zenon DEF candidateReady, Outcomes

\* The update the operator takes next, or the snapshot of a new subscription, and
\* what is left to take.
LEMMA UpdateNext ==
  ASSUME IInv, op.pc # "down", NEW u, NEW rest,
         u = IF queue = <<>> THEN Snapshot(target, prep, run) ELSE Head(queue),
         rest = IF queue = <<>> THEN <<>> ELSE Tail(queue)
  PROVE  /\ u \in Update /\ rest \in Seq(Update)
         /\ Later(op.cur, u.target) /\ Leads(u.target, rest, target)
<1>1. /\ target \in Targets /\ prep \in PrepStates \cup {None} /\ run \in RunStatus \cup {None}
      /\ queue \in Seq(Update) /\ Leads(op.cur, queue, target)
  BY Zenon DEF IInv, TypeOK, QueueInv
<1>2. CASE queue = <<>>
  <2>1. u \in Update /\ u.target = target
    BY <1>1, <1>2, SnapshotIs, Zenon
  <2>2. Later(op.cur, target) /\ Later(target, target)
    BY <1>1, Zenon DEF Leads, Later, Targets
  <2>3. rest = <<>> /\ rest \in Seq(Update) /\ Len(rest) = 0
    BY <1>2
  <2>4. Leads(target, rest, target)
    BY <2>2, <2>3 DEF Leads
  <2> QED
    BY <2>1, <2>2, <2>3, <2>4, Zenon
<1>3. CASE queue # <<>>
  <2>1. u = Head(queue) /\ rest = Tail(queue)
    BY <1>3, Zenon
  <2> QED
    BY <1>1, <1>3, <2>1, LeadsTail, Zenon
<1> QED
  BY <1>2, <1>3, Zenon

\* A new runner: what earlier ones left behind is not its own.
LEMMA CreateIs ==
  ASSUME IInv, op.pc \in {"boot", "idle"}, op.cur = "RUN", op.role = "none",
         op' \in OpType, op'.pc = "idle", op'.cur = "RUN", op'.role # "none", op'.then = op.then,
         r' = initFreshRun(scope.strategy = "ROLLOVER"), ctr' = ctr,
         target' = target, prep' = prep, Fed("RUN"),
         run' = Published(r') \/ (target = "FINALIZED" /\ run' = run),
         boots' = boots, scope' = scope, signalled' = signalled /\ orphans' = orphans
  PROVE  IInv'
<1>0. ctr \in [Runs -> ContainerStates] /\ prep \in PrepStates \cup {None} /\ run \in RunStatus \cup {None}
  BY Zenon DEF IInv, TypeOK
<1>1. 0 \in 0..MaxRun /\ 0 \in Nat
  BY Nothing
<1>2. r' \in RunnerType
  BY <1>1, Zenon DEF initFreshRun, NoRunner, RunnerType, RunnerPcs, RunStates
<1>3. /\ r'.pc = "loop" /\ r'.st = "STARTING" /\ r'.pid = FALSE /\ r'.restarts = 0 /\ r'.had = FALSE
      /\ r'.n = 0 /\ r'.stopping = FALSE /\ r'.cancelled = FALSE /\ r'.adopted = FALSE
      /\ r'.pending = (scope.strategy = "ROLLOVER") /\ r'.expired = FALSE /\ r'.ready = None
      /\ r'.missing = FALSE
  BY Zenon DEF initFreshRun, NoRunner
<1>4. Published(r') \in RunStatus /\ Published(r').st = "STARTING" /\ Published(r') # None
  <2>1. Published(r') \in RunStatus /\ Published(r').st = "STARTING"
    BY <1>1, <1>3, Zenon DEF Published, RunStatus
  <2> QED
    BY <2>1, Nothing, Zenon
<1>5. TypeOK'
  BY <1>0, <1>2, <1>4, Zenon DEF IInv, TypeOK, Fed
<1>6. QueueInv'
  BY Zenon DEF QueueInv, Fed
<1>7. OpInv'
  BY <1>3, Zenon DEF IInv, OpInv
<1>8. Clean'
  BY <1>3, Zenon DEF IInv, Clean, OneContainer
<1>9. Numbers'
  <2>1. None \notin {"ok", "failed", "missing"}
    BY Nothing, Zenon DEF Outcomes
  <2>2. r'.n < Upcoming'
    BY <1>3 DEF Upcoming
  <2> QED
    BY <1>3, <2>1, <2>2, Zenon DEF Numbers, Busy
<1>10. Charge'
  <2>1. NoneOwned' /\ OnlyOwned(r.n)'
    BY Zenon DEF IInv, Left, NoneOwned, OnlyOwned
  <2> QED
    BY <1>3, <2>1, Zenon DEF Charge, Busy
<1>11. NoneYet'
  BY <1>3, <1>4, Zenon DEF NoneYet
<1>12. Left'
  BY Zenon DEF Left
<1>13. ReadyInv'
  BY <1>3, <1>4, Zenon DEF IInv, ReadyInv
<1> QED
  BY <1>5, <1>6, <1>7, <1>8, <1>9, <1>10, <1>11, <1>12, <1>13, Zenon DEF IInv

\* The operator takes an update.
LEMMA ReconcileStep ==
  ASSUME IInv, reconcile, scope' = scope
  PROVE  IInv'
<1>0. /\ op \in OpType /\ target \in Targets /\ prep \in PrepStates \cup {None}
      /\ run \in RunStatus \cup {None} /\ overflow \in BOOLEAN
  BY Zenon DEF IInv, TypeOK
<1> DEFINE u == IF queue = <<>> THEN Snapshot(target, prep, run) ELSE Head(queue)
           o == [op EXCEPT !.pc = "idle", !.cur = u.target,
                           !.started = @ \/ (op.repair /\ u.prep \notin {None, "READY"})]
           rest == IF queue = <<>> THEN <<>> ELSE Tail(queue)
           lost == overflow /\ queue # <<>>
           fresh == initFreshRun(scope.strategy = "ROLLOVER")
<1>1. /\ op.pc \in {"boot", "idle"} /\ signalled' = signalled /\ orphans' = orphans /\ boots' = boots
      /\ target' = target /\ prep' = prep
  BY Zenon DEF reconcile, budgets
<1>2. /\ u \in Update /\ rest \in Seq(Update)
      /\ Later(op.cur, u.target) /\ Leads(u.target, rest, target)
  BY <1>1, UpdateNext, Zenon
<1>3. \/ /\ u.target = "FINALIZED" /\ beginCancel(o, "finalized") /\ r' = r /\ ctr' = ctr
         /\ queue' = rest /\ overflow' = lost /\ run' = run
      \/ /\ u.target = "TERMINATE" /\ beginStop([o EXCEPT !.st = u.run], "terminate")
         /\ queue' = rest /\ overflow' = lost /\ run' = run
      \/ /\ mayCreate(o, u) /\ r' = fresh /\ ctr' = ctr
         /\ op' = IF scope.strategy = "ROLLOVER"
                    THEN [o EXCEPT !.role = "candidate"]
                    ELSE [o EXCEPT !.role = "current", !.repair = FALSE, !.started = FALSE]
         /\ \/ target = "FINALIZED" /\ queue' = rest /\ overflow' = lost /\ run' = run
            \/ run' = Published(fresh) /\ notify(rest, lost, Snapshot(target, prep, Published(fresh)))
      \/ /\ u.target = "RUN" /\ op' = o /\ r' = r /\ ctr' = ctr
         /\ queue' = rest /\ overflow' = lost /\ run' = run
  BY Zenon DEF reconcile
<1>4. /\ o \in OpType /\ o.pc = "idle" /\ o.cur = u.target /\ o.role = op.role /\ o.then = op.then
      /\ u.target \in Targets /\ u.run \in RunStates \cup {None}
  <2>1. u.target \in Targets /\ u.run \in RunStates \cup {None}
    BY <1>2, Zenon DEF Update
  <2> HIDE DEF u
  <2> QED
    BY <1>0, <2>1, Zenon DEF OpType
<1>5. lost \in BOOLEAN
  OBVIOUS
<1>6. queue' = rest /\ overflow' = lost => Fed(u.target)
  BY <1>1, <1>2, <1>5, Zenon DEF Fed
<1>7. Kept \/ ctr' # ctr
  BY Zenon DEF Kept, Fewer, IInv, TypeOK
<1>8. op.role # "none" => ~r.stopping
  BY <1>1, Zenon DEF IInv, OpInv
<1> HIDE DEF u, o, rest, lost, fresh
<1>9. CASE /\ u.target = "FINALIZED" /\ beginCancel(o, "finalized") /\ r' = r /\ ctr' = ctr
           /\ queue' = rest /\ overflow' = lost /\ run' = run
  <2>1. op' = [o EXCEPT !.pc = "cancel", !.then = "finalized"]
    BY <1>9, Zenon DEF beginCancel
  <2>2. /\ op' \in OpType /\ op'.pc = "cancel" /\ op'.then = "finalized" /\ op'.cur = "FINALIZED"
        /\ op'.role = op.role
    BY <1>4, <1>9, <2>1, Zenon DEF OpType, Follows
  <2>3. OpInv'
    BY <1>8, <1>9, <2>2, Zenon DEF IInv, OpInv
  <2>4. Left'
    BY <1>1, <1>9, <2>2, Zenon DEF IInv, Left, NoneOwned
  <2>5. OperatorAlone
    BY <1>1, <1>7, <1>9, <2>2, Zenon DEF OperatorAlone
  <2>6. Fed(op'.cur)
    BY <1>6, <1>9, <2>2, Zenon
  <2> QED
    BY <1>0, <1>1, <1>9, <2>3, <2>4, <2>5, <2>6, OperatorStep, Zenon
<1>10. CASE /\ u.target = "TERMINATE" /\ beginStop([o EXCEPT !.st = u.run], "terminate")
            /\ queue' = rest /\ overflow' = lost /\ run' = run
  <2> DEFINE p == [o EXCEPT !.st = u.run]
  <2>1. p \in OpType /\ p.role = op.role /\ p.cur = "TERMINATE" /\ "terminate" \in Follows
    BY <1>4, <1>10, Zenon DEF OpType, Follows
  <2>2. beginStop(p, "terminate") /\ Fed(p.cur)
    BY <1>6, <1>10, <2>1, Zenon
  <2> HIDE DEF p
  <2> QED
    BY <1>1, <1>10, <2>1, <2>2, BeginStop, Zenon
<1>11. CASE /\ mayCreate(o, u) /\ r' = fresh /\ ctr' = ctr
            /\ op' = IF scope.strategy = "ROLLOVER"
                       THEN [o EXCEPT !.role = "candidate"]
                       ELSE [o EXCEPT !.role = "current", !.repair = FALSE, !.started = FALSE]
            /\ \/ target = "FINALIZED" /\ queue' = rest /\ overflow' = lost /\ run' = run
               \/ run' = Published(fresh) /\ notify(rest, lost, Snapshot(target, prep, Published(fresh)))
  <2>1. u.target = "RUN" /\ op.role = "none" /\ op.cur = "RUN"
    BY <1>2, <1>4, <1>11, Zenon DEF mayCreate, Later
  <2>2. /\ op' \in OpType /\ op'.pc = "idle" /\ op'.cur = "RUN" /\ op'.role # "none"
        /\ op'.then = op.then
    BY <1>4, <1>11, <2>1, Zenon DEF OpType
  <2>3. Published(fresh) \in RunStatus \cup {None}
    BY Nothing, Zenon DEF fresh, initFreshRun, NoRunner, Published, RunStatus
  <2>4. /\ Snapshot(target, prep, Published(fresh)) \in Update
        /\ Snapshot(target, prep, Published(fresh)).target = target
    BY <1>0, <2>3, SnapshotIs, Zenon
  <2>5. Fed("RUN")
    BY <1>0, <1>1, <1>2, <1>5, <1>6, <1>11, <2>1, <2>4, NotifyIs, Zenon
  <2>6. run' = Published(r') \/ (target = "FINALIZED" /\ run' = run)
    BY <1>11, Zenon
  <2>7. r' = initFreshRun(scope.strategy = "ROLLOVER") /\ ctr' = ctr
    BY <1>11, Zenon DEF fresh
  <2> QED
    BY <1>1, <2>1, <2>2, <2>5, <2>6, <2>7, CreateIs, Zenon
<1>12. CASE /\ u.target = "RUN" /\ op' = o /\ r' = r /\ ctr' = ctr
            /\ queue' = rest /\ overflow' = lost /\ run' = run
  <2>1. op.cur = "RUN"
    BY <1>2, <1>12, Zenon DEF Later
  <2>2. OpInv'
    BY <1>4, <1>8, <1>12, <2>1, Zenon DEF IInv, OpInv
  <2>3. Left'
    BY <1>1, <1>4, <1>12, <2>1, Zenon DEF IInv, Left, NoneOwned
  <2>4. OperatorAlone
    BY <1>1, <1>4, <1>7, <1>12, Zenon DEF OperatorAlone
  <2>5. Fed(op'.cur)
    BY <1>4, <1>6, <1>12, Zenon
  <2> QED
    BY <1>0, <1>1, <1>12, <2>2, <2>3, <2>4, <2>5, OperatorStep, Zenon
<1> QED
  BY <1>3, <1>9, <1>10, <1>11, <1>12, Zenon

\* The agent starts: a runner is picked up again exactly where one was recorded.
LEMMA BootStep ==
  ASSUME IInv, Boot, scope' = scope
  PROVE  IInv'
<1>0. /\ target \in Targets /\ prep \in PrepStates \cup {None} /\ run \in RunStatus \cup {None}
      /\ ctr \in [Runs -> ContainerStates] /\ boots \in Nat
  BY Zenon DEF IInv, TypeOK
<1> DEFINE mode == IF target = "RUN" THEN "reattachRunning" ELSE "reattachStopped"
<1>1. /\ op.pc = "down" /\ target # "FINALIZED" /\ boots' = boots + 1
      /\ queue' = <<Snapshot(target, prep, run)>> /\ overflow' = FALSE
      /\ op' = [Down EXCEPT !.pc = "boot", !.cur = target, !.role = IF run = None THEN "none" ELSE "current"]
      /\ r' = IF run = None THEN NoRunner ELSE reAttachContainerRunner(run, mode)
      /\ target' = target /\ prep' = prep /\ run' = run /\ ctr' = ctr /\ signalled' = signalled
      /\ orphans' = orphans
  BY Zenon DEF Boot, world
<1>2. mode \in {"reattachRunning", "reattachStopped"} /\ 0 \in 0..MaxRun /\ 0 \in Nat
  BY Nothing
<1> HIDE DEF mode
<1>3. run # None => run.st \in RunStates /\ run.pid \in BOOLEAN /\ run.restarts \in Nat
  BY <1>0, Zenon DEF RunStatus, RunStates
<1>4. /\ op' \in OpType /\ op'.pc = "boot" /\ op'.cur = target /\ op'.then = None
      /\ op'.role = IF run = None THEN "none" ELSE "current"
  BY <1>0, <1>1, <1>2, Zenon DEF Down, OpType
<1>5. /\ r' \in RunnerType /\ r'.pc = (IF run = None THEN "none" ELSE mode)
      /\ r'.n = 0 /\ r'.stopping = FALSE /\ r'.cancelled = FALSE /\ r'.adopted = FALSE
      /\ r'.pending = FALSE /\ r'.expired = FALSE /\ r'.ready = None /\ r'.missing = FALSE
  <2>1. CASE run = None
    BY <1>1, <1>2, <2>1, Zenon DEF NoRunner, RunnerType, RunnerPcs, RunStates
  <2>2. CASE run # None
    BY <1>1, <1>2, <1>3, <2>2, Zenon DEF reAttachContainerRunner, NoRunner, RunnerType, RunnerPcs, RunStates
  <2> QED
    BY <2>1, <2>2, Zenon
<1>6. queue' \in Seq(Update) /\ Leads(target, queue', target)
  <2>1. Snapshot(target, prep, run) \in Update /\ Snapshot(target, prep, run).target = target
    BY <1>0, SnapshotIs, Zenon
  <2>2. Later(target, target)
    BY <1>0, Zenon DEF Later, Targets
  <2>3. queue' \in Seq(Update) /\ Len(queue') = 1 /\ queue'[1] = Snapshot(target, prep, run)
    BY <1>1, <2>1
  <2> QED
    BY <2>1, <2>2, <2>3 DEF Leads
<1>7. TypeOK'
  <2>1. boots' \in Nat
    BY <1>0, <1>1
  <2> QED
    BY <1>0, <1>1, <1>4, <1>5, <1>6, <2>1, Zenon DEF TypeOK
<1>8. QueueInv'
  BY <1>1, <1>4, <1>6, Zenon DEF QueueInv
<1>9. OpInv'
  <2>1. None # "finalized" /\ None # "terminate"
    BY Nothing, Zenon DEF Follows
  <2> QED
    BY <1>4, <1>5, <2>1, Zenon DEF OpInv
<1>10. Clean'
  BY <1>1, <1>2, <1>5, Zenon DEF IInv, Clean, OneContainer
<1>11. Numbers' /\ Charge'
  <2>1. None \notin {"ok", "failed", "missing"}
    BY Nothing, Zenon DEF Outcomes
  <2>2. r'.pc \in {"none", "reattachRunning", "reattachStopped"}
    BY <1>2, <1>5, Zenon
  <2> QED
    BY <1>5, <2>1, <2>2, Zenon DEF Numbers, Charge, Busy
<1>12. NoneYet' /\ Left'
  <2>1. run = None => NoneRunning
    BY <1>1, Zenon DEF IInv, NoneYet
  <2>2. run' = run /\ ctr' = ctr
    BY <1>1, Zenon
  <2>3. CASE run = None
    <3>1. r'.pc = "none" /\ NoneRunning' /\ NoneOwned'
      BY <1>5, <2>1, <2>2, <2>3, Zenon DEF NoneRunning, NoneOwned
    <3> QED
      BY <3>1, Zenon DEF NoneYet, Left
  <2>4. CASE run # None
    <3>1. r'.pc # "none" /\ run' # None /\ op'.role # "none"
      BY <1>2, <1>4, <1>5, <2>2, <2>4, Zenon
    <3> QED
      BY <3>1, Zenon DEF NoneYet, Left
  <2> QED
    BY <2>3, <2>4, Zenon
<1>13. ReadyInv'
  <2>1. boots' # 0 /\ (boots' <= 1 => boots = 0 /\ boots <= 1)
    BY <1>0, <1>1
  <2>2. scope.strategy = "ROLLOVER" /\ boots' <= 1 => run = None
    BY <2>1, Zenon DEF IInv, ReadyInv
  <2>3. run' = run
    BY <1>1, Zenon
  <2>4. run = None => r'.pc = "none" /\ r'.adopted = FALSE
    BY <1>5, Zenon
  <2> QED
    BY <2>1, <2>2, <2>3, <2>4, Zenon DEF ReadyInv
<1> QED
  BY <1>7, <1>8, <1>9, <1>10, <1>11, <1>12, <1>13, Zenon DEF IInv

-----------------------------------------------------------------------------
(* The environment.                                                          *)

\* A target moves forward only, so what the operator still has to see stays in order.
LEMMA LeadsOn ==
  ASSUME NEW c \in Targets, NEW q \in Seq(Update), NEW t \in Targets, NEW s \in Targets,
         Leads(c, q, t), Later(t, s)
  PROVE  Leads(c, q, s)
<1>1. \A a, b, d \in Targets : Later(a, b) /\ Later(b, d) => Later(a, d)
  BY DEF Later, Targets
<1>2. \A i \in 1..Len(q) : q[i].target \in Targets
  <2>1. \A i \in 1..Len(q) : q[i] \in Update
    OBVIOUS
  <2>2. \A v \in Update : v.target \in Targets
    BY Zenon DEF Update
  <2> QED
    BY <2>1, <2>2, Zenon
<1> QED
  BY <1>1, <1>2, Zenon DEF Leads

\* An assignment snapshot moves the target.
LEMMA AssignStep ==
  ASSUME IInv, MustApplyAssignments, scope' = scope
  PROVE  IInv'
<1>0. /\ target \in Targets /\ prep \in PrepStates \cup {None} /\ run \in RunStatus \cup {None}
      /\ ctr \in [Runs -> ContainerStates] /\ queue \in Seq(Update) /\ overflow \in BOOLEAN
      /\ op.cur \in Targets
  BY Zenon DEF IInv, TypeOK, OpType
<1>1. /\ op.pc # "down" /\ target # "FINALIZED" /\ target' \in {"TERMINATE", "FINALIZED"}
      /\ target' = "TERMINATE" => target = "RUN"
      /\ notify(queue, overflow, Snapshot(target', prep, run))
      /\ prep' = prep /\ run' = run /\ op' = op /\ r' = r /\ ctr' = ctr /\ signalled' = signalled
      /\ orphans' = orphans
      /\ boots' = boots
  BY Zenon DEF MustApplyAssignments, world
<1>2. Later(target, target') /\ target' \in Targets
  BY <1>0, <1>1, Zenon DEF Later, Targets
<1>3. Leads(op.cur, queue, target')
  BY <1>0, <1>1, <1>2, LeadsOn, Zenon DEF IInv, QueueInv
<1>4. Snapshot(target', prep, run) \in Update /\ Snapshot(target', prep, run).target = target'
  BY <1>0, <1>2, SnapshotIs, Zenon
<1>5. Fed(op.cur)
  BY <1>0, <1>1, <1>2, <1>3, <1>4, NotifyIs, Zenon
<1>6. Kept
  BY <1>0, <1>1, Zenon DEF Kept, Fewer
<1>7. /\ Clean' /\ Numbers' /\ Charge' /\ (NoneRunning => NoneRunning')
      /\ (NoneOwned => NoneOwned')
  BY <1>1, <1>6, RunnerRests, Zenon
<1>8. TypeOK'
  BY <1>1, <1>2, <1>5, Zenon DEF IInv, TypeOK, Fed
<1>9. QueueInv'
  BY <1>1, <1>5, Zenon DEF QueueInv, Fed
<1>10. OpInv' /\ ReadyInv' /\ Left'
  BY <1>1, <1>7, Zenon DEF IInv, OpInv, ReadyInv, Left
<1>11. NoneYet'
  BY <1>1, <1>7, Zenon DEF IInv, NoneYet
<1> QED
  BY <1>7, <1>8, <1>9, <1>10, <1>11, Zenon DEF IInv

\* The states of an agent that is down.
LEMMA DownIs ==
  /\ Down \in OpType /\ Down.pc = "down" /\ Down.role = "none" /\ Down.then = None
  /\ NoRunner \in RunnerType /\ NoRunner.pc = "none" /\ NoRunner.cancelled = FALSE
  /\ NoRunner.adopted = FALSE /\ NoRunner.pending = FALSE /\ NoRunner.expired = FALSE
  /\ NoRunner.missing = FALSE /\ NoRunner.ready = None
  /\ None \notin {"ok", "failed", "missing", "terminate", "finalized"}
<1>1. 0 \in 0..MaxRun /\ 0 \in Nat
  BY Nothing
<1>2. None \notin {"ok", "failed", "missing", "terminate", "finalized"}
  BY Nothing, Zenon DEF Outcomes, Follows
<1>3. Down \in OpType /\ NoRunner \in RunnerType
  BY <1>1, Zenon DEF Down, OpType, Targets, NoRunner, RunnerType, RunnerPcs, RunStates
<1> QED
  BY <1>2, <1>3, Zenon DEF Down, NoRunner

\* What an agent that is down says of itself.
LEMMA DownInv ==
  ASSUME op' = Down, r' = NoRunner
  PROVE  QueueInv' /\ OpInv' /\ Numbers' /\ Charge' /\ Left'
<1>1. QueueInv' /\ Left'
  BY DownIs, Zenon DEF QueueInv, Left
<1>2. OpInv'
  BY DownIs, Zenon DEF OpInv
<1>3. Numbers' /\ Charge'
  BY DownIs, Zenon DEF Numbers, Charge, Busy
<1> QED
  BY <1>1, <1>2, <1>3, Zenon

\* The agent dies; its containers do not.
LEMMA CrashStep ==
  ASSUME IInv, Crash, scope' = scope
  PROVE  IInv'
<1>1. /\ op.pc # "down" /\ op' = Down /\ r' = NoRunner /\ queue' = <<>> /\ overflow' = FALSE
      /\ target' = target /\ prep' = prep /\ run' = run /\ ctr' = ctr /\ signalled' = signalled
      /\ boots' = boots
  BY Zenon DEF Crash, world, budgets
<1>2. QueueInv' /\ OpInv' /\ Numbers' /\ Charge' /\ Left'
  BY <1>1, DownInv, Zenon
<1>3. TypeOK'
  <2>1. queue' \in Seq(Update)
    BY <1>1
  <2> QED
    BY <1>1, <2>1, DownIs, Zenon DEF IInv, TypeOK
<1>4. Clean'
  BY <1>1, DownIs, Zenon DEF IInv, Clean, OneContainer
<1>5. NoneYet'
  BY <1>1, DownIs, Zenon DEF IInv, NoneYet, NoneRunning
<1>6. ReadyInv'
  BY <1>1, DownIs, Zenon DEF IInv, ReadyInv
<1> QED
  BY <1>2, <1>3, <1>4, <1>5, <1>6, Zenon DEF IInv

\* The readiness deadline passes.
LEMMA DeadlineStep ==
  ASSUME IInv, ReadinessDeadline, scope' = scope
  PROVE  IInv'
<1>0. r \in RunnerType
  BY Zenon DEF IInv, TypeOK
<1>1. /\ r' = [r EXCEPT !.expired = TRUE] /\ UNCHANGED store /\ op' = op
      /\ ctr' = ctr /\ signalled' = signalled /\ orphans' = orphans /\ boots' = boots
  BY Zenon DEF ReadinessDeadline, world, budgets
<1>2. /\ r' \in RunnerType
      /\ r'.pc = r.pc /\ r'.restarts = r.restarts /\ r'.had = r.had /\ r'.n = r.n
      /\ r'.task = r.task /\ r'.stopping = r.stopping /\ r'.cancelled = r.cancelled
      /\ r'.adopted = r.adopted /\ r'.pending = r.pending /\ r'.expired = TRUE
      /\ r'.ready = r.ready /\ r'.why = r.why /\ r'.missing = r.missing
  BY <1>0, <1>1, Zenon DEF RunnerType
<1>3. Stored /\ run' = run
  BY <1>1, Unwritten, Zenon
<1>4. TypeOK'
  BY <1>1, <1>2, <1>3, Zenon DEF IInv, TypeOK, Stored, Fed
<1>5. QueueInv'
  BY <1>1, <1>3, Zenon DEF QueueInv, Stored, Fed
<1>6. OpInv'
  BY <1>1, <1>2, Zenon DEF IInv, OpInv
<1>7. Clean'
  BY <1>1, <1>2, Zenon DEF IInv, Clean, OneContainer
<1>8. Numbers'
  <2>1. Numbers
    BY Zenon DEF IInv
  <2>2. Upcoming' = Upcoming
    BY <1>2, Zenon DEF Upcoming
  <2> QED
    BY <1>2, <2>1, <2>2, ZenonT(40) DEF Numbers
<1>9. Charge'
  <2>1. Charge
    BY Zenon DEF IInv
  <2>2. NoneOwned' = NoneOwned /\ OnlyOwned(r.n)' = OnlyOwned(r.n)
    BY <1>1, <1>2, Zenon DEF NoneOwned, OnlyOwned
  <2> QED
    BY <1>2, <2>1, <2>2, Zenon DEF Charge
<1>10. NoneYet' /\ Left'
  BY <1>1, <1>2, <1>3, Zenon DEF IInv, NoneYet, NoneRunning, NoneOwned, Left, Stored
<1>11. ReadyInv'
  BY <1>1, <1>2, <1>3, Zenon DEF IInv, ReadyInv
<1> QED
  BY <1>4, <1>5, <1>6, <1>7, <1>8, <1>9, <1>10, <1>11, Zenon DEF IInv

-----------------------------------------------------------------------------
(* What holds of a placement.                                                *)

\* A placement begins with nothing.
LEMMA InitIInv == Init => IInv
<1> SUFFICES ASSUME Init PROVE IInv
  OBVIOUS
<1>1. /\ target = "RUN" /\ prep = None /\ run = None /\ queue = <<>> /\ overflow = FALSE
      /\ op = Down /\ r = NoRunner /\ ctr = [n \in Runs |-> "none"] /\ signalled = FALSE /\ boots = 0
  BY Zenon DEF Init
<1>2. ctr \in [Runs -> ContainerStates] /\ \A m \in Runs : ctr[m] = "none"
  BY <1>1 DEF ContainerStates
<1>3. queue \in Seq(Update) /\ boots \in Nat
  BY <1>1
<1>4. TypeOK
  BY <1>1, <1>2, <1>3, DownIs, Zenon DEF TypeOK, Targets
<1>5. QueueInv /\ Left
  BY <1>1, DownIs, Zenon DEF QueueInv, Left
<1>6. OpInv
  BY <1>1, DownIs, Zenon DEF OpInv
<1>7. Numbers /\ Charge
  BY <1>1, DownIs, Zenon DEF Numbers, Charge, Busy
<1>8. Clean /\ NoneYet
  BY <1>1, <1>2, DownIs, Zenon DEF Clean, OneContainer, Alive, NoneYet, NoneRunning
<1>9. ReadyInv
  BY <1>1, DownIs, Zenon DEF ReadyInv
<1> QED
  BY <1>4, <1>5, <1>6, <1>7, <1>8, <1>9, Zenon DEF IInv

\* Every step of the run loop, whatever the other goroutines are at.
LEMMA RunnerNext ==
  ASSUME IInv, Runner, scope' = scope
  PROVE  IInv'
BY ReattachRunStep, ReattachStopStep, StopAdoptedStep, LoopStep, RunTaskStep, TaskStartedStep,
   WaitStep, FailStep, ExitedStep, BackoffStep, Zenon DEF Runner

\* Every step of the operator.
LEMMA OperatorNext ==
  ASSUME IInv, Operator, scope' = scope
  PROVE  IInv'
BY ReconcileStep, MissingStep, CandidateStep, StopKillStep, StopJoinStep, CancelStep, BootStep,
   Zenon DEF Operator

\* Every step of the environment.
LEMMA EnvironmentNext ==
  ASSUME IInv, Environment, scope' = scope
  PROVE  IInv'
BY AssignStep, CrashStep, ExitStep, DeadlineStep, Zenon DEF Environment

\* The invariant is inductive.
LEMMA NextIInv == IInv /\ [Next]_<<vars, scope>> => IInv'
<1> SUFFICES ASSUME IInv, [Next]_<<vars, scope>> PROVE IInv'
  OBVIOUS
<1>1. CASE Next
  BY <1>1, PrepareStep, RunnerNext, OperatorNext, EnvironmentNext, Zenon DEF Next
<1>2. CASE UNCHANGED <<vars, scope>>
  <2>1. /\ UNCHANGED store /\ op' = op /\ r' = r /\ ctr' = ctr /\ signalled' = signalled /\ orphans' = orphans
        /\ boots' = boots /\ scope' = scope
    BY <1>2, Zenon DEF vars, world, budgets
  <2>2. Stored /\ run' = run
    BY <2>1, Unwritten, Zenon
  <2>3. Kept
    BY <2>1, Zenon DEF Kept, Fewer, IInv, TypeOK
  <2> QED
    BY <2>1, <2>2, <2>3, OthersStep, Zenon
<1> QED
  BY <1>1, <1>2, Zenon

\* What the operator, the run loop and the containers may rely on of each other holds
\* in every interleaving, for every number of runs, exits, faults and agent restarts
\* (operator.go, container.go).
THEOREM Invariance == Spec => []IInv
<1>1. Init => IInv
  BY InitIInv
<1>2. IInv /\ [Next]_<<vars, scope>> => IInv'
  BY NextIInv
<1> QED
  BY <1>1, <1>2, PTL DEF Spec

\* A placement never has two processes, however respawns, failed readiness, repairs
\* and agent restarts interleave (removeStaleContainers, adoptTask).
THEOREM NeverTwo == Spec => []OneContainer
<1>1. IInv => OneContainer
  BY Zenon DEF IInv, Clean
<1> QED
  BY <1>1, Invariance, PTL

\* While the agent is up and Stop has not given up on the runner, a running container
\* is the one the run loop is in charge of, or about to adopt, unless a Stop or a lost
\* monitor left it behind (run, adoptTask).
THEOREM NoOrphan == Spec => []Supervised
<1>1. IInv => Supervised
  <2> SUFFICES ASSUME IInv, NEW n \in Runs, n \notin orphans, ctr[n] = "running", op.pc # "down",
                      ~r.stopping, r.pc \notin {"reattachRunning", "reattachStopped"}
               PROVE  r.n = n /\ r.pc \notin {"none", "done"}
    BY Zenon DEF Supervised
  <2>1. r.pc \in RunnerPcs
    BY Zenon DEF IInv, TypeOK, RunnerType
  <2>2. r.pc # "none"
    BY Zenon DEF IInv, NoneYet, NoneRunning
  <2>3. r.pc \notin {"failReadiness", "gaveUp", "done"}
    BY Zenon DEF IInv, Charge, NoneOwned
  <2>4. r.pc \in Busy \cup {"loop", "backoff"}
    BY <2>1, <2>2, <2>3, Zenon DEF RunnerPcs, Busy
  <2> QED
    BY <2>2, <2>3, <2>4, Zenon DEF IInv, Charge, OnlyOwned
<1> QED
  BY <1>1, Invariance, PTL

\* A ROLLOVER placement is not RUNNING before one of its containers has signalled
\* readiness (waitForReadiness, taskStarted).
THEOREM ReadyFirst == Spec => []RunningWasReady
<1>1. IInv => RunningWasReady
  <2> SUFFICES ASSUME IInv, scope.strategy = "ROLLOVER", boots = 1, run # None, run.st = "RUNNING"
               PROVE  signalled
    BY Zenon DEF RunningWasReady
  <2>1. boots <= 1
    OBVIOUS
  <2> QED
    BY <2>1, Zenon DEF IInv, ReadyInv
<1> QED
  BY <1>1, Invariance, PTL

\* A step of the operator once TERMINATE is dealt with: an update that says RUN
\* cannot come after one that does not.
LEMMA QuietReconcile ==
  ASSUME IInv, reconcile, op.pc = "idle", op.cur = "TERMINATE"
  PROVE  run' = run /\ ctr' = ctr
<1> DEFINE u == IF queue = <<>> THEN Snapshot(target, prep, run) ELSE Head(queue)
           o == [op EXCEPT !.pc = "idle", !.cur = u.target,
                           !.started = @ \/ (op.repair /\ u.prep \notin {None, "READY"})]
           rest == IF queue = <<>> THEN <<>> ELSE Tail(queue)
<1>1. Later(op.cur, u.target)
  BY UpdateNext, Zenon
<1>2. u.target # "RUN"
  BY <1>1, Zenon DEF Later
<1>3. \/ u.target = "FINALIZED" /\ run' = run /\ ctr' = ctr
      \/ beginStop([o EXCEPT !.st = u.run], "terminate") /\ run' = run
      \/ u.target = "RUN"
  BY Zenon DEF reconcile, mayCreate
<1>4. o.role = "none" /\ [o EXCEPT !.st = u.run].role = "none"
  <2>1. op \in OpType /\ op.role = "none"
    BY Zenon DEF IInv, TypeOK, OpInv
  <2> HIDE DEF u
  <2> QED
    BY <2>1, Zenon DEF OpType
<1> HIDE DEF u, o
<1> QED
  BY <1>2, <1>3, <1>4, Zenon DEF beginStop

\* Once the operator has dealt with TERMINATE nothing revives the placement: the
\* published runner status no longer changes and no container starts, whatever the
\* preparation that was left running still publishes (reconcile).
THEOREM StaysTerminated == Spec => TerminatedQuiet
<1> DEFINE Quiet == op.pc = "idle" /\ op.cur = "TERMINATE" =>
                      run' = run /\ \A n \in Runs : ctr'[n] = "running" => ctr[n] = "running"
<1>1. IInv /\ [Next]_<<vars, scope>> => [Quiet]_vars
  <2> SUFFICES ASSUME IInv, Next, op.pc = "idle", op.cur = "TERMINATE"
               PROVE  run' = run /\ \A n \in Runs : ctr'[n] = "running" => ctr[n] = "running"
    BY Zenon
  <2>1. op.role = "none" /\ r.pc \in {"none", "done"}
    BY Zenon DEF IInv, OpInv
  <2>2. CASE prepare \/ retryRuntimeInputs
    <3>1. ctr' = ctr
      BY <2>2, Zenon DEF prepare, retryRuntimeInputs, world
    <3>2. run' = run
      BY <2>2, PublishesPrep, Zenon
    <3> QED
      BY <3>1, <3>2, Zenon
  <2>3. CASE Runner
    BY <2>1, <2>3, Zenon DEF Runner, reattachRunning, reattachStopped, stopAdoptedTask, loop, RunTask,
       taskStarted, waitForReadiness, failReadiness, taskExited, sleepBackoff
  <2>4. CASE Operator
    <3>1. reconcile
      BY <2>1, <2>4, Zenon DEF Operator, ArtifactMissing, candidateReady, StopKill, StopJoin, CancelDone, Boot
    <3> QED
      BY <3>1, QuietReconcile, Zenon
  <2>5. CASE Environment
    <3>1. CASE ContainerExit
      <4>1. run' = run /\ Kept
        BY <3>1, ExitsOnly, Zenon
      <4> QED
        BY <4>1, Zenon DEF Kept, Fewer
    <3>2. CASE MustApplyAssignments \/ Crash \/ ImageLost \/ ReadinessDeadline
      BY <3>2, Zenon DEF MustApplyAssignments, Crash, ImageLost, ReadinessDeadline, world, store
    <3> QED
      BY <2>5, <3>1, <3>2, Zenon DEF Environment
  <2> QED
    BY <2>2, <2>3, <2>4, <2>5, Zenon DEF Next
<1> QED
  BY <1>1, Invariance, PTL DEF Spec, TerminatedQuiet
=============================================================================
