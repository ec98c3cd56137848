------------------------------- MODULE Engine -------------------------------
(***************************************************************************)
(* One placement on its node: the operator's reconcile loop, the preparer  *)
(* it starts, the container runner it owns and the placement's containers  *)
(* in containerd (lib/engine/operator.go, lib/engine/prepare/preparer.go,  *)
(* lib/engine/runner/container.go).                                        *)
(*                                                                         *)
(* A placement's config is pinned to one spec version, so "the spec        *)
(* version is newer than the runner's" means "there is no runner", and a   *)
(* placement never has two runner objects.  The three runnable targets are *)
(* one: what tells them apart is the inbound address.                      *)
(***************************************************************************)
EXTENDS Integers, Sequences, FiniteSetsExt

CONSTANTS MaxRun,      \* bound: run numbers
          Scopes,      \* the placements explored, see Scope
          None

\* A placement's upgrade strategy, the capacity of its operator's subscription,
\* and bounds: containers that exit by themselves; failed prepares, starts,
\* listeners, monitors and claims, and lost images; starts of the agent process.
Scope == [strategy : {"RECREATE", "ROLLOVER"}, buffer : Nat \ {0},
          exits : Nat, faults : Nat, boots : Nat \ {0}]

\* What a runner publishes.
RunStatus == [st : {"STARTING", "RUNNING", "CRASHED", "STOPPED"}, pid : BOOLEAN, restarts : Nat]

\* What a candidate's readiness may turn out to be, and what may follow a Stop or
\* a Cancel.
Outcomes == {"ok", "failed", "missing"}
Follows == {"terminate", "finalized", "missing", "failed"}

ASSUME EngineAssumption ==
  /\ MaxRun \in Nat \ {0} /\ Scopes \subseteq Scope
  /\ None \notin RunStatus \cup Outcomes \cup Follows

VARIABLES target,    \* the assignment's target in the node's store: RUN, TERMINATE or FINALIZED
          prep,      \* persisted preparer rollup: RESOLVING, BUILDING, READY or FAILED, or None
          run,       \* persisted runner status, or None: STARTING, RUNNING, CRASHED or STOPPED
          queue,     \* updates the operator has not received yet
          overflow,  \* the subscription was closed with updates lost
          op,        \* the operator's goroutine
          preparer,  \* the preparation goroutine
          r,         \* the runner object and its run loop
          ctr,       \* the placement's containers by run number: none, running, term (SIGTERM
             \* was delivered, which a process may ignore) or exited
          image,     \* the artifact is in containerd
          signalled, \* history: a container has signalled readiness
          orphans,   \* history: runs a Stop or a lost monitor has left behind
          exits, faults, boots,
          scope      \* the placement this behaviour is about

store == <<target, prep, run, queue, overflow>>
world == <<ctr, image, signalled, orphans>>
budgets == <<exits, faults, boots>>
vars == <<store, op, preparer, r, world, budgets>>

Runs == 1..MaxRun
Alive(c, n) == c[n] \in {"running", "term"}

Fault == faults < scope.faults /\ faults' = faults + 1

-----------------------------------------------------------------------------
(* The node's store: every accepted write is one update to the operator. *)

Snapshot(t, p, s) == [target |-> t, prep |-> p, run |-> IF s = None THEN None ELSE s.st]

\* Delivery into the subscription as it is, q with lost saying whether it is closed.
notify(q, lost, u) ==
  /\ queue' = IF lost \/ Len(q) = scope.buffer THEN q ELSE Append(q, u)
  /\ overflow' = (lost \/ Len(q) = scope.buffer)

\* The store has forgotten a finalized placement and drops its late writes.
MustWriteScheduledInstanceStatus(p, s) ==
  IF target = "FINALIZED"
    THEN UNCHANGED store
    ELSE prep' = p /\ run' = s /\ notify(queue, overflow, Snapshot(target, p, s)) /\ UNCHANGED target

\* An assignment snapshot moves the target; a row that has become FINALIZED, or
\* is gone from the snapshot, ends the placement.
MustApplyAssignments ==
  /\ op.pc # "down"
  /\ \/ target = "RUN" /\ target' = "TERMINATE" /\ UNCHANGED faults
     \/ target = "TERMINATE" /\ run # None /\ run.st = "STOPPED"
        /\ target' = "FINALIZED" /\ UNCHANGED faults
     \/ target # "FINALIZED" /\ Fault /\ target' = "FINALIZED"
  /\ notify(queue, overflow, Snapshot(target', prep, run))
  /\ UNCHANGED <<prep, run, op, preparer, r, world, exits, boots>>

-----------------------------------------------------------------------------
(* Preparation. *)

Idle == [pc |-> "idle", cancelled |-> FALSE]

startPreparer == [pc |-> "begin", cancelled |-> FALSE]

\* A write that would change nothing is dropped.
WriteStatus(p) ==
  IF p = prep THEN UNCHANGED store ELSE MustWriteScheduledInstanceStatus(p, run)

\* Inputs first, then the image.  Each stage publishes as it starts, and the
\* result is published whether or not the run was cancelled meanwhile.
prepare ==
  /\ preparer.pc \in {"begin", "inputs", "image"}
  /\ \/ /\ preparer.pc = "begin"
        /\ WriteStatus("RESOLVING")
        /\ preparer' = [preparer EXCEPT !.pc = "inputs"]
        /\ UNCHANGED <<image, faults>>
     \/ /\ preparer.pc = "inputs" /\ ~preparer.cancelled
        /\ WriteStatus("BUILDING")
        /\ preparer' = [preparer EXCEPT !.pc = "image"]
        /\ UNCHANGED <<image, faults>>
     \/ /\ preparer.pc = "image"
        /\ WriteStatus("READY")
        /\ image' = TRUE
        /\ preparer' = Idle
        /\ UNCHANGED faults
     \/ /\ \/ Fault
           \/ preparer.pc # "begin" /\ preparer.cancelled /\ UNCHANGED faults
        /\ WriteStatus("FAILED")
        /\ preparer' = Idle
        /\ UNCHANGED image
  /\ UNCHANGED <<op, r, ctr, signalled, orphans, exits, boots>>

\* The retry leaves the READY rollup alone; each of its writes is an update.
retryRuntimeInputs ==
  /\ \/ /\ preparer.pc = "retry"
        /\ MustWriteScheduledInstanceStatus(prep, run)
        /\ preparer' = [preparer EXCEPT !.pc = "retrying"]
     \/ /\ preparer.pc = "retrying" /\ ~preparer.cancelled
        /\ MustWriteScheduledInstanceStatus(prep, run)
        /\ preparer' = Idle
     \/ /\ preparer.pc = "retrying" /\ preparer.cancelled
        /\ preparer' = Idle
        /\ UNCHANGED store
  /\ UNCHANGED <<op, r, world, budgets>>

-----------------------------------------------------------------------------
(* The container runner.  st, pid and restarts are its status record, had    *)
(* is the run loop's hadProcess, task the run number of r.task (0: nil) and  *)
(* ready the outcome in readyCh.                                             *)

NoRunner == [pc |-> "none", st |-> "STOPPED", pid |-> FALSE, restarts |-> 0,
             had |-> FALSE, n |-> 0, task |-> 0, stopping |-> FALSE,
             cancelled |-> FALSE, adopted |-> FALSE, pending |-> FALSE,
             expired |-> FALSE, ready |-> None, why |-> None, missing |-> FALSE]

Published(x) == [st |-> x.st, pid |-> x.pid, restarts |-> x.restarts]

\* x is the runner with everything but its status settled.
updateStatus(x, st, pid) ==
  LET y == [x EXCEPT !.st = st, !.pid = pid]
  IN  r' = y /\ MustWriteScheduledInstanceStatus(prep, Published(y))

\* initFreshRun: run numbers start over.
initFreshRun(candidate) == [NoRunner EXCEPT !.pc = "loop", !.st = "STARTING", !.pending = candidate]

\* Mutant: only a runner recorded as RUNNING is picked up again.
reAttachRecordedRunning(s, mode) ==
  [NoRunner EXCEPT !.pc = IF s.st = "RUNNING" THEN mode ELSE "done",
                   !.st = s.st, !.pid = s.pid, !.restarts = s.restarts]

reAttachContainerRunner(s, mode) ==
  [NoRunner EXCEPT !.pc = mode, !.st = s.st, !.pid = s.pid, !.restarts = s.restarts]

\* containerd refuses to delete a task that has not stopped.
deleteTask(c, n) == IF n # 0 /\ c[n] = "exited" THEN [c EXCEPT ![n] = "none"] ELSE c
SIGTERM(c, n) == IF n # 0 /\ c[n] = "running" THEN [c EXCEPT ![n] = "term"] ELSE c
SIGKILL(c, n) == IF n # 0 /\ Alive(c, n) THEN [c EXCEPT ![n] = "exited"] ELSE c

\* Every call a runner makes under a cancelled context fails.
ListContainerIDs == IF r.cancelled THEN {} ELSE {n \in Runs : ctr[n] # "none"}

\* Mutant: leftovers of other runs are kept.
RemoveNone(n) == IF n = 0 THEN ctr ELSE [ctr EXCEPT ![n] = @]

RemoveAllBut(n) == [m \in Runs |-> IF m \in ListContainerIDs \ {n} THEN "none" ELSE ctr[m]]

\* Mutant: a respawn leaves the earlier containers alone.
removeNoStale(n) == RemoveNone(n)

removeStaleContainers(n) == RemoveAllBut(n)

\* adoptTask: the newest run wins; a newest run that has exited still spends
\* its number.
best == IF ListContainerIDs = {} THEN 0 ELSE Max(ListContainerIDs)
Adoptable == best # 0 /\ Alive(ctr, best)
Adopted == [r EXCEPT !.restarts = best - 1, !.n = best, !.task = best]
Missed == [r EXCEPT !.restarts = Max({@, best})]

\* shouldPublishStopped
publishStopped(x) ==
  IF x.st # "STOPPED" \/ x.pid THEN updateStatus(x, "STOPPED", FALSE)
                               ELSE r' = x /\ UNCHANGED store
reattachRunning ==
  /\ r.pc = "reattachRunning"
  /\ ctr' = RemoveAllBut(best)
  /\ \/ /\ Adoptable
        /\ updateStatus([Adopted EXCEPT !.pc = "running", !.adopted = TRUE], "RUNNING", TRUE)
        /\ UNCHANGED faults
     \/ /\ Adoptable /\ Fault             \* recoverContainerNet failed
        /\ r' = [Adopted EXCEPT !.pc = "dropAdopted"]
        /\ UNCHANGED store
     \/ /\ ~Adoptable
        /\ r' = [Missed EXCEPT !.pc = "loop", !.had = r.pid \/ r.st \in {"RUNNING", "STARTING"}]
        /\ UNCHANGED <<store, faults>>
  /\ UNCHANGED <<op, preparer, image, signalled, orphans, exits, boots>>

reattachStopped ==
  /\ r.pc = "reattachStopped"
  /\ ctr' = RemoveAllBut(best)
  /\ IF Adoptable
       THEN r' = [Adopted EXCEPT !.pc = "stopAdopted"] /\ UNCHANGED store
       ELSE publishStopped([Missed EXCEPT !.pc = "done"])
  /\ UNCHANGED <<op, preparer, image, signalled, orphans, budgets>>

\* SIGTERM, SIGKILL three seconds later, delete.  Under a cancelled context the
\* wait returns at once, so neither the exit nor the SIGKILL is reached.
stopAdoptedTask ==
  /\ r.pc \in {"stopAdopted", "dropAdopted"}
  /\ ctr' = IF r.cancelled THEN deleteTask(SIGTERM(ctr, r.task), r.task)
                           ELSE deleteTask(SIGKILL(ctr, r.task), r.task)
  /\ IF r.pc = "stopAdopted"
       THEN publishStopped([r EXCEPT !.pc = "done", !.task = 0])
       ELSE updateStatus([r EXCEPT !.pc = "loop", !.task = 0, !.had = TRUE], "CRASHED", FALSE)
  /\ UNCHANGED <<op, preparer, image, signalled, orphans, budgets>>

\* The head of the run loop.  The environment and the issued certificates are
\* resolved before the containers of earlier runs are removed.
loop ==
  /\ r.pc = "loop"
  /\ \/ /\ r.stopping
        /\ updateStatus([r EXCEPT !.pc = "done"], "STOPPED", FALSE)
        /\ UNCHANGED <<ctr, faults>>
     \/ /\ ~r.stopping /\ r.pending /\ r.expired
        /\ r' = [r EXCEPT !.pc = "failReadiness", !.why = "failed"]
        /\ UNCHANGED <<store, ctr, faults>>
     \/ /\ ~r.stopping /\ ~(r.pending /\ r.expired)
        /\ LET restarts == IF r.had THEN r.restarts + 1 ELSE r.restarts
           IN  /\ restarts < MaxRun
               /\ \/ /\ r' = [r EXCEPT !.pc = "spawn", !.restarts = restarts, !.had = TRUE, !.n = restarts + 1]
                     /\ ctr' = removeStaleContainers(restarts + 1)
                     /\ UNCHANGED <<store, faults>>
                  \/ /\ Fault
                     /\ updateStatus([r EXCEPT !.pc = "backoff", !.restarts = restarts, !.had = TRUE], "CRASHED", FALSE)
                     /\ UNCHANGED ctr
  /\ UNCHANGED <<op, preparer, image, signalled, orphans, exits, boots>>

\* ctrd.RunTask, which first removes a container of its own name, and what can
\* fail between removeStaleContainers and it.
RunTask ==
  /\ r.pc = "spawn"
  /\ \/ /\ ~r.cancelled /\ image
        /\ ctr' = [ctr EXCEPT ![r.n] = "running"]
        /\ orphans' = orphans \ {r.n}
        /\ r' = [r EXCEPT !.pc = "started"]
        /\ UNCHANGED <<store, faults>>
     \/ /\ ~r.cancelled /\ ~image         \* ErrImageUnavailable
        /\ ctr' = [ctr EXCEPT ![r.n] = "none"]
        /\ updateStatus([r EXCEPT !.pc = IF r.pending THEN "failReadiness" ELSE "done",
                                  !.missing = TRUE, !.why = "missing"], "CRASHED", FALSE)
        /\ UNCHANGED <<orphans, faults>>
     \/ /\ \/ ~r.cancelled /\ Fault /\ ctr' \in {ctr, [ctr EXCEPT ![r.n] = "none"]}
           \/ r.cancelled /\ UNCHANGED <<ctr, faults>>
        /\ updateStatus([r EXCEPT !.pc = "backoff"], "CRASHED", FALSE)
        /\ UNCHANGED orphans
  /\ UNCHANGED <<op, preparer, image, signalled, exits, boots>>

\* Mutant: a candidate publishes RUNNING as soon as it is up.
taskStartedRunning ==
  /\ r.pc = "started"
  /\ updateStatus([r EXCEPT !.task = r.n, !.pc = IF r.pending THEN "warming" ELSE "running"], "RUNNING", TRUE)
  /\ UNCHANGED <<ctr, faults, op, preparer, image, signalled, orphans, exits, boots>>

\* setTask and the first status.  RUNNING is withheld from an unready candidate.
taskStarted ==
  /\ r.pc = "started"
  /\ \/ /\ updateStatus([r EXCEPT !.task = r.n, !.pc = IF r.pending THEN "warming" ELSE "running"],
                        IF r.pending THEN "STARTING" ELSE "RUNNING", TRUE)
        /\ UNCHANGED <<ctr, faults>>
     \/ /\ ~r.pending /\ Fault            \* claimInboundAddress failed
        /\ ctr' = deleteTask(SIGTERM(ctr, r.n), r.n)
        /\ updateStatus([r EXCEPT !.task = r.n, !.pc = "backoff"], "CRASHED", FALSE)
  /\ UNCHANGED <<op, preparer, image, signalled, orphans, exits, boots>>

\* Mutant: only success is handed to the operator.
notifyReadyOk(x, outcome) == [x EXCEPT !.ready = IF outcome = "ok" THEN outcome ELSE @]

\* notifyReady: the first outcome stays.
notifyReady(x, outcome) == [x EXCEPT !.ready = IF @ = None THEN outcome ELSE @]

\* An attempt that fails before the deadline is over like any other run.
readinessRetry(c) ==
  /\ ctr' = deleteTask(c, r.n)
  /\ updateStatus([r EXCEPT !.task = 0, !.pc = IF r.stopping THEN "done" ELSE "backoff"],
                  IF r.stopping THEN "STOPPED" ELSE "CRASHED", FALSE)
  /\ UNCHANGED signalled

\* monitorTask returns when the task has exited, the context is cancelled, or
\* containerd gave no answer for a minute: then the task counts as exited, and
\* what may still run is not signalled.
waitForReadiness ==
  /\ r.pc = "warming"
  /\ \/ /\ Alive(ctr, r.n)                \* readinessSignalled
        /\ updateStatus([notifyReady(r, "ok") EXCEPT !.pending = FALSE, !.pc = "running"], "RUNNING", TRUE)
        /\ signalled' = TRUE
        /\ UNCHANGED <<ctr, orphans, faults>>
     \/ /\ ctr[r.n] = "exited" \/ r.cancelled
        /\ readinessRetry(ctr)
        /\ UNCHANGED <<orphans, faults>>
     \/ /\ Alive(ctr, r.n) /\ ~r.cancelled /\ Fault
        /\ readinessRetry(ctr)
        /\ orphans' = orphans \cup {r.n}
     \/ /\ Fault                           \* the listener failed
        /\ readinessRetry(SIGTERM(ctr, r.n))
        /\ UNCHANGED orphans
     \/ /\ r.expired \/ r.cancelled       \* readinessGiveUp
        /\ ctr' = deleteTask(SIGTERM(ctr, r.n), r.n)
        /\ r' = [r EXCEPT !.task = 0, !.pc = "failReadiness", !.why = "failed"]
        /\ UNCHANGED <<store, signalled, orphans, faults>>
  /\ UNCHANGED <<op, preparer, image, exits, boots>>

\* failReadiness releases the operator first and publishes after.
failReadiness ==
  /\ \/ /\ r.pc = "failReadiness"
        /\ r' = [notifyReady(r, r.why) EXCEPT !.pending = FALSE, !.pc = "gaveUp"]
        /\ UNCHANGED store
     \/ /\ r.pc = "gaveUp"
        /\ LET want == IF r.stopping THEN "STOPPED" ELSE "CRASHED"
           IN  IF r.st = want /\ ~r.pid
                 THEN r' = [r EXCEPT !.pc = "done"] /\ UNCHANGED store
                 ELSE updateStatus([r EXCEPT !.pc = "done"], want, FALSE)
  /\ UNCHANGED <<op, preparer, world, budgets>>

\* monitorTask returned: the task exited, the context was cancelled, or
\* containerd gave no answer for a minute.  An adopted task respawns at once,
\* any other after a backoff with r.task still naming the exited run.
taskExited ==
  /\ r.pc = "running"
  /\ \/ (ctr[r.n] = "exited" \/ r.cancelled) /\ UNCHANGED faults
     \/ Alive(ctr, r.n) /\ ~r.cancelled /\ Fault
  /\ \/ /\ r.adopted
        /\ ctr' = deleteTask(ctr, r.n)
        /\ LET x == [r EXCEPT !.pc = "loop", !.task = 0, !.had = TRUE, !.adopted = FALSE]
           IN  IF r.stopping THEN r' = x /\ UNCHANGED store
                             ELSE updateStatus(x, "CRASHED", TRUE)
     \/ /\ ~r.adopted /\ r.stopping
        /\ updateStatus([r EXCEPT !.pc = "done"], "STOPPED", FALSE)
        /\ UNCHANGED ctr
     \/ /\ ~r.adopted /\ ~r.stopping
        /\ ctr' = deleteTask(ctr, r.n)
        /\ updateStatus([r EXCEPT !.pc = "backoff"], "CRASHED", TRUE)
  /\ UNCHANGED <<op, preparer, image, signalled, orphans, exits, boots>>

sleepBackoff ==
  /\ r.pc = "backoff"
  /\ \/ r' = [r EXCEPT !.pc = "loop"] /\ UNCHANGED store
     \/ r.cancelled /\ updateStatus([r EXCEPT !.pc = "done"], "STOPPED", FALSE)
  /\ UNCHANGED <<op, preparer, world, budgets>>

-----------------------------------------------------------------------------
(* The operator.  role says what the runner object is to it: its             *)
(* currentRunner, its candidate, or nothing (the Stopped sentinel).  then is *)
(* what follows the Stop or Cancel it is blocked in, task and st what that   *)
(* call captured.                                                            *)

Down == [pc |-> "down", cur |-> "RUN", role |-> "none", repair |-> FALSE,
         started |-> FALSE, then |-> None, task |-> 0, st |-> None]

\* Stop begins: the readiness waiter is released, the current task gets SIGTERM.
beginStop(o, then) ==
  IF o.role = "none"
    THEN /\ op' = [o EXCEPT !.pc = "join", !.then = then, !.task = 0]
         /\ UNCHANGED <<r, ctr>>
    ELSE /\ op' = [o EXCEPT !.pc = IF r.task = 0 THEN "kill" ELSE "wait", !.then = then, !.task = r.task]
         /\ r' = [notifyReady(r, "failed") EXCEPT !.stopping = TRUE]
         /\ ctr' = SIGTERM(ctr, r.task)

beginCancel(o, then) ==
  /\ op' = [o EXCEPT !.pc = "cancel", !.then = then]
  /\ preparer' = IF preparer.pc = "idle" THEN preparer ELSE [preparer EXCEPT !.cancelled = TRUE]

\* Mutant: the run loop's context is not cancelled.
StopKillOnly ==
  /\ op.pc \in {"wait", "kill"}
  /\ ctr' = SIGKILL(ctr, op.task)
  /\ op' = [op EXCEPT !.pc = "join"]
  /\ UNCHANGED <<store, r, preparer, image, signalled, orphans, budgets>>

\* The wait for the run loop after SIGTERM ran out, or there was no task to
\* signal: SIGKILL and cancel.
StopKill ==
  /\ op.pc \in {"wait", "kill"}
  /\ ctr' = SIGKILL(ctr, op.task)
  /\ r' = [r EXCEPT !.cancelled = TRUE]
  /\ op' = [op EXCEPT !.pc = "join"]
  /\ UNCHANGED <<store, preparer, image, signalled, orphans, budgets>>

\* Mutant: a runner that has reported is left to report its own end.
writeTerminalIfSilent ==
  IF op.st # None
    THEN UNCHANGED store
    ELSE MustWriteScheduledInstanceStatus(prep, [st |-> "STOPPED", pid |-> FALSE, restarts |-> 0])

writeTerminalStopped ==
  IF op.st = "STOPPED" \/ (run # None /\ run.st = "STOPPED")
    THEN UNCHANGED store
    ELSE MustWriteScheduledInstanceStatus(prep,
           [st |-> "STOPPED", pid |-> FALSE, restarts |-> IF run = None THEN 0 ELSE run.restarts])

\* The run loop is over: the captured task is deleted and Stop returns.
StopJoin ==
  /\ op.pc \in {"wait", "join"} /\ (op.role = "none" \/ r.pc = "done")
  /\ ctr' = deleteTask(ctr, op.task)
  /\ orphans' = orphans \cup {n \in Runs : Alive(ctr, n)}
  /\ LET o == [op EXCEPT !.pc = "idle", !.role = "none", !.then = None, !.task = 0, !.st = None]
     IN  \/ /\ op.then = "terminate"
            /\ writeTerminalStopped
            /\ op' = o
            /\ UNCHANGED preparer
         \/ /\ op.then = "finalized"
            /\ op' = [o EXCEPT !.pc = "off"]
            /\ UNCHANGED <<store, preparer>>
         \/ /\ op.then = "missing"
            /\ beginCancel(o, "missing")
            /\ UNCHANGED store
         \/ /\ op.then = "failed"
            /\ op' = o
            /\ UNCHANGED <<store, preparer>>
  /\ UNCHANGED <<r, image, signalled, budgets>>

\* preparer.Cancel returned.
CancelDone ==
  /\ op.pc = "cancel" /\ preparer.pc = "idle"
  /\ \/ /\ op.then = "finalized"
        /\ beginStop(op, "finalized")
        /\ UNCHANGED preparer
     \/ /\ op.then = "missing"
        /\ preparer' = startPreparer
        /\ op' = [op EXCEPT !.pc = "idle", !.then = None, !.repair = TRUE, !.started = FALSE]
        /\ UNCHANGED <<r, ctr>>
  /\ UNCHANGED <<store, image, signalled, orphans, budgets>>

\* Mutant: a repair accepts any READY.
mayCreateAtOnce(o, u) == u.target = "RUN" /\ u.prep = "READY" /\ o.role = "none"

\* Mutant: a repaired artifact is never picked up.
mayCreateUnrepaired(o, u) == u.target = "RUN" /\ u.prep = "READY" /\ o.role = "none" /\ ~o.repair

\* Mutant: a READY preparation starts a runner whatever the target.
mayCreateAnyTarget(o, u) ==
  u.target # "FINALIZED" /\ u.prep = "READY" /\ o.role = "none" /\ (~o.repair \/ o.started)

mayCreate(o, u) ==
  u.target = "RUN" /\ u.prep = "READY" /\ o.role = "none" /\ (~o.repair \/ o.started)

\* One update, or the resubscription's snapshot once the closed subscription is
\* drained.
reconcile ==
  /\ op.pc \in {"boot", "idle"} /\ (queue # <<>> \/ overflow)
  /\ LET u == IF queue = <<>> THEN Snapshot(target, prep, run) ELSE Head(queue)
         o == [op EXCEPT !.pc = "idle", !.cur = u.target,
                         !.started = @ \/ (op.repair /\ u.prep \notin {None, "READY"})]
         rest == IF queue = <<>> THEN <<>> ELSE Tail(queue)
         lost == overflow /\ queue # <<>>
     IN  \/ /\ u.target = "FINALIZED"
            /\ beginCancel(o, "finalized")
            /\ queue' = rest /\ overflow' = lost
            /\ UNCHANGED <<target, prep, run, r, ctr>>
         \/ /\ u.target = "TERMINATE"
            /\ beginStop([o EXCEPT !.st = u.run], "terminate")
            /\ queue' = rest /\ overflow' = lost
            /\ UNCHANGED <<target, prep, run, preparer>>
         \/ /\ mayCreate(o, u)
            /\ LET x == initFreshRun(scope.strategy = "ROLLOVER")
               IN  /\ r' = x
                   /\ op' = IF scope.strategy = "ROLLOVER"
                              THEN [o EXCEPT !.role = "candidate"]
                              ELSE [o EXCEPT !.role = "current", !.repair = FALSE, !.started = FALSE]
                   /\ IF target = "FINALIZED"
                        THEN queue' = rest /\ overflow' = lost /\ UNCHANGED run
                        ELSE run' = Published(x) /\ notify(rest, lost, Snapshot(target, prep, Published(x)))
            /\ UNCHANGED <<target, prep, preparer, ctr>>
         \/ /\ u.target = "RUN" /\ ~mayCreate(o, u)
            /\ op' = o
            /\ queue' = rest /\ overflow' = lost
            /\ UNCHANGED <<target, prep, run, preparer, r, ctr>>
  /\ UNCHANGED <<image, signalled, orphans, budgets>>

\* Only the current runner's channel is selected on; under another target the
\* operator has no current runner left, so the handler's early return is not met.
ArtifactMissing ==
  /\ op.pc = "idle" /\ op.role = "current" /\ r.missing /\ op.cur = "RUN"
  /\ beginStop(op, "missing")
  /\ UNCHANGED <<store, preparer, image, signalled, orphans, budgets>>

candidateReady ==
  /\ op.pc = "idle" /\ op.role = "candidate" /\ r.ready # None
  /\ \/ /\ r.ready = "ok"
        /\ op' = [op EXCEPT !.role = "current", !.repair = FALSE, !.started = FALSE]
        /\ UNCHANGED <<r, ctr, faults>>
     \/ /\ r.ready = "ok" /\ Fault        \* Promote failed
        /\ beginStop(op, "failed")
     \/ /\ r.ready = "failed" /\ UNCHANGED faults
        /\ beginStop(op, "failed")
     \/ /\ r.ready = "missing" /\ UNCHANGED faults
        /\ beginStop(op, IF op.cur = "RUN" THEN "missing" ELSE "failed")
  /\ UNCHANGED <<store, preparer, image, signalled, orphans, exits, boots>>

\* RunAll on a starting agent: reattach both halves, then reconcile the snapshot.
Boot ==
  /\ op.pc = "down" /\ target # "FINALIZED"
  /\ boots < scope.boots /\ boots' = boots + 1
  /\ queue' = <<Snapshot(target, prep, run)>> /\ overflow' = FALSE
  /\ op' = [Down EXCEPT !.pc = "boot", !.cur = target, !.role = IF run = None THEN "none" ELSE "current"]
  /\ r' = IF run = None THEN NoRunner
          ELSE reAttachContainerRunner(run, IF target = "RUN" THEN "reattachRunning" ELSE "reattachStopped")
  /\ \/ target # "RUN" /\ preparer' = Idle /\ UNCHANGED faults
     \/ /\ target = "RUN" /\ (prep # "READY" \/ ~image)
        /\ preparer' = startPreparer /\ UNCHANGED faults
     \/ /\ target = "RUN" /\ prep = "READY" /\ image
        /\ \/ preparer' = Idle /\ UNCHANGED faults
           \/ preparer' = [pc |-> "retry", cancelled |-> FALSE] /\ Fault
  /\ UNCHANGED <<target, prep, run, world, exits>>

-----------------------------------------------------------------------------
(* The environment. *)

\* The agent dies; its containers do not.
Crash ==
  /\ op.pc \notin {"down", "off"} /\ boots < scope.boots
  /\ op' = Down /\ preparer' = Idle /\ r' = NoRunner
  /\ queue' = <<>> /\ overflow' = FALSE
  /\ orphans' = {}
  /\ UNCHANGED <<target, prep, run, ctr, image, signalled, budgets>>

ContainerExit ==
  /\ \E n \in Runs :
       \/ ctr[n] = "running" /\ exits < scope.exits
          /\ ctr' = [ctr EXCEPT ![n] = "exited"] /\ exits' = exits + 1
       \/ ctr[n] = "term" /\ ctr' = [ctr EXCEPT ![n] = "exited"] /\ UNCHANGED exits
  /\ UNCHANGED <<store, op, preparer, r, image, signalled, orphans, faults, boots>>

ImageLost ==
  /\ image /\ Fault /\ image' = FALSE
  /\ UNCHANGED <<store, op, preparer, r, ctr, signalled, orphans, exits, boots>>

\* The deadline is at least a second ahead when the run loop starts.
ReadinessDeadline ==
  /\ r.pending /\ ~r.expired /\ r.had /\ r' = [r EXCEPT !.expired = TRUE]
  /\ UNCHANGED <<store, op, preparer, world, budgets>>

-----------------------------------------------------------------------------
Init ==
  /\ target = "RUN" /\ prep = None /\ run = None
  /\ queue = <<>> /\ overflow = FALSE
  /\ op = Down /\ preparer = Idle /\ r = NoRunner
  /\ ctr = [n \in Runs |-> "none"] /\ image = FALSE /\ signalled = FALSE /\ orphans = {}
  /\ exits = 0 /\ faults = 0 /\ boots = 0 /\ scope \in Scopes

Runner ==
  reattachRunning \/ reattachStopped \/ stopAdoptedTask \/ loop \/ RunTask \/ taskStarted
    \/ waitForReadiness \/ failReadiness \/ taskExited \/ sleepBackoff

Operator ==
  reconcile \/ ArtifactMissing \/ candidateReady \/ StopKill \/ StopJoin \/ CancelDone \/ Boot

Environment == MustApplyAssignments \/ Crash \/ ContainerExit \/ ImageLost \/ ReadinessDeadline

Next == (prepare \/ retryRuntimeInputs \/ Runner \/ Operator \/ Environment) /\ UNCHANGED scope

Spec == Init /\ [][Next]_<<vars, scope>>

\* The goroutines run, timers fire and the supervisor restarts the agent; a
\* process that has exited is reported.  Nothing makes a container signal ready
\* or exit.
Fairness ==
  /\ WF_vars(prepare) /\ WF_vars(retryRuntimeInputs) /\ WF_vars(ReadinessDeadline)
  /\ WF_vars(reattachRunning \/ reattachStopped \/ stopAdoptedTask \/ loop \/ RunTask
               \/ taskStarted \/ failReadiness \/ sleepBackoff)
  /\ WF_vars(waitForReadiness /\ (r.expired \/ r.cancelled \/ ~Alive(ctr, r.n)))
  /\ WF_vars(taskExited /\ (r.cancelled \/ ~Alive(ctr, r.n)))
  /\ WF_vars(StopKill) /\ WF_vars(StopJoin) /\ WF_vars(CancelDone) /\ WF_vars(Boot)
  /\ WF_vars(reconcile \/ ArtifactMissing \/ candidateReady)

LiveSpec == Spec /\ Fairness

-----------------------------------------------------------------------------
\* A placement never has two processes: whatever mix of respawns, failed
\* readiness, artifact repair and agent restarts led here, the containers of
\* earlier runs are gone before the next one starts (removeStaleContainers,
\* adoptTask).
OneContainer == \A m, n \in Runs : Alive(ctr, m) /\ Alive(ctr, n) => m = n

\* While the agent is up a running container is the one its run loop is in charge
\* of, or is about to adopt, through respawns, failed steps, artifact repair and
\* agent restarts.  Two things are known to leave one behind: Stop, while it stops
\* the runner and after, and a candidate whose monitor was lost.
Supervised ==
  \A n \in Runs \ orphans :
    ctr[n] = "running" /\ op.pc # "down" /\ ~r.stopping =>
      \/ r.pc \in {"reattachRunning", "reattachStopped"}
      \/ r.n = n /\ r.pc \notin {"none", "done"}

\* While an artifact repair is outstanding a runner is only created once the
\* artifact has been prepared again: a queued update that still carries the old
\* READY does not start the missing image (artifactRepairStarted).  A second fault
\* may lose the image again once it is READY, hence the bound.
RepairFresh ==
  [][scope.faults <= 1 /\ op.repair /\ op.role = "none" /\ op'.role # "none" => image]_vars

\* RUNNING is what lets the scheduler hand over the address, so a ROLLOVER
\* placement publishes it only after one of its containers signalled readiness
\* (a restarted agent adopts what it finds without waiting again).
RunningWasReady ==
  scope.strategy = "ROLLOVER" /\ boots = 1 /\ run # None /\ run.st = "RUNNING" => signalled

\* Once the operator has dealt with TERMINATE nothing revives the placement: the
\* published runner status no longer changes and no container starts, although
\* the preparation is left running and its updates keep arriving.
TerminatedQuiet ==
  [][op.pc = "idle" /\ op.cur = "TERMINATE" =>
       run' = run /\ \A n \in Runs : ctr'[n] = "running" => ctr[n] = "running"]_vars

Stopped == run # None /\ run.st = "STOPPED"

\* A placement told to terminate reports STOPPED and stays so, across lost
\* updates and agent restarts (reconcile, writeTerminalStopped).
Terminates == target = "TERMINATE" ~> [](target = "FINALIZED" \/ Stopped)

\* The operator of a withdrawn placement ends.
Finalizes == target = "FINALIZED" ~> op.pc \in {"off", "down"}

\* A RECREATE placement that stays wanted, and whose operator loses no update, ends
\* up RUNNING or with a failed preparation on record.
Progress ==
  scope.strategy = "RECREATE" /\ []~overflow /\ <>[](target = "RUN") =>
    <>[](prep = "FAILED" \/ (run # None /\ run.st = "RUNNING"))

\* The operator never keeps waiting for a candidate that has ended: every way out
\* of the run loop releases WaitReady (notifyReady).
CandidateReleased == op.role = "candidate" /\ r.pc = "done" ~> op.role # "candidate"

\* What runner.go says of Stop: the runner has fully stopped before STOPPED is
\* its terminal state.
StoppedMeansGone == Stopped => \A n \in Runs : ctr[n] # "running"

=============================================================================
