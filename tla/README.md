# A TLA+ model of OpenDeploy

OpenDeploy runs containers on a small cluster.  A *primary* keeps the desired
state in sqlite and serves the API; every node, the primary's own included, runs
an agent that prepares images, runs containers through containerd and programs
routes.  This directory models the part of the system in which steps of several
actors meet: placing a version, telling every node where it is, running it on
its node, moving the deployment's address from one container to the next, and
keeping what its containers log.

All source paths below are relative to `src/`.

## The system

| part | code | state | operations |
| --- | --- | --- | --- |
| placement scheduler | `backend/app/primary/scheduler` | scheduled instances, their targets, the boot sequence | `Start`, `Run`/`Sweep`, `reconcile` (a pre-commit trigger) and its `step` |
| scheduling tables | `backend/storage/primarydb/pq` | documents, retained versions, instances, statuses | row reducers and `retainDeployment` |
| deployment writes | `backend/app/primary/domain/deployments` | the current document | `Create`, `Update`, `Delete` |
| state service | `backend/storage/primarydb/state` | the global sequence, subscribers | `Commit`: mutate, trigger, commit, notify |
| node publisher | `backend/app/primary/nodepublisher` | one network map and stamp per node, subscribers | `seed`, `handle`, render, persist stamps, enqueue |
| netmap rendering | `.../nodepublisher/cache.go`, `dirty.go`, `scope.go`, `render.go`, `backend/lib/ingressplan` | a cache of the tables, the ingress plan, the rendered maps | fold a commit, dirty set, render; `seed` at start |
| applied-stamp barrier | `.../nodepublisher/barrier.go` | the newest stamp each node reported | `RecordApplied`, `ForgetNode`, `DecisionInForce` |
| cluster sessions | `backend/app/primary/clusterhandler`, `backend/app/secondary/cluster_session.go` | sessions, frames, cached map | connect, replace, yield, read, end; accept, cache, program, report |
| primary's own applier | `backend/app/primary/netmapapply.go` | pending map | apply, retry |
| instance store of a node | `backend/storage/secondarydb/state` | assignments, statuses, bounded subscriptions | `MustApplyAssignments`, status writes, overflow |
| operator | `backend/lib/engine/operator.go` | preparer, current runner, candidate, repair flags | `RunAll`, `Run`'s three select arms, repair, promotion |
| preparers | `backend/lib/engine/prepare` | the preparation in progress | start, cancel, stages, input retry |
| container runner | `backend/lib/engine/runner` | the task, run number, readiness | run loop, reattach, `Stop`, `Promote`, `Serve` |
| containerd | `backend/lib/engine/ctrd` | containers of a placement | run, load, kill, delete, list |
| container networks | `backend/lib/network` | links, the inbound route, ports, registration | setup, recover, activate, teardown, cleanup |
| log manager | `backend/lib/log/logmanager` | write-ahead files, spool, archive files, catalog and commit marker | collect, commit, roll up, sweep, retain, query |

`PROJECT.json` lists every other part of the repository (node enrollment,
certificates, secrets, assets, access control, log formats, metrics, backup,
installer, image builds, self-update, front end) with the reason it is not
modelled, or its place in the plan.

How the parts interact.  A write commits; inside its transaction the scheduler
brings the deployment's placements in line with it.  After the commit the node
publisher renders the maps the write changed, and sessions carry maps and
assignments to the nodes.  A node's operator drives each placement; the runner's
status goes back to the primary, where it is again a write that triggers the
scheduler.  A placement replaced by a newer one drains until the barrier reports
that every node routes by the decision, or until a deadline.

The hard behaviours: passes of the scheduler inside other writers' transactions;
a barrier computed from reports that race with session ends; goroutines of one
placement (operator, preparer, run loop, readiness wait) around bounded
subscriptions that lose updates; agent and primary restarts at any step; two
runners that share one route, one set of host ports and one registration; maps
rendered again only for the nodes a commit is thought to change; log files that a
collector, its ticker, maintenance and queries share across crashes.

## Modules

| module | models | run by |
| --- | --- | --- |
| `Scheduler` | scheduler, tables, writers, the transaction around them | `MCScheduler` |
| `SchedulerProofs` | theorems about `Scheduler`; `Scheduler` implements `Rollout` | the proof system |
| `Rollout` | what the scheduler promises of a deployment, as an abstract specification | `MCScheduler` (property `Refines`) |
| `Rendering` | the contents of the network maps and which of them a commit re-renders | `MCRendering` |
| `RenderingProofs` | theorems about scopes and dirty sets: one rendering, one commit | the proof system |
| `CacheProofs` | the inductive invariant of `Rendering`'s tables; the fold of the cache | the proof system |
| `MapProofs` | theorems about the maps at every point of a run of `Rendering` | the proof system |
| `RouteBarrier` | publisher, barrier, sessions, secondaries, local applier | `MCRouteBarrier` |
| `BarrierProofs` | theorems about `RouteBarrier` and its inductive invariant | the proof system |
| `StatusReplication` | assignments and statuses between the primary and a secondary | `MCStatusReplication` |
| `ReplicationProofs` | theorems about `StatusReplication` | the proof system |
| `Engine` | one placement on its node: store, operator, preparer, runner, containerd | `MCEngine` |
| `EngineProofs` | theorems about `Engine` and its inductive invariant | the proof system |
| `InboundRoute` | two placements, the network manager and the kernel | `MCInboundRoute` |
| `RouteProofs` | theorems about `InboundRoute` | the proof system |
| `LogArchive` | the log manager for one deployment | `MCLogArchive` |

Definitions keep the names of the Go functions they model; operators whose
comment begins with "Mutant:" are plausible slips used to show that a property
can fail, and no specification uses them.

### Scheduler

`db` is what is committed, `work` the open transaction's view.  A writer
(`Create`, `Update`, `Delete`, `WriteReplicatedStatus`, `EvictNode`, `Sweep`,
`Start`) opens a transaction with its mutations materialised; `Pass` applies
`step` until nothing changes; `Commit` closes it.  `step` is `Retire`, `Place`
and `Drain`, each followed by `retainDeployment` as in the code.  The barrier's
answers are an input of every pass.  One deployment and the default ordinal are
modelled: the code treats deployments and ordinals independently.

`Rollout` says the same without tables, statuses or strategies: ids are issued in
order, one instance warms up, takes over, drains and is over; service moves only
to an instance that never served, an instance drains only onto a newer one, and
nothing warms up or drains beside an empty address.  `Scheduler` defines `Refines`
by substituting the committed tables: the next id and the sets of standby,
serving and draining instances.

### Rendering

`cache` is the publisher's fold of the tables, `docs` the table of document
versions itself, `plan` the ingress plan, `maps` the map of each member node.  An
action is one commit with the rows the scheduler adds in the same transaction:
writing, renaming, moving or deleting a deployment, a promotion, the end of a
drain, an eviction, a node that joins or reports its addresses, a policy written
or deleted.  Every one of them ends in `handle`: fold the rows by kind,
compute the dirty nodes from the previous rendering, render those.  `seedLocked`
is what a restart computes from the tables.  Addresses and prefixes are
functions of node, deployment and instance ids in the code and stand for
themselves here.

### RouteBarrier

A node's map is one of two contents with a stamp.  `Commit` is a write that
flips the contents of a set of nodes, `handle` the commit handler that renders,
persists stamps and enqueues.  A session has a subscription queue, a wire in
each direction and a reader that may outlive its handler.  `Restart` keeps the
database, `Restore` rolls it back.  The process that rendered a map and the
writes that touched a node are history variables for the properties.

### StatusReplication

A status is its clock, so the history of an instance is the interval up to its
newest clock.  Assignments come down in frames: the snapshot of a session, which
is the complete set and removes what is absent from it, and one update per write.
Statuses go up by two producers that share the session's outbox: the push loop,
with its bounded subscription to the store, and the replay of the history beyond
the watermark each snapshot row carries.  Readers of earlier sessions may still
deliver.  A primary restart seeds the publisher from the tables, which may be a
backup without the newest statuses.

### Engine

One placement from its assignment to its withdrawal.  Four processes interleave:
the operator (`reconcile`, `ArtifactMissing`, `candidateReady`, and `Stop` and
`Cancel` in the steps in which they block), the preparer, the run loop and
containerd's tasks.  Every return of the run loop, both reattach modes, the
backoff, the readiness deadline and the respawn are steps.  A failing step is one
of a preparation, the environment or certificates before stale containers are
removed, the network or the task after that, a claim, the readiness listener, a
lost image, or a monitor that gave up on a live container.  Timers are steps that
may happen at any time.  `orphans` is a history variable: the runs alive when
`Stop` gave up on their runner, and those of a candidate whose monitor was lost.
What an image or a container contains is not modelled.

### InboundRoute

Old serves and New warms up.  Each claim of the inbound address is five steps
(read the current registration, route, publish ports, register, or roll back),
each under its own lock in the code; the check of the target precedes them.
Teardown is three steps.  `Crash` loses the manager's memory and keeps tasks,
links and the route.  `stuck` holds links the kernel refused to delete: they keep
their slot, and a route, until a sweep tries again.  `earlier` counts placements
before Old that still drain, each by the slot it holds; their own exits are not
explored.  A candidate's run numbers start over, so its network is not told apart
from an earlier one's stuck link of the same number, and a link that is refused
again and again counts as one failed step.  `scope.whole` assumes that a handover
does not fall inside a claim; `route_straddle` is what happens without it.

### LogArchive

Records are numbers; a WAL file is a sequence of them, an archive file a bag, so
that a record stored twice shows.  `disk`, `wal` and `db` survive a crash;
everything else is memory.  A commit is three steps (write the provisional file,
transaction, rename and clean-up) under the spool's lock, and is started by the
collector after a record, by its ticker, or at the end of the stream.  The
maintenance goroutine is a sequence of steps: the two sweeps, retention, and a
roll-up in three steps with a deferred unlink.  A query takes its snapshot under
the lock, then reads the WAL, then the files.  Two units of `now` are a bucket;
the second clock, `aged`, is the rewrite grace: `GracePasses` makes everything
numbered so far older than a minute.  That commits and roll-ups take less than
the grace is an assumption of that action; that an outage in the middle of a
commit does too is one of every scope but that of `log_archive_outage`.  A stream
that waits for a record after its ticker's rename failed waits for as long as it
takes.  `exposed` is a history variable for the two ways in which a record can be
lost: it was written to a bucket the stream had left, or it was in a file that was
committed but still provisional when the grace passed.

## Runs

Modules other than `Scheduler` take a set `Scopes` of bound records; the initial
state picks one, so one run explores several small worlds (for instance broken
sessions without restarts, and restarts without broken sessions) without their
product.  The sets are in the `MC` modules.

Passing runs:

| run | shows |
| --- | --- |
| `scheduler_safety` | the passes reach a fixpoint in every commit; at most one instance serves; a RECREATE version is alone; a draining instance has a serving successor; pinned versions are kept; a version is placed once; instances only move forward; a rollover has no gap; the committed tables behave as `Rollout` says; with a crash between and inside transactions |
| `scheduler_drains` | no placement work is left undone; every drain ends though no node ever acknowledges and the primary restarts; the proofs' inductive invariant holds |
| `barrier` | the barrier never answers early for a node it counts; a session neither loses nor reorders a map; no kernel goes backwards within a primary process; every node ends up with its current map, also after a restore; with broken sessions, or a restart, a restore, lost stamps and failing kernels |
| `status_replication` | no status row goes back to an older observation; once nothing is on its way the node holds its assignments and the primary its statuses; the two end up agreeing after breaks, overflows and primary restarts or restores |
| `engine` | there is one container at a time, and none is unsupervised but those a `Stop` or a candidate's lost monitor leaves behind; RUNNING only after a readiness signal; no start from a stale READY; nothing starts after TERMINATE; a terminated placement reports STOPPED for good, a withdrawn one's operator ends, a finished candidate is released, a wanted placement ends RUNNING or with a failed preparation; with exits, faults, overflowing subscriptions and an agent restart |
| `route_handover` | once settled the serving container has route, ports and registration, and a claim that failed has given the route back; no network outlives its run, so a slot is free unless a draining placement or an undeletable link holds it; teardown takes nothing from a replacement; the placement that ends up serving ends up routed; with exits, one or two failing steps, an agent restart, or a third placement that drains |
| `rendering` | after any sequence of commits the cache, the plan and every map are those a restart would compute; for every connection that is permitted both ends hold what they need; a map lists no workload that is none of its node's business |
| `log_archive` | no record of a day that is kept is lost but an `exposed` one, none is stored twice unless a step failed, a query on a consistent snapshot answers each record once, and every record of a day that is over, or of producers that are gone, is committed, unless it is behind the stream or a ticker's failure is still unread; with late records, failing commits of the collector and the ticker, stopping producers and a crash at any point |

Runs whose property states what a comment or a document says and which the code
does not meet; the finding in `PROJECT.json` quotes the text:

| run | what happens |
| --- | --- |
| `engine_stop_race` | `Stop` during a container start reports STOPPED with the container running |
| `route_straddle` | a claim that straddles the handover takes the address back and loses it |
| `rendering_space_move` | a deployment moves to another space while an instance of its old version lives: when that instance goes, a node of the new space is not rendered again and keeps a map without the service |
| `log_archive_outage` | the agent dies between a commit's transaction and its rename and stays down longer than the rewrite grace: the first sweep of the next start removes the provisional file before the collector renames it |

### What the models show besides

Behaviours the models reach and no run is kept for.  Properties are stated so as
to leave them out, by an assumption the definition names.

* A node without a recorded stamp is not waited for: between connecting and its
  first report, or after a late `ForgetNode`, it may route by an older map while
  a decision counts as in force (`barrier.go:49`).  `InForce` is about the nodes
  the barrier counts.
* A replaced session's end forgets the stamp its successor reported, and a late
  status of the old one may be recorded after that: a drain waits until the
  node's next map or session (`session.go:113`; the comment at `barrier.go:11`
  says that "the barrier advances on its own").
* A status the push loop could have reported is missed, until the instance's next
  one, when it is written after the history replay has read the instance and
  before the loop's first subscription, whose snapshot it drops
  (`cluster_session.go:342`).  The loop starts before the connection is made, so
  it has to be delayed for a round trip; `scope.prompt` assumes that it is not.
* A frame with a refused map is dropped with its instance rows, and a refused
  snapshot is followed by no replay (`cluster_session.go:440`); the next session
  makes up for both.  The comment on `handleStatusWrite` (`session.go:282`) says
  that status rows above the secondary's clock are deleted; `writeStatus` keeps
  them and ignores the older status.
* A TERMINATE target at boot stops the reattached runner before it has looked at
  containerd, and a container may be left (`operator.go:174`).
* An agent restart during warm-up adopts the candidate and publishes RUNNING
  without a readiness signal (`container.go:429`).
* A candidate that gave up is not replaced when the operator has already handled
  the update that would have made it build one (`operator.go:242`; the comment at
  `container.go:173` describes that stall as a thing of the past).
  `CandidateReleased` only says that the operator stops waiting for it.
* When the monitor of a candidate gets no answer from containerd for a minute, the
  live container counts as exited: it is sent no signal (`container.go:643`) and,
  when the readiness deadline has passed by the next iteration, the run loop ends
  with the container running (`container.go:464`).  It stays until a later run of
  the placement or an agent restart removes it.
* Run numbers restart after a repair, so one names two container lifetimes
  (`container.go:185`).
* An overflow during a repair can hide the READY the operator waits for
  (`operator.go:155`).
* After an agent restart the first runner to recover removes the network of the
  one that has not (`manager_linux.go:261`), and recovery may route the address
  to a standby (`manager_linux.go:245`), until the serving runner claims it.
* A draining, a serving and a standby placement can run at once, one more than a
  deployment's two network slots (`v4.go:15`; the comment at
  `manager_linux.go:467` says that at most two containers run concurrently).  A run
  without a slot is tried again, and gets one when the draining placement is over.
* A link that could not be deleted is only logged (`manager_linux.go:334`) and holds
  its slot until a runner of the deployment sweeps; one such link and a rollover
  leave a respawn without a slot.
* `RunAll`'s own subscription can overflow, which ends its loop (`operator.go:92`),
  and a failed `Serve` is logged and tried again only at the placement's next
  update (`operator.go:208`).  Neither is in the models.
* A query between a restart and the collector's `Reset` takes everything in the
  WAL for uncommitted, and a query between a commit's failed rename and its
  repair sees the row and the WAL: a record may be answered twice or missed.
  `Answers` is about snapshots whose marker is the catalog's (`settled`).
* A range committed between a query's snapshot and its scan of the WAL is in no
  file of its snapshot, and the query may miss it (`overtaken`).
* After a commit or a stream fails, the ticker of the failed run may still commit
  what it finds in the spool, and records are stored twice; `StoredOnce` is about
  runs without failing steps.
* After a commit of the ticker failed the ticker is gone and the collector learns of
  it only with its next record or the end of the stream (`logcollector.go:104`): a
  silent workload is not committed until then, though `log-storage.md:80` has the
  tick "so a silent workload still commits".  If it was the rename that failed, the
  hourly sweep meanwhile removes the provisional file and its records are lost, as
  in `log_archive_outage`.  `Archives` and `OnlyExposedLost` name both cases.
* A record written for a bucket that the stream has left, which the writer's
  `openBucket` may create for it (`writer.go:100`), is never collected and goes with
  the bucket's file (`logcollector.go:253`).

### Bounds

Three documents give a rollover inside a rollover, so all five instance targets
coexist (two in the liveness run); three reports, and a clock that runs to the
deadline of every drain, reach every rule of `step`; two boots give one restart.
In `RouteBarrier` two writes suffice for an older and a newer map, two session
slots for a replaced session beside its successor, and a one-place queue overflows
on the second map.  `StatusReplication` has one-place queues for the same reason;
two statuses give an older and a newer one, three sessions a reader of each of two
earlier ones, two instances a batch.  `Engine` allows four run numbers, one
spontaneous exit, one failing step and one restart; a subscription buffer of 2 to
4 overflows (the code's is larger, which needs only more updates), one of 9 does
not.  `InboundRoute` allows three or four runs per placement with up to two exits,
up to two failing steps (a claim and its rollback, or two links), a restart with
one failing step, and one earlier placement: three for two slots.  `Rendering` has
three nodes, three or four document writes, one or two changes of target and up to
three other changes in each of three worlds (policies; ingress with a changing
address inventory; the global space with host networking, RECREATE and a node that
joins): a rollover, a change of node or name, and a change of what makes two
spaces reach each other, in every order.  `LogArchive` has one to three records in
up to three buckets of one or two to a day, one crash or one failing step (with a
commit size of two, so that it may be the ticker's), a commit size of one to three
records and roll-ups of two: two files to roll up, one that is split, a record
beyond the marker in a bucket already committed, and a day that expires.  A bound
is a conjunct of a guard and has a name; a run loop at its last run number stays
in its teardown.  The last session that a bound allows does not break.  Deadlock
is not checked: in every model the system may come to rest.

### Fairness

Weak fairness of each goroutine's steps, of delivery on a connection and of the
restart of a dead process: the Go scheduler, TCP and systemd provide it.  A
draining placement is over in the end, as `scheduler_drains` shows.  The wall
clock and the poll ticker advance (`scheduler_drains`).  In `barrier` programming
a kernel succeeds, because a secondary that failed is not asked again before the
next map.  A secondary reconnects, as its connection loop does.  In `log_archive`
the collector, its ticker, maintenance, the hourly reconcile and the minute of
grace go on while the process is up; `Archives` asks nothing while it is down.
Writers, container exits, faults, crashes and broken connections are never assumed
to happen.

## Proofs

`SchedulerProofs` proves, for every number of documents, reports, restarts and
clock steps, every drain timeout and every answer of the barrier:

* `Invariance`, the inductive invariant `IInv`;
* `TypeCorrect` (types, a conjunct of `IInv`), and `ServingUnique`,
  `RecreateExclusive`, `DrainSafe`, `PinsRetained` and
  `VersionsPlacedOnce`, the safety invariants of
  `scheduler_safety`;
* `MovesForward` and `RolloverGapless`, its action properties;
* `AlwaysStabilizes` and `AlwaysSettled`, the invariants `Stabilizes` and
  `Settled`: a transaction comes to rest within the passes `reconcile` allows, and
  then no rule but the drain's has anything to do.

The argument.  The invariants are statements about committed tables, but rules
run on the open transaction, between writers' mutations and the commit.  `IInv`
therefore says of both `db` and `work` that they satisfy `TablesInv`: types, ids
below the counter, pinned versions retained, at most one serving instance, a
newer serving instance for each draining one, instance order agreeing with
version order, and a RECREATE version alone.  It also relates the two: everything
reached from `db` by a writer and any number of passes is `Reaches(db, work)`,
which carries the action properties to the commit.  Each rule (`Retire`,
`newInstance`, `promote`, `Drain`, and `retainDeployment` after each) is a lemma
that it keeps `TablesInv` and is a `Phase`; `step` composes them, and each writer
has a lemma that its mutations do.  The invariant is also checked by TLC
(`scheduler_drains`).  The only assumption is that the constants are natural
numbers.

The same module proves `Implements`, that `Scheduler` implements `Rollout` for
every value of the constants.  `IInv` is not enough: that nothing warms up beside
an empty address needs `Backed`, by which every standby has an older serving
instance.  Each rule and each writer keeps it (one lemma each); `Reaches` then gives
the step of `Rollout` a commit makes.

`AlwaysStabilizes` needs a count of what is left to do (`Left`): one pass if
anything must retire, two until the current version is placed and one until it is
promoted, and one for each drain that was under way when the transaction began,
since the barrier may acknowledge them one at a time.  A pass that changes the
tables lowers the count (`StepSettles`): nothing that has retired or has been
promoted comes back, a drain that this transaction started does not end in it, and
retention has nothing more to drop (`Normal`).  The count is at most the number of
live instances and three, well below the limit.  A pass that changes nothing leaves
the tables `Idle`, which does not depend on the clock, hence `AlwaysSettled`.  TLC
checked the invariant (`SettleInv`) on the instance of `scheduler_safety` first.

`RenderingProofs` is about one rendering and one commit, for any cluster.
`ScopeExact`: the set of workloads the code gathers for a node from spaces,
policies and ingress is exactly the set of those that concern it, stated pair by
pair; it assumes that a netproxy is in the system space.  `InstanceDirty`: a
commit of instance rows changes the map of no node outside its dirty set,
provided no deployment of these rows has placements in two spaces, which
`rendering_space_move` shows to be needed.  `PolicyDirty`: the same for a policy
written, replaced or deleted, from the publisher's cache before and after.  The
lemma under all three is that a space in a node's scope has the node among those
that reach the space: the scope and the dirty set are computed by different code
in opposite directions.

`CacheProofs` and `MapProofs` are about whole behaviours of `Rendering`, for any
nodes, addresses, documents, policies, reports and number of commits:

* `AlwaysFolded`, the invariant `Folded`: the cache that commits are folded into
  is what a restart would load, deployments that change space included;
* `AlwaysCurrent`, the invariant `Current`, and `AlwaysBothEnds`, the invariants
  `BothEnds` and `OnlyReachable`, of every scope in which no deployment is written
  with two spaces (`Stays`).  All scopes of `rendering` are such; without the
  condition `Current` is false (`rendering_space_move`).

The argument.  The cache counts, for each version it keeps, the instances that
pin it, and drops a version at zero unless it is current.  The invariant `Tables`
says that the counts are right, that what is current or placed is a row of the
document table, and that versions of a deployment are numbered without gaps, so
that a new version never meets an old key.  Every action is a commit of one of
four kinds (`NextCommits`: documents and instances, a node that joins, leaves or
changes its key, a node's report of its addresses, a policy), and the fold keeps
`Tables` for each.  From `Tables` a restart loads what is there (`Restart`).  The maps
follow from it: `SpacesOK` gives every version of a deployment one space, and then
each kind of commit changes the render context only in entries whose nodes are in
the commit's dirty set (`InstanceDirty`, `PolicyDirty`, and the same for documents
and nodes), or it changes the ingress plan, whose difference is added to the dirty
set; a node outside it keeps its map, and keeps the right one (`MapsCurrent`).
`BothEnds` and `OnlyReachable` are then statements about one rendering, and follow
from `ScopeExact`.  TLC checked `Tables` and the invariant of `MapProofs`
(`Consistent`) on the scopes of `rendering` before they were proved.  Assumed of
the constants (`RenderingAssumption`): nodes are numbers with a greatest among
them, since ids are, and the sets of a scope have the types of the rows they stand
for.

`BarrierProofs` proves, for any secondaries, session slots, queue size, writes,
breaks, failures and primary processes:

* `BarrierSound`, the invariant `InForce`: a decision the barrier calls in force
  is programmed on every node it counts;
* `NoRegression`, the action property `KernelForward`: within one primary process
  no kernel goes back to an older map;
* `StreamsComplete`, the invariant `StreamComplete`: over a session whose queue
  was not closed no map is lost or refused.

The argument.  Acknowledgements cross sessions and processes, so "the node has
reported stamp k" means something only for maps that this process rendered
(`Ours`).  The invariant follows those from the publisher (`PubInv`: one write at
most is not rendered, and a rendered write is in the stamp of every map it
changed) through queue, wire and cache (`QueueInv`, `Link`) to the kernel
(`KernelInv`), each at most as new as the one before, and the statuses back
(`ReportInv`: a clean status in flight, in a reader's hand or recorded names a
stamp the kernel has).  `StreamInv` says the stream of a live session rises
strictly and ends with the publisher's map while its subscription is open.  None
of the three properties is inductive: a status of a broken session may be handled
at any later time, so what is in flight must be constrained before it is
recorded, and the frames of a session of an earlier process must be told from
this one's (`PastInv`).  Assumed of the constants: the primary is no secondary,
queues have at least one place, and the value for "nothing" is no other value.

`EngineProofs` proves, for any number of runs, exits, faults and agent restarts,
both strategies and any subscription size:

* `NeverTwo`, the invariant `OneContainer`;
* `NoOrphan`, the invariant `Supervised`;
* `ReadyFirst`, the invariant `RunningWasReady`;
* `StaysTerminated`, the action property `TerminatedQuiet`.

The argument.  The operator and the run loop share no lock.  The invariant says
what each may rely on: `QueueInv`, that the targets the operator has still to see
never go back; `OpInv`, what the operator's place says of the runner; `Numbers`,
the run numbers and what a readiness outcome says of the run loop; `Charge`, which
container may run at each point of the run loop while nobody stops it; `Clean`,
that nothing is left of other runs when a task is created.  The part that is hard
to see in the code is what may be left behind.  `Stop` captures a task once
(`engine_stop_race`) and a monitor may be lost, so a container may run that no
runner knows; `orphans` names them, `Left` says that an operator without a runner
has no others, and `Charge` that a run loop has at most its own.  `NeverTwo` needs
no exception all the same: every run removes the containers of all other numbers
before it creates its own, and creating it removes one of the same number.  TLC
checked the invariant on the scopes of `engine` and with more faults, exits and
starts of the agent before it was proved.  Assumed of the constants: at least one
run number, and the value for "nothing" is no other value.

`ReplicationProofs` proves, for any number of instances, statuses, sessions,
refused frames and primary restarts and any size of the two queues:

* `ReplicationComplete`, the invariant `NothingMissed` wherever `scope.prompt`
  holds (the push loop subscribes before the session's snapshot is taken, the
  scopes of `status_replication`);
* `StatusRowsForward`, the action property `StatusForward`, in every scope.

The argument.  `NothingMissed` speaks of states in which nothing is on its way, so
its proof is an account of what is.  Downwards, `Told`: the last frame about an
instance, or else what the secondary holds, says whether the publisher knows the
instance; a snapshot is about every instance, which is what makes absence from it
a removal.  Upwards, `Covered`: the newest status of every assignment is with the
primary or on a wire (`Delivered`), in the push loop's hands or too much for its
subscription, which is then replaced (`Pushing`), or in a gap the replay has not
passed (`Replaying`).  `SentOK` supports it: what the push loop counts as sent and
what the replay has passed is delivered, so skipping it is right.  `KnownOK` and
`FramesOK` tie publisher, frames and store to the tables up to finalized
instances, `ClocksOK` bounds every clock by the secondary's newest.  Assumed of
the constants: queues have at least one place, and the value for "nothing" is no
other value.

`RouteProofs` proves, for any number of runs, container exits, failing steps and
agent restarts:

* `SlotsSuffice`, the invariant `SlotFree`, from `Slots >= 2`, which is
  `v4SlotsPerDeployment` (`v4.go:15`): no network outlives its run, and a slot is
  free unless a draining placement or an undeletable link holds one;
* `DustSettles`, the invariant `Settled` wherever `scope.whole` holds;
* `OnlyHandedOver`, the action property `HandedOver`, likewise.

The argument.  A claim is five steps that other goroutines cut into, so the
invariant says what a claim in progress may still rely on.  `NetOK`: a placement
has at most the link of the run its loop is in, which is all `SlotsSuffice` needs.
`RunnerOK` and `ClaimOK`: whose claim it is and where the run loop and the
operator are meanwhile; a claim of an earlier run of the same placement may still
be going on.  `ServingOK` is the core, about the serving placement while nothing
failed: a registration of its network implies route and ports, a claim that has
passed a step has its effect in place unless a later run has begun, and a
registration is never newer than the run (`NumberOK`, which also keeps a network
that is about to be set up apart from what is registered or claimed).
`RestoredOK` is about a failed claim: before any restart and with one failing step,
the registered network is the one the rollback of a claim under way would restore,
and the routed one when none is under way.
`InboxOK` says that the operator has seen, or will see last, the target, so that a
claim lost to a full inbox is made up for.  `KernelOK`, `AdoptOK`, `CurrentOK` and
`TargetOK` are about restarts and the two targets.  TLC checked the invariant on
the scopes of `route_handover`, and on one without `scope.whole`, before it was
proved.  Without `scope.whole` the last two are false: TLC finds `Settled` and
`HandedOver` violated in the scope of `route_straddle`.  Assumed of the constants:
the two placements differ, and the value for "nothing" is no network.

Only model-checked: all liveness properties (fairness is out of the prover's
reach), `RepairFresh` of `Engine`, and everything about `LogArchive`.
`RepairFresh` counts faults: it holds of a placement with one failing step, since a
second one may lose the image again between READY and the new runner, which the
definition says.  Its proof would need the order of all statuses in the operator's
queue.  `LogArchive` is about bags of records summed over files by folds, and what
a fold computes needs induction over data, which the prover cannot do.

## What is not modelled

Within the modules: ports and diagnostics of a network map, other ordinals, map
validation failures, containerd listings that fail under a live context,
`RunAll`'s own subscription, the outbound addresses and packet filter of a
container, torn WAL records, the sort inside the reorder window, query filters
and the spool's minute aggregates.

Outside them (the components of `PROJECT.json` give the reason for each):

* Generated code, encodings, parsers, the installer, image builds and the front
  end are conversions or sequences of host commands without a protocol between
  actors.  They are most of the repository's lines.
* Certificates, secrets, assets, access control and the API handlers are one
  transaction per request over rows nobody else interprets; where such a commit
  matters to another part, its effect is an action of that part's module.
* Node enrollment is a protocol of two sides with crashes.  Its effect on the
  cluster (a node joins, reports, is evicted) is in `Scheduler` and `Rendering`;
  the exchange of requests and certificates is not modelled.

## Plan

1. `NodeLifecycle`: enrollment requests, acceptance, bootstrap instance,
   certificates and eviction, with crashes of either side.
2. `DeploymentWrites`: optimistic concurrency on the expected sequence,
   references to values and spaces, delete preconditions.
3. Extensions of `Engine`: several placements under `RunAll`, the agent's own
   deployment, the sweep of foreign containers, listing faults.
4. A composition of `Scheduler` and the barrier of `RouteBarrier`.
5. Proofs: `RepairFresh` of `Engine`.
