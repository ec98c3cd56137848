---------------------------- MODULE RouteBarrier ----------------------------
(***************************************************************************)
(* How a routing decision reaches every node, and how the primary knows    *)
(* that it did.  The store commits a sequenced write; the node publisher   *)
(* renders one network map per node and stamps it with the sequence that   *)
(* changed it; cluster sessions carry the maps to the secondaries, which   *)
(* persist them, program their kernel and report what they applied; the    *)
(* applied-stamp barrier (DecisionInForce) tells the scheduler whether a   *)
(* decision is in force.                                                   *)
(*                                                                         *)
(* The content of a node's map is one of two values that a write may flip; *)
(* a map also carries the primary process (boot) that rendered it, which   *)
(* the code does not send: it is history for the properties.               *)
(***************************************************************************)
EXTENDS Integers, Sequences, FiniteSets

CONSTANTS
    Secondaries,   \* the nodes that reach the primary through a session
    Primary,       \* the primary's own node, served by its in-process applier
    Slots,         \* sessions of one node that the primary may hold at a time
    QueueSize,     \* pending updates of one subscriber (queueSize)
    MaxSeq,        \* sequenced writes explored
    Scopes,        \* the bounds explored, see Scope
    None

\* Bounds: connections broken while the session is healthy and secondary restarts,
\* primary processes, failed kernel reconciliations and stamp writes.
Scope == [breaks : Nat, boots : Nat \ {0}, fails : Nat]

\* A map: its stamp, its content and the process that rendered it.
Map == [stamp : Nat, content : {0, 1}, boot : Nat]

ASSUME BarrierAssumption ==
    /\ Primary \notin Secondaries
    /\ QueueSize \in Nat \ {0}
    /\ MaxSeq \in Nat /\ Scopes \subseteq Scope
    /\ None \notin Int \cup Map \cup Slots

Nodes == Secondaries \cup {Primary}
Sessions == Secondaries \X Slots

VARIABLES
    \* the primary's database
    seq,       \* sequence of the last committed write
    content,   \* what the tables say each node's map contains
    stamps,    \* persisted map stamps (node_netmaps), None where missing
    \* the primary process
    boot,      \* which process this is
    bootSeq,   \* the sequence its publisher was seeded at
    rendered,  \* Publisher.appliedSeq
    maps,      \* Publisher.maps: the current map of each node
    applied,   \* Publisher.applied: newest stamp reported, None if not tracked
    touched,   \* history: the nodes whose map each write of this process changed
    \* the primary's end of the sessions
    live,      \* sessions whose handler has not returned
    kicked,    \* sessions whose context is cancelled
    open,      \* sessions whose subscription is open
    queue,     \* the subscription's pending maps
    up,        \* statuses on the wire from the secondary
    hand,      \* the status a session's reader has decoded and not yet handled
    \* the secondaries
    conn,      \* the slot the secondary is connected over, None if it is not
    fresh,     \* primarySessionState.netMapSnapshotPending
    down,      \* frames on the wire to the secondary
    cache,     \* the persisted map (LocalKVClusterNetMap), None if missing
    \* the in-process applier of the primary's own node
    slot,      \* the one-place channel of SnapshotAndSubscribeMap
    pending,   \* the map its apply loop has not applied yet
    \* every node's kernel: the map it is programmed with, None before the first
    kernel,
    breaks, fails,
    scope      \* the bounds of this behaviour

dbVars == <<seq, content, stamps>>
pubVars == <<boot, bootSeq, rendered, maps, touched>>
sessVars == <<live, kicked, open, queue, up, hand>>
secVars == <<conn, fresh, down, cache>>
localVars == <<slot, pending>>
vars == <<dbVars, pubVars, applied, sessVars, secVars, localVars, kernel, breaks, fails>>

-----------------------------------------------------------------------------
\* A step that may fail, at most scope.fails times.
Failing(failed) ==
    IF failed THEN fails < scope.fails /\ fails' = fails + 1 ELSE UNCHANGED fails

Changed == {n \in Nodes : maps[n].content # content[n]}

-----------------------------------------------------------------------------
(* The barrier *)

\* RecordApplied: the newest stamp a node reports cleanly applied.
RecordApplied(n, k) ==
    applied' = [applied EXCEPT ![n] = IF @ # None /\ @ >= k THEN @ ELSE k]

\* Mutant: does not wait for the render.
DecisionInForceUnrendered(s) ==
    \A n \in Nodes :
      maps[n].stamp >= s /\ applied[n] # None => applied[n] >= maps[n].stamp

\* DecisionInForce: a render has seen the write, and every reporting node whose
\* map is stamped at or after it has applied that stamp.
DecisionInForce(s) ==
    /\ rendered >= s
    /\ \A n \in Nodes :
         maps[n].stamp >= s /\ applied[n] # None => applied[n] >= maps[n].stamp

-----------------------------------------------------------------------------
(* The publisher *)

\* A write: it changes what the maps of T contain.  The store keeps its lock
\* until the commit handlers have run, so writes do not overlap.
Commit(T) ==
    /\ seq < MaxSeq /\ rendered = seq
    /\ seq' = seq + 1
    /\ content' = [n \in Nodes |-> IF n \in T THEN 1 - content[n] ELSE content[n]]
    /\ touched' = [s \in bootSeq + 1 .. seq + 1 |-> IF s > seq THEN T ELSE touched[s]]
    /\ UNCHANGED <<stamps, boot, bootSeq, rendered, maps, applied, sessVars,
                   secVars, localVars, kernel, breaks, fails>>

\* renderNodesLocked: a map whose content changed is stamped with the write.
renderNodesLocked ==
    maps' = [n \in Nodes |->
               IF n \in Changed THEN [stamp |-> seq, content |-> content[n], boot |-> boot]
               ELSE maps[n]]

\* persistStamps: a failed write of the stamps is only logged.
persistStamps(saved) ==
    stamps' = [n \in Nodes |->
                 IF n \in Changed /\ saved THEN [stamp |-> seq, content |-> content[n]]
                 ELSE stamps[n]]

\* Mutant: an update that does not fit the queue is dropped, the subscriber kept.
enqueueLockedDrop ==
    /\ queue' = [x \in Sessions |->
                   IF open[x] /\ x[1] \in Changed /\ Len(queue[x]) < QueueSize
                   THEN Append(queue[x], maps'[x[1]]) ELSE queue[x]]
    /\ open' = open
    /\ slot' = IF Primary \in Changed THEN maps'[Primary] ELSE slot

\* enqueueLocked: a subscriber whose queue is full is closed and dropped.  The
\* primary's own subscriber forwards to a channel that keeps only the latest map,
\* and subscribes again when it is dropped: that channel stands for both.
enqueueLocked ==
    /\ queue' = [x \in Sessions |->
                   IF open[x] /\ x[1] \in Changed /\ Len(queue[x]) < QueueSize
                   THEN Append(queue[x], maps'[x[1]]) ELSE queue[x]]
    /\ open' = [x \in Sessions |->
                  open[x] /\ (x[1] \in Changed => Len(queue[x]) < QueueSize)]
    /\ slot' = IF Primary \in Changed THEN maps'[Primary] ELSE slot

\* The commit handler: fold the write, render, persist the stamps, enqueue.
handle ==
    /\ rendered < seq
    /\ rendered' = seq
    /\ renderNodesLocked
    /\ \E saved \in BOOLEAN : persistStamps(saved) /\ Failing(~saved)
    /\ enqueueLocked
    /\ UNCHANGED <<seq, content, boot, bootSeq, applied, touched, live, kicked, up,
                   hand, secVars, pending, kernel, breaks>>

\* seedLocked, in a new process over the given rows: every map is rendered
\* afresh, and keeps its persisted stamp when its content is the one persisted.
seedLocked(atSeq, rows, persisted, saved) ==
    LET stampOf(n) == IF persisted[n] # None /\ persisted[n].content = rows[n]
                      THEN persisted[n].stamp ELSE atSeq
    IN  /\ rendered' = atSeq
        /\ maps' = [n \in Nodes |-> [stamp |-> stampOf(n), content |-> rows[n], boot |-> boot']]
        /\ stamps' = [n \in Nodes |-> IF saved THEN [stamp |-> stampOf(n), content |-> rows[n]]
                                      ELSE persisted[n]]

\* A primary process starts over a database.  Sessions, queues and the applied
\* stamps were memory of the last one; the secondaries still hold what they hold.
Boot(atSeq, rows, persisted) ==
    /\ boot < scope.boots
    /\ boot' = boot + 1
    /\ seq' = atSeq /\ bootSeq' = atSeq /\ content' = rows
    /\ \E saved \in BOOLEAN : seedLocked(atSeq, rows, persisted, saved) /\ Failing(~saved)
    /\ touched' = <<>>
    /\ applied' = [n \in Nodes |-> None]
    /\ live' = [x \in Sessions |-> FALSE] /\ kicked' = [x \in Sessions |-> FALSE]
    /\ open' = [x \in Sessions |-> FALSE]
    /\ queue' = [x \in Sessions |-> <<>>] /\ up' = [x \in Sessions |-> <<>>]
    /\ hand' = [x \in Sessions |-> None]
    /\ slot' = None /\ pending' = maps'[Primary]
    /\ UNCHANGED <<secVars, breaks>>

\* The primary process dies and a new one starts over the same database.
Restart == Boot(seq, content, stamps) /\ UNCHANGED kernel

\* The primary is reinstalled on another host from a backup: the first state of
\* its database stands for the backup, which rolls the sequence back.
Restore ==
    /\ Boot(0, [n \in Nodes |-> 0], [n \in Nodes |-> [stamp |-> 0, content |-> 0]])
    /\ kernel' = [kernel EXCEPT ![Primary] = None]

-----------------------------------------------------------------------------
(* The primary's end of a session *)

\* Mutant: a secondary that has a map does not connect again.
ConnectOnce(n, c) ==
    LET x == <<n, c>> IN
    /\ conn[n] = None /\ cache[n] = None
    /\ ~live[x] /\ hand[x] = None
    /\ conn' = [conn EXCEPT ![n] = c]
    /\ fresh' = [fresh EXCEPT ![n] = TRUE]
    /\ down' = [down EXCEPT ![n] = <<maps[n]>>]
    /\ live' = [live EXCEPT ![x] = TRUE]
    /\ kicked' = [y \in Sessions |-> IF y = x THEN FALSE
                                     ELSE kicked[y] \/ (y[1] = n /\ live[y])]
    /\ open' = [open EXCEPT ![x] = TRUE]
    /\ queue' = [queue EXCEPT ![x] = <<>>]
    /\ up' = [up EXCEPT ![x] = IF cache[n] = None THEN <<>>
                               ELSE <<[applied |-> 0, clean |-> TRUE]>>]
    /\ UNCHANGED <<dbVars, pubVars, applied, hand, cache, localVars, kernel, breaks, fails>>

\* registerSession cancels the session it replaces, then run subscribes: the
\* snapshot and the queue behind it are taken together under the publisher's
\* lock.  The secondary leads its stream with the status of its cached map,
\* which claims nothing applied.
Connect(n, c) ==
    LET x == <<n, c>> IN
    /\ conn[n] = None
    /\ ~live[x] /\ hand[x] = None
    /\ conn' = [conn EXCEPT ![n] = c]
    /\ fresh' = [fresh EXCEPT ![n] = TRUE]
    /\ down' = [down EXCEPT ![n] = <<maps[n]>>]
    /\ live' = [live EXCEPT ![x] = TRUE]
    /\ kicked' = [y \in Sessions |-> IF y = x THEN FALSE
                                     ELSE kicked[y] \/ (y[1] = n /\ live[y])]
    /\ open' = [open EXCEPT ![x] = TRUE]
    /\ queue' = [queue EXCEPT ![x] = <<>>]
    /\ up' = [up EXCEPT ![x] = IF cache[n] = None THEN <<>>
                               ELSE <<[applied |-> 0, clean |-> TRUE]>>]
    /\ UNCHANGED <<dbVars, pubVars, applied, hand, cache, localVars, kernel, breaks, fails>>

\* The response loop takes an update from its queue and writes it to the stream.
Yield(n, c) ==
    LET x == <<n, c>> IN
    /\ live[x] /\ queue[x] # <<>>
    /\ queue' = [queue EXCEPT ![x] = Tail(@)]
    /\ down' = IF conn[n] = c THEN [down EXCEPT ![n] = Append(@, Head(queue[x]))] ELSE down
    /\ UNCHANGED <<dbVars, pubVars, applied, live, kicked, open, up, hand, conn,
                   fresh, cache, localVars, kernel, breaks, fails>>

\* The session's reader decodes the next status.
Read(n, c) ==
    LET x == <<n, c>> IN
    /\ live[x] /\ up[x] # <<>> /\ hand[x] = None
    /\ hand' = [hand EXCEPT ![x] = Head(up[x])]
    /\ up' = [up EXCEPT ![x] = Tail(@)]
    /\ UNCHANGED <<dbVars, pubVars, applied, live, kicked, open, queue, secVars,
                   localVars, kernel, breaks, fails>>

\* handleIncoming: only a clean status counts.  The reader is a goroutine of its
\* own, which may get here after the session's handler has returned.
handleIncoming(n, c) ==
    LET x == <<n, c>> IN
    /\ hand[x] # None
    /\ hand' = [hand EXCEPT ![x] = None]
    /\ IF hand[x].clean THEN RecordApplied(n, hand[x].applied) ELSE UNCHANGED applied
    /\ UNCHANGED <<dbVars, pubVars, live, kicked, open, queue, up, secVars, localVars,
                   kernel, breaks, fails>>

\* The response loop returns - its context is cancelled, the peer is gone, or
\* its queue was closed and is drained - and the deferred calls run: ForgetNode
\* and unsubscribe.
End(n, c) ==
    LET x == <<n, c>> IN
    /\ live[x]
    /\ kicked[x] \/ conn[n] # c \/ (~open[x] /\ queue[x] = <<>>)
    /\ live' = [live EXCEPT ![x] = FALSE]
    /\ applied' = [applied EXCEPT ![n] = None]
    /\ open' = [open EXCEPT ![x] = FALSE]
    /\ kicked' = [kicked EXCEPT ![x] = FALSE]
    /\ queue' = [queue EXCEPT ![x] = <<>>]
    /\ up' = [up EXCEPT ![x] = <<>>]
    /\ UNCHANGED <<dbVars, pubVars, hand, secVars, localVars, kernel, breaks, fails>>

-----------------------------------------------------------------------------
(* A secondary *)

\* Its stream ends: the session is over at the primary, or the connection broke.
\* Frames it has not read are lost.
Disconnect(n) ==
    /\ conn[n] # None
    /\ IF live[<<n, conn[n]>>] /\ ~kicked[<<n, conn[n]>>]
       THEN breaks < scope.breaks /\ breaks' = breaks + 1
       ELSE UNCHANGED breaks
    /\ conn' = [conn EXCEPT ![n] = None]
    /\ down' = [down EXCEPT ![n] = <<>>]
    /\ UNCHANGED <<dbVars, pubVars, applied, sessVars, fresh, cache, localVars, kernel, fails>>

\* decideClusterNetMap: the first map of a session replaces the cache whatever
\* its stamp; after it an older stamp is refused as stale.
stale(n, m) == ~fresh[n] /\ cache[n] # None /\ m.stamp < cache[n].stamp

\* An equal stamp keeps the cached map.
accepted(n, m) ==
    IF ~fresh[n] /\ cache[n] # None /\ m.stamp = cache[n].stamp THEN cache[n] ELSE m

\* The status goes out over the session; one that has ended loses it.
Report(n, k, clean) ==
    up' = IF live[<<n, conn[n]>>]
          THEN [up EXCEPT ![<<n, conn[n]>>] = Append(@, [applied |-> k, clean |-> clean])]
          ELSE up

\* applyProjectionFrame: persist the map, program the kernel, report.  A failed
\* reconciliation leaves the kernel with the old map or, when only the
\* acknowledgement was lost, with the new one.
applyProjectionFrame(n) ==
    LET m == Head(down[n]) IN
    /\ conn[n] # None /\ down[n] # <<>>
    /\ down' = [down EXCEPT ![n] = Tail(@)]
    /\ \/ /\ stale(n, m)
          /\ Report(n, 0, FALSE)
          /\ UNCHANGED <<cache, fresh, kernel, fails>>
       \/ /\ ~stale(n, m)
          /\ cache' = [cache EXCEPT ![n] = accepted(n, m)]
          /\ fresh' = [fresh EXCEPT ![n] = FALSE]
          /\ \/ /\ kernel' = [kernel EXCEPT ![n] = m]
                /\ Report(n, m.stamp, TRUE)
                /\ Failing(FALSE)
             \/ /\ Failing(TRUE)
                /\ kernel' \in {kernel, [kernel EXCEPT ![n] = m]}
                /\ Report(n, 0, FALSE)
    /\ UNCHANGED <<dbVars, pubVars, applied, live, kicked, open, queue, hand, conn,
                   localVars, breaks>>

\* The secondary process restarts: it programs its cached map, if that succeeds,
\* before it connects again.
SecondaryRestart(n) ==
    /\ breaks < scope.breaks
    /\ breaks' = breaks + 1
    /\ conn' = [conn EXCEPT ![n] = None]
    /\ down' = [down EXCEPT ![n] = <<>>]
    /\ kernel' \in {kernel} \cup
         (IF cache[n] = None THEN {} ELSE {[kernel EXCEPT ![n] = cache[n]]})
    /\ UNCHANGED <<dbVars, pubVars, applied, sessVars, fresh, cache, localVars, fails>>

-----------------------------------------------------------------------------
(* The primary's own node *)

\* Mutant: the pending map is not cleared once a newer one is applied, and the
\* stamp that counts is the last one.
LocalApplyKeeps ==
    \E m \in {slot, pending} \ {None} :
      /\ slot' = IF m = slot THEN None ELSE slot
      /\ kernel' = [kernel EXCEPT ![Primary] = m]
      /\ applied' = [applied EXCEPT ![Primary] = m.stamp]
      /\ UNCHANGED <<pending, dbVars, pubVars, sessVars, secVars, breaks, fails>>

\* netMapApplier.run: apply the next map, or retry the one that failed.
LocalApply ==
    \E m \in {slot, pending} \ {None} :
      /\ slot' = IF m = slot THEN None ELSE slot
      /\ \/ /\ kernel' = [kernel EXCEPT ![Primary] = m]
            /\ RecordApplied(Primary, m.stamp)
            /\ pending' = None
            /\ Failing(FALSE)
         \/ /\ Failing(TRUE)
            /\ kernel' \in {kernel, [kernel EXCEPT ![Primary] = m]}
            /\ pending' = m
            /\ UNCHANGED applied
      /\ UNCHANGED <<dbVars, pubVars, sessVars, secVars, breaks>>

-----------------------------------------------------------------------------
Init ==
    /\ seq = 0 /\ content = [n \in Nodes |-> 0]
    /\ stamps = [n \in Nodes |-> [stamp |-> 0, content |-> 0]]
    /\ boot = 1 /\ bootSeq = 0 /\ rendered = 0
    /\ maps = [n \in Nodes |-> [stamp |-> 0, content |-> 0, boot |-> 1]]
    /\ applied = [n \in Nodes |-> None] /\ touched = <<>>
    /\ live = [x \in Sessions |-> FALSE] /\ kicked = [x \in Sessions |-> FALSE]
    /\ open = [x \in Sessions |-> FALSE]
    /\ queue = [x \in Sessions |-> <<>>] /\ up = [x \in Sessions |-> <<>>]
    /\ hand = [x \in Sessions |-> None]
    /\ conn = [n \in Secondaries |-> None] /\ fresh = [n \in Secondaries |-> TRUE]
    /\ down = [n \in Secondaries |-> <<>>] /\ cache = [n \in Secondaries |-> None]
    /\ slot = None /\ pending = maps[Primary]
    /\ kernel = [n \in Nodes |-> None]
    /\ breaks = 0 /\ fails = 0 /\ scope \in Scopes

Next ==
    /\ \/ \E T \in SUBSET Nodes : Commit(T)
       \/ handle
       \/ Restart
       \/ Restore
       \/ \E n \in Secondaries :
            \/ \E c \in Slots : \/ Connect(n, c) \/ Yield(n, c) \/ Read(n, c)
                                \/ handleIncoming(n, c) \/ End(n, c)
            \/ Disconnect(n)
            \/ applyProjectionFrame(n)
            \/ SecondaryRestart(n)
       \/ LocalApply
    /\ UNCHANGED scope

Spec == Init /\ [][Next]_<<vars, scope>>

\* The schedulers of both processes run every goroutine and the network delivers
\* what it carries.  Programming the kernel succeeds: a secondary that failed to
\* program a map is not asked again before the next one.
Fairness ==
    /\ WF_vars(handle)
    /\ \A n \in Secondaries :
         /\ \A c \in Slots : /\ WF_vars(Yield(n, c)) /\ WF_vars(Read(n, c))
                             /\ WF_vars(handleIncoming(n, c)) /\ WF_vars(End(n, c))
         /\ WF_vars(\E c \in Slots : Connect(n, c))
         /\ WF_vars(Disconnect(n) /\ UNCHANGED breaks)
         /\ WF_vars(applyProjectionFrame(n) /\ UNCHANGED fails)
    /\ WF_vars(LocalApply /\ UNCHANGED fails)

FairSpec == Spec /\ Fairness

-----------------------------------------------------------------------------
(* Properties *)

\* The node is programmed with a map this process rendered at write s or later.
Programmed(n, s) ==
    kernel[n] # None /\ kernel[n].boot = boot /\ kernel[n].stamp >= s

\* When the barrier says that a decision of this process is in force, every node
\* it counts whose map the decision changed is programmed with it.  The scheduler
\* finalizes a draining placement on this answer (barrier.go:38-75).
InForce ==
    \A s \in DOMAIN touched :
      DecisionInForce(s) =>
        \A n \in touched[s] : applied[n] # None => Programmed(n, s)

\* The maps a secondary has accepted, has on the wire and has queued.
Stream(n) ==
    (IF fresh[n] THEN <<>> ELSE <<cache[n]>>) \o down[n] \o queue[<<n, conn[n]>>]

\* Over a healthy session the stream of maps is strictly newer from one to the
\* next, so none is refused as stale, and it ends with the map the publisher
\* holds, so none is lost (decideClusterNetMap's claim, network_map.go:45-52).
StreamComplete ==
    \A n \in Secondaries :
      conn[n] # None /\ open[<<n, conn[n]>>] =>
        LET st == Stream(n) IN
        /\ Len(st) > 0 /\ st[Len(st)] = maps[n]
        /\ \A i, j \in DOMAIN st : i < j => st[i].stamp < st[j].stamp

\* Within one primary process no node's kernel goes back to an older map,
\* whatever sessions end, overlap or replay.
KernelForward ==
    [][\A n \in Nodes :
         kernel[n] # None /\ kernel[n].boot = boot /\ boot' = boot =>
           kernel'[n].boot = boot /\ kernel'[n].stamp >= kernel[n].stamp]_vars

\* Every node ends up programmed with its current map, after any number of
\* broken sessions, overflowed queues, primary restarts and a restore that rolls
\* the sequence back: nothing a node has cached makes it refuse the new maps.  A
\* map a kernel refused is not tried again on a secondary, hence the exception.
Converges == []<>(fails > 0 \/ \A n \in Nodes : kernel[n] = maps[n])
============================================================================
