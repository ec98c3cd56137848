------------------------- MODULE StatusReplication -------------------------
(***************************************************************************)
(* How one secondary's assignments come down from the primary and the      *)
(* statuses its workloads report go up: the secondary's instance store     *)
(* (storage/secondarydb/state), its session (app/secondary/cluster_session *)
(* .go), the primary's session and status writes (app/primary/             *)
(* clusterhandler, domain/scheduledinstances) and the watermarks of the    *)
(* node publisher.                                                         *)
(*                                                                         *)
(* A status is its clock.  BumpUpdatedAt advances an instance's clock by   *)
(* one here, so the durable history of instance i is 1 .. latest[i].       *)
(***************************************************************************)
EXTENDS Integers, Sequences, Functions

CONSTANTS N,             \* instances, by id
          OutboxSize,    \* statuses a session has in flight
          SubBuffer,     \* subscriberBuffer
          Scopes,        \* the behaviours explored, see Scope
          None

Instances == 1..N

\* Bounds: instances scheduled, statuses of each, sessions, refused frames, primary
\* restarts.  prompt assumes that the push loop has subscribed before the session's
\* snapshot is taken.
Scope == [ids : SUBSET Instances, clocks : Nat, sessions : Nat \ {0}, refusals : Nat, boots : Nat,
          prompt : BOOLEAN]

\* What comes down in one frame: all rows of a snapshot, or the one row of an update.
Frame == [snapshot : BOOLEAN, rows : Seq(Instances), final : BOOLEAN, watermark : [Instances -> Nat]]
\* A commit the publisher is notified of: a status with its clock, or an instance.
Commit == [id : Instances, clock : Nat \cup {None}]

ASSUME ReplicationAssumption ==
  /\ N \in Nat /\ OutboxSize \in Nat \ {0} /\ SubBuffer \in Nat \ {0}
  /\ Scopes \subseteq Scope
  /\ None \notin Seq(Frame) /\ None \notin Commit /\ None \notin Nat

VARIABLES inst,      \* primary: target state of each instance
          status,    \* primary: clock of the status row, 0 for none
          feed,      \* primary: a commit the publisher has not folded yet, or None
          known,     \* publisher: instances in its cache
          watermark, \* publisher: status clocks in its cache
          n,         \* sessions the secondary has started
          open,      \* the secondary is in session n
          down,      \* frames on their way to it; None until the primary subscribed
          wire,      \* statuses in flight, per session
          held,      \* secondary: assignments
          latest,    \* secondary: clock of the newest status
          sub,       \* the push loop's subscription
          batch,     \* states it has received and not pushed yet
          lastSent,  \* newest clock it has pushed in this session
          replay,    \* what is left of the history replay
          lost,      \* a frame of this session was refused
          refusals, boots,
          scope      \* the bounds of this behaviour

tables == <<inst, status>>
publisher == <<feed, known, watermark>>
stream == <<n, open, down, wire>>
store == <<held, latest>>
push == <<sub, batch, lastSent>>
vars == <<tables, publisher, stream, store, push, replay, lost, refusals, boots>>

\* Target states: what keeps the workload and what takes it down, then FINALIZED.
Live == {"run", "terminate"}
State(i, c) == [id |-> i, clock |-> c]
\* The ids of S in some order, and in ascending order.
Orders(S) == {s \in UNION {[1..k -> S] : k \in 0..N} : Range(s) = S /\ IsInjective(s)}
Sorted(S) == {s \in Orders(S) : \A j, k \in DOMAIN s : j < k => s[j] < s[k]}

-----------------------------------------------------------------------------
(* The primary.  A commit and the publisher's handling of it are two steps,  *)
(* under one lock that keeps the next commit out.                            *)

\* The scheduler creates, terminates or finalizes an instance of the node.
Schedule(i, to) ==
  /\ feed = None /\ i \in scope.ids
  /\ <<inst[i], to>> \in {<<"none", "run">>, <<"run", "terminate">>, <<"terminate", "final">>}
  /\ inst' = [inst EXCEPT ![i] = to]
  /\ feed' = [id |-> i, clock |-> None]
  /\ UNCHANGED <<status, known, watermark, stream, store, push, replay, lost, refusals, boots>>

\* Mutant: whatever arrives last wins.
staleNever(i, c) == FALSE

stale(i, c) == c < status[i]

\* handleStatusWrite and WriteReplicatedStatus.  An instance finalized between
\* the check and the write still gets its status.
handleStatusWrite(i, c) ==
  \/ /\ inst[i] # "none" /\ ~stale(i, c)
     /\ feed = None
     /\ status' = [status EXCEPT ![i] = c]
     /\ feed' = State(i, c)
  \/ /\ inst[i] = "final" \/ stale(i, c)
     /\ UNCHANGED <<status, feed>>

\* The reader of session s takes the next message.
handleIncoming(s) ==
  /\ wire[s] # <<>>
  /\ handleStatusWrite(Head(wire[s]).id, Head(wire[s]).clock)
  /\ wire' = [wire EXCEPT ![s] = Tail(@)]
  /\ UNCHANGED <<inst, known, watermark, n, open, down, store, push, replay, lost, refusals, boots>>

\* The publisher folds a commit and sends the row to a subscribed session.
handle ==
  /\ feed # None
  /\ LET i == feed.id IN
     \/ /\ feed.clock = None
        /\ known' = IF inst[i] = "final" THEN known \ {i} ELSE known \cup {i}
        /\ watermark' = IF inst[i] = "final" THEN [watermark EXCEPT ![i] = 0] ELSE watermark
        /\ down' = IF down = None THEN None
                   ELSE Append(down, [snapshot |-> FALSE, rows |-> <<i>>, final |-> inst[i] = "final",
                                      watermark |-> watermark'])
     \/ /\ feed.clock # None
        /\ watermark' = IF i \in known THEN [watermark EXCEPT ![i] = feed.clock] ELSE watermark
        /\ UNCHANGED <<known, down>>
  /\ feed' = None
  /\ UNCHANGED <<tables, n, open, wire, store, push, replay, lost, refusals, boots>>

\* Session n is served: the snapshot and the updates behind it.
Subscribe ==
  /\ open /\ down = None
  /\ scope.prompt => sub.st = "open"
  /\ \E rows \in Sorted(known) :
       down' = <<[snapshot |-> TRUE, rows |-> rows, final |-> FALSE, watermark |-> watermark]>>
  /\ UNCHANGED <<tables, publisher, n, open, wire, store, push, replay, lost, refusals, boots>>

-----------------------------------------------------------------------------
(* The secondary's store. *)

\* notifyInstanceLocked, item by item: a subscriber without room is closed.
notify(s, items) ==
  LET room == SubBuffer - Len(s.q)
  IN  IF s.st # "open" THEN s
      ELSE IF Len(items) <= room THEN [s EXCEPT !.q = @ \o items]
      ELSE [st |-> "closed", q |-> s.q \o SubSeq(items, 1, room)]

\* The status held in memory for i, 0 for none.
clockOf(i) == IF i \in held THEN latest[i] ELSE 0

stateLocked(ids) == [k \in DOMAIN ids |-> State(ids[k], clockOf(ids[k]))]

MustWriteScheduledInstanceStatus(i) ==
  /\ i \in held /\ latest[i] < scope.clocks
  /\ latest' = [latest EXCEPT ![i] = @ + 1]
  /\ sub' = notify(sub, <<State(i, latest'[i])>>)
  /\ UNCHANGED <<tables, publisher, stream, held, batch, lastSent, replay, lost, refusals, boots>>

\* Mutant: assignments missing from a snapshot are kept.
absentNone(frame) == IF frame.snapshot THEN {} ELSE {}

\* A snapshot is the complete set of assignments.
absent(frame) == IF frame.snapshot THEN held \ Range(frame.rows) ELSE {}

MustApplyAssignments(frame) ==
  /\ held' = IF frame.final THEN held \ Range(frame.rows)
             ELSE (held \cup Range(frame.rows)) \ absent(frame)
  /\ \E gone \in Sorted(absent(frame)) : sub' = notify(sub, stateLocked(frame.rows \o gone))

\* applyProjectionFrame: a frame whose map is refused changes nothing.  After a
\* snapshot the history beyond the primary's watermarks is replayed, and the next
\* frame waits for that.
applyProjectionFrame ==
  /\ open /\ down \notin {None, <<>>} /\ replay = <<>>
  /\ down' = Tail(down)
  /\ LET frame == Head(down) IN
     \/ /\ MustApplyAssignments(frame)
        /\ replay' = IF frame.snapshot
                       THEN [k \in DOMAIN frame.rows |->
                               [id |-> frame.rows[k], from |-> frame.watermark[frame.rows[k]], to |-> None]]
                       ELSE <<>>
        /\ UNCHANGED <<lost, refusals>>
     \/ /\ refusals < scope.refusals /\ refusals' = refusals + 1
        /\ lost' = TRUE
        /\ UNCHANGED <<held, sub, replay>>
  /\ UNCHANGED <<tables, publisher, n, open, wire, latest, batch, lastSent, boots>>

-----------------------------------------------------------------------------
(* The secondary's session. *)

\* outbox.Send blocks while there is no room.
Send(i, c) ==
  /\ Len(wire[n]) < OutboxSize
  /\ wire' = [wire EXCEPT ![n] = Append(@, State(i, c))]

\* The history beyond the watermark is read when its turn comes, then sent.
replayStatusHistory ==
  /\ open /\ replay # <<>>
  /\ LET r == Head(replay) IN
     \/ /\ r.to = None
        /\ replay' = <<[r EXCEPT !.to = latest[r.id]]>> \o Tail(replay)
        /\ UNCHANGED wire
     \/ /\ r.to # None /\ r.from < r.to
        /\ Send(r.id, r.from + 1)
        /\ replay' = <<[r EXCEPT !.from = @ + 1]>> \o Tail(replay)
     \/ /\ r.to # None /\ r.from >= r.to
        /\ replay' = Tail(replay)
        /\ UNCHANGED wire
  /\ UNCHANGED <<tables, publisher, n, open, down, store, push, lost, refusals, boots>>

NoSub == [st |-> "none", q |-> <<>>]
Open == [st |-> "open", q |-> <<>>]

\* Mutant: a closed subscription ends the loop.
subscribesOnce(s) == s.st = "none"

subscribes(s) == s.st = "none" \/ (s.st = "closed" /\ s.q = <<>>)

\* statusPushLoop.  What it finds when it first subscribes is left to the replay;
\* when it subscribes again it pushes all of it.
statusPushLoop ==
  /\ open
  /\ \/ /\ batch = <<>> /\ subscribes(sub)
        /\ sub' = Open
        /\ IF sub.st = "none" THEN batch' = <<>>
           ELSE \E ids \in Orders(held) : batch' = stateLocked(ids)
        /\ UNCHANGED <<lastSent, wire>>
     \/ /\ batch = <<>> /\ sub.q # <<>>
        /\ batch' = <<Head(sub.q)>>
        /\ sub' = [sub EXCEPT !.q = Tail(@)]
        /\ UNCHANGED <<lastSent, wire>>
     \/ /\ batch # <<>>
        /\ LET s == Head(batch) IN
           \/ /\ s.clock > lastSent[s.id]
              /\ lastSent' = [lastSent EXCEPT ![s.id] = s.clock]
              /\ Send(s.id, s.clock)
           \/ /\ s.clock <= lastSent[s.id]
              /\ UNCHANGED <<lastSent, wire>>
        /\ batch' = Tail(batch)
        /\ UNCHANGED sub
  /\ UNCHANGED <<tables, publisher, n, open, down, store, replay, lost, refusals, boots>>

Idle ==
  /\ open' = FALSE /\ down' = None /\ replay' = <<>> /\ lost' = FALSE
  /\ sub' = NoSub /\ batch' = <<>> /\ lastSent' = [i \in Instances |-> 0]

runSession ==
  /\ ~open /\ n < scope.sessions
  /\ n' = n + 1 /\ open' = TRUE
  /\ wire' = [s \in 1..n' |-> IF s = n' THEN <<>> ELSE wire[s]]
  /\ UNCHANGED <<tables, publisher, down, store, push, replay, lost, refusals, boots>>

\* The connection breaks, at either end, or the secondary's process restarts: what
\* it holds is durable.  The primary may still read what had reached it.
Disconnect ==
  /\ open /\ n < scope.sessions
  /\ Idle
  /\ \E k \in 0..Len(wire[n]) : wire' = [wire EXCEPT ![n] = SubSeq(@, 1, k)]
  /\ UNCHANGED <<tables, publisher, n, store, refusals, boots>>

\* The primary restarts over its tables, or over a backup that lacks some of the
\* statuses, and the publisher reads them.
Restart ==
  /\ boots < scope.boots /\ boots' = boots + 1
  /\ n < scope.sessions
  /\ \E back \in [Instances -> 0..scope.clocks] :
       /\ \A i \in Instances : back[i] <= status[i]
       /\ status' = back
  /\ feed' = None
  /\ known' = {i \in Instances : inst[i] \in Live}
  /\ watermark' = [i \in Instances |-> IF inst[i] \in Live THEN status'[i] ELSE 0]
  /\ Idle
  /\ wire' = [s \in 1..n |-> <<>>]
  /\ UNCHANGED <<inst, n, store, refusals>>

-----------------------------------------------------------------------------
Init ==
  /\ inst = [i \in Instances |-> "none"] /\ status = [i \in Instances |-> 0]
  /\ feed = None /\ known = {} /\ watermark = [i \in Instances |-> 0]
  /\ n = 0 /\ open = FALSE /\ down = None /\ wire = <<>>
  /\ held = {} /\ latest = [i \in Instances |-> 0]
  /\ sub = NoSub /\ batch = <<>> /\ lastSent = [i \in Instances |-> 0]
  /\ replay = <<>> /\ lost = FALSE /\ refusals = 0 /\ boots = 0
  /\ scope \in Scopes

Next ==
  /\ \/ \E i \in Instances : \/ \E to \in Live \cup {"final"} : Schedule(i, to)
                             \/ MustWriteScheduledInstanceStatus(i)
     \/ \E s \in DOMAIN wire : handleIncoming(s)
     \/ handle \/ Subscribe \/ applyProjectionFrame \/ replayStatusHistory \/ statusPushLoop
     \/ runSession \/ Disconnect \/ Restart
  /\ UNCHANGED scope

Spec == Init /\ [][Next]_<<vars, scope>>

\* Every goroutine of both processes runs, and the secondary reconnects.
Fairness ==
  /\ WF_vars(handle) /\ WF_vars(Subscribe) /\ WF_vars(applyProjectionFrame)
  /\ WF_vars(replayStatusHistory) /\ WF_vars(statusPushLoop) /\ WF_vars(runSession)
  /\ WF_vars(\E s \in DOMAIN wire : handleIncoming(s))

FairSpec == Spec /\ Fairness

-----------------------------------------------------------------------------
\* Within one primary database no status row goes back to an older observation,
\* although a replay, the push loop and the readers of earlier sessions deliver
\* out of order (writeStatus).
StatusForward == [][boots' = boots => \A i \in Instances : status'[i] >= status[i]]_vars

\* Nothing is on its way in either direction.
Quiet ==
  /\ open /\ down = <<>> /\ feed = None /\ \A s \in DOMAIN wire : wire[s] = <<>>
  /\ replay = <<>> /\ batch = <<>> /\ sub = Open /\ ~lost

Agreed ==
  /\ held = {i \in Instances : inst[i] \in Live}
  /\ \A i \in held : status[i] = latest[i]

\* When nothing is on its way the secondary holds the primary's assignments and
\* the primary has the newest status of each: between the replay from the
\* watermark, the subscription that leaves out what it finds, the resubscription
\* after an overflow and what broken sessions lost, no report is missed.
NothingMissed == Quiet => Agreed

\* The two end up agreeing, after any breaks, overflows and primary restarts,
\* unless the last session refused a frame.
CatchesUp == <>[]~lost => <>[](open /\ Agreed)
=============================================================================
