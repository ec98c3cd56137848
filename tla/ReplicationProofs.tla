------------------------- MODULE ReplicationProofs -------------------------
(***************************************************************************)
(* Proofs about StatusReplication, for any number of instances, sessions,  *)
(* restarts and any sizes of the outbox and of the subscription.           *)
(*                                                                         *)
(* NothingMissed says what holds when nothing is on its way.  The argument *)
(* follows what is on its way: of the assignments, the last frame about an *)
(* instance tells what the publisher knows of it; of the statuses, the     *)
(* newest one of an instance is at the primary, on a wire, in the push     *)
(* loop's hands, or still to be replayed.                                  *)
(***************************************************************************)
EXTENDS StatusReplication, TLAPS

-----------------------------------------------------------------------------
(* The inductive invariant. *)

States == [id : Instances, clock : Nat]
Gap == [id : Instances, from : Nat, to : Nat \cup {None}]
Subscription == [st : {"none", "open", "closed"}, q : Seq(States)]

\* The type invariant.
TypeOK ==
  /\ inst \in [Instances -> Live \cup {"none", "final"}]
  /\ status \in [Instances -> Nat]
  /\ feed \in Commit \cup {None}
  /\ known \in SUBSET Instances
  /\ watermark \in [Instances -> Nat]
  /\ n \in Nat /\ open \in BOOLEAN
  /\ down \in Seq(Frame) \cup {None}
  /\ wire \in [1..n -> Seq(States)]
  /\ held \in SUBSET Instances
  /\ latest \in [Instances -> Nat]
  /\ sub \in Subscription
  /\ batch \in Seq(States)
  /\ lastSent \in [Instances -> Nat]
  /\ replay \in Seq(Gap)
  /\ lost \in BOOLEAN /\ refusals \in Nat /\ boots \in Nat
  /\ scope \in Scope

\* Between sessions the secondary has no session state (Idle).  A served session
\* has a subscribed push loop where scope.prompt assumes so.
SessionOK ==
  /\ ~open => down = None /\ replay = <<>> /\ batch = <<>> /\ sub = NoSub
              /\ lastSent = [i \in Instances |-> 0]
  /\ open => n \in DOMAIN wire
  /\ scope.prompt /\ down # None => sub.st # "none"

\* The publisher knows the live instances, up to the commit it has not folded
\* (applyInstance).
KnownOK ==
  /\ feed # None /\ feed.clock = None => inst[feed.id] # "none"
  /\ feed # None /\ feed.clock # None => feed.clock <= status[feed.id]
  /\ \A i \in Instances :
       /\ i \in known => inst[i] # "none"
       /\ (feed # None /\ feed.clock = None /\ feed.id = i) \/ (i \in known <=> inst[i] \in Live)

\* A snapshot comes first; what a frame assigns or removes, and what the secondary
\* holds, agrees with the tables up to finalized instances (MustApplyAssignments).
FramesOK ==
  /\ \A i \in held : i \in known \/ inst[i] = "final"
  /\ \A i \in Instances \ held : latest[i] = 0 \/ inst[i] = "final"
  /\ down # None => \A k \in 1..Len(down) :
       LET frame == down[k] IN
       /\ frame.snapshot => k = 1 /\ ~frame.final
       /\ \A i \in Range(frame.rows) : IF frame.final THEN inst[i] = "final"
                                       ELSE i \in known \/ inst[i] = "final"
       /\ frame.snapshot => /\ \A i \in Instances : frame.watermark[i] <= status[i]
                            /\ \A i \in held \ Range(frame.rows) : inst[i] = "final"

\* The frames that say something of i, and what they say.
About(frame, i) == frame.snapshot \/ i \in Range(frame.rows)
Assigns(frame, i) == ~frame.final /\ i \in Range(frame.rows)

\* The last frame about an instance, or else what the secondary holds, tells whether
\* the publisher knows it.
Told ==
  open /\ down # None /\ ~lost => \A i \in Instances :
    /\ \A k \in 1..Len(down) :
         About(down[k], i) /\ (\A j \in (k+1)..Len(down) : ~About(down[j], i))
           => (Assigns(down[k], i) <=> i \in known)
    /\ (\A k \in 1..Len(down) : ~About(down[k], i)) => (i \in held <=> i \in known)

\* No clock anywhere is ahead of the secondary's newest (BumpUpdatedAt).
Past(s) == s.clock <= latest[s.id]
ClocksOK ==
  /\ \A i \in Instances : status[i] <= latest[i] /\ watermark[i] <= status[i]
  /\ \A s \in DOMAIN wire : \A m \in Range(wire[s]) : Past(m)
  /\ \A m \in Range(batch) : Past(m)
  /\ \A m \in Range(sub.q) : Past(m)
  /\ \A r \in Range(replay) : r.to # None => r.to <= latest[r.id]

\* The primary has, or is about to read, a status of i as new as c, or no longer
\* cares about i.
Delivered(i, c) ==
  \/ status[i] >= c
  \/ inst[i] = "final"
  \/ \E s \in DOMAIN wire : \E m \in Range(wire[s]) : m.id = i /\ m.clock >= c

\* What the push loop has pushed and what the replay has passed is delivered.
SentOK ==
  open => /\ \A i \in Instances : Delivered(i, lastSent[i])
          /\ \A r \in Range(replay) : Delivered(r.id, r.from)

\* The newest status of i is with the push loop, or the subscription it was too much
\* for is about to be replaced.
Pushing(i) == State(i, latest[i]) \in Range(batch) \cup Range(sub.q) \/ sub.st = "closed"

\* It is still to be replayed.
Replaying(i) == \E r \in Range(replay) : r.id = i /\ (r.to = None \/ (r.from < r.to /\ r.to = latest[i]))

\* Once the session is served the newest status of every assignment is accounted for.
Covered ==
  open /\ down # None /\ ~lost /\ scope.prompt =>
    \/ down # <<>> /\ down[1].snapshot
    \/ \A i \in held : Delivered(i, latest[i]) \/ Pushing(i) \/ Replaying(i)

IInv == TypeOK /\ SessionOK /\ KnownOK /\ FramesOK /\ Told /\ ClocksOK /\ SentOK /\ Covered

-----------------------------------------------------------------------------
(* Sequences. *)

\* Taking the first element (handleIncoming, statusPushLoop).
LEMMA HeadTail ==
  ASSUME NEW S, NEW s \in Seq(S), s # <<>>
  PROVE  /\ Head(s) \in S /\ Tail(s) \in Seq(S)
         /\ Range(s) = {Head(s)} \cup Range(Tail(s))
<1>1. Head(s) \in S /\ Tail(s) \in Seq(S) /\ Len(s) \in Nat \ {0}
  OBVIOUS
<1>2. Range(s) \subseteq {Head(s)} \cup Range(Tail(s))
  <2> SUFFICES ASSUME NEW k \in 1..Len(s) PROVE s[k] = Head(s) \/ s[k] \in Range(Tail(s))
    BY DEF Range
  <2>1. CASE k = 1
    BY <2>1
  <2>2. CASE k # 1
    <3>1. k - 1 \in DOMAIN Tail(s) /\ Tail(s)[k - 1] = s[k]
      BY <1>1, <2>2
    <3> QED
      BY <3>1, Zenon DEF Range
  <2> QED
    BY <2>1, <2>2, Zenon
<1>3. {Head(s)} \cup Range(Tail(s)) \subseteq Range(s)
  <2>1. 1 \in DOMAIN s /\ Head(s) = s[1]
    BY <1>1
  <2>2. ASSUME NEW k \in DOMAIN Tail(s) PROVE Tail(s)[k] = s[k + 1] /\ k + 1 \in DOMAIN s
    BY <1>1
  <2> QED
    BY <2>1, <2>2 DEF Range
<1> QED
  BY <1>1, <1>2, <1>3, Zenon

\* Sending (outbox.Send).
LEMMA Appended ==
  ASSUME NEW S, NEW s \in Seq(S), NEW e \in S
  PROVE  Append(s, e) \in Seq(S) /\ Range(Append(s, e)) = Range(s) \cup {e}
<1>1. /\ Append(s, e) \in Seq(S) /\ Len(Append(s, e)) = Len(s) + 1 /\ Len(s) \in Nat
      /\ \A k \in 1..Len(s) : Append(s, e)[k] = s[k]
      /\ Append(s, e)[Len(s) + 1] = e
  OBVIOUS
<1>2. DOMAIN s = 1..Len(s) /\ DOMAIN Append(s, e) = 1..(Len(s) + 1)
  BY <1>1
<1>3. \A k \in 1..(Len(s) + 1) : k = Len(s) + 1 \/ k \in 1..Len(s)
  BY <1>1
<1>4. Len(s) + 1 \in 1..(Len(s) + 1) /\ 1..Len(s) \subseteq 1..(Len(s) + 1)
  BY <1>1
<1> QED
  BY <1>1, <1>2, <1>3, <1>4, Zenon DEF Range

\* Notifying of several items (MustApplyAssignments).
LEMMA Joined ==
  ASSUME NEW S, NEW s \in Seq(S), NEW t \in Seq(S)
  PROVE  s \o t \in Seq(S) /\ Range(s \o t) = Range(s) \cup Range(t)
<1>1. /\ s \o t \in Seq(S) /\ Len(s \o t) = Len(s) + Len(t) /\ Len(s) \in Nat /\ Len(t) \in Nat
      /\ \A k \in 1..(Len(s) + Len(t)) : (s \o t)[k] = IF k <= Len(s) THEN s[k] ELSE t[k - Len(s)]
  OBVIOUS
<1>2. DOMAIN s = 1..Len(s) /\ DOMAIN t = 1..Len(t) /\ DOMAIN (s \o t) = 1..(Len(s) + Len(t))
  BY <1>1
<1>3. Range(s \o t) \subseteq Range(s) \cup Range(t)
  <2> SUFFICES ASSUME NEW k \in 1..(Len(s) + Len(t)) PROVE (s \o t)[k] \in Range(s) \cup Range(t)
    BY <1>2, Zenon DEF Range
  <2>1. CASE k <= Len(s)
    <3>1. k \in DOMAIN s /\ (s \o t)[k] = s[k]
      BY <1>1, <1>2, <2>1
    <3> QED
      BY <3>1, Zenon DEF Range
  <2>2. CASE ~(k <= Len(s))
    <3>1. k - Len(s) \in DOMAIN t /\ (s \o t)[k] = t[k - Len(s)]
      BY <1>1, <1>2, <2>2
    <3> QED
      BY <3>1, Zenon DEF Range
  <2> QED
    BY <2>1, <2>2, Zenon
<1>4. ASSUME NEW k \in DOMAIN s PROVE s[k] \in Range(s \o t)
  <2>1. k \in DOMAIN (s \o t) /\ (s \o t)[k] = s[k]
    BY <1>1, <1>2
  <2> QED
    BY <2>1, Zenon DEF Range
<1>5. ASSUME NEW k \in DOMAIN t PROVE t[k] \in Range(s \o t)
  <2>1. k + Len(s) \in DOMAIN (s \o t) /\ (s \o t)[k + Len(s)] = t[k]
    BY <1>1, <1>2
  <2> QED
    BY <2>1, Zenon DEF Range
<1> QED
  BY <1>1, <1>3, <1>4, <1>5, Zenon DEF Range

\* What had reached the primary when a connection broke (Disconnect), or fitted into
\* the subscription (notifyInstanceLocked).
LEMMA Cut ==
  ASSUME NEW S, NEW s \in Seq(S), NEW k \in Int, k <= Len(s)
  PROVE  SubSeq(s, 1, k) \in Seq(S) /\ Range(SubSeq(s, 1, k)) \subseteq Range(s)
<1>1. CASE k < 1
  <2>1. SubSeq(s, 1, k) = <<>>
    BY <1>1
  <2> QED
    BY <2>1 DEF Range
<1>2. CASE k >= 1
  <2>1. /\ SubSeq(s, 1, k) \in Seq(S) /\ Len(SubSeq(s, 1, k)) = k
        /\ \A j \in 1..k : SubSeq(s, 1, k)[j] = s[j] /\ j \in DOMAIN s
    BY <1>2
  <2> QED
    BY <2>1 DEF Range
<1> QED
  BY <1>1, <1>2

\* An enumeration of a set of instances lists exactly that set (slices.Sort, and the
\* iteration over the store's map).
LEMMA Ordered ==
  ASSUME NEW T \in SUBSET Instances, NEW s \in Orders(T)
  PROVE  s \in Seq(Instances) /\ Range(s) = T
<1>1. PICK k \in 0..N : s \in [1..k -> T]
  BY Zenon DEF Orders
<1>2. k \in Nat
  BY ReplicationAssumption
<1>3. s \in [1..k -> Instances]
  BY <1>1, Zenon
<1>4. s \in Seq(Instances)
  BY <1>2, <1>3
<1> QED
  BY <1>4, Zenon DEF Orders

\* The states listed for some instances (snapshotLocked).
LEMMA Listed ==
  ASSUME TypeOK, NEW ids \in Seq(Instances)
  PROVE  /\ stateLocked(ids) \in Seq(States)
         /\ Range(stateLocked(ids)) = {State(i, clockOf(i)) : i \in Range(ids)}
<1>1. \A i \in Instances : State(i, clockOf(i)) \in States
  BY Zenon DEF TypeOK, State, clockOf, States
<1>2. Len(ids) \in Nat /\ DOMAIN ids = 1..Len(ids) /\ \A k \in 1..Len(ids) : ids[k] \in Instances
  OBVIOUS
<1>3. stateLocked(ids) \in [1..Len(ids) -> States]
  BY <1>1, <1>2, Zenon DEF stateLocked
<1>4. stateLocked(ids) \in Seq(States)
  BY <1>2, <1>3
<1>5. Range(stateLocked(ids)) = {State(i, clockOf(i)) : i \in Range(ids)}
  BY <1>2, Zenon DEF stateLocked, Range
<1> QED
  BY <1>4, <1>5, Zenon

\* A subscriber gets every item or is closed, and keeps what it had
\* (notifyInstanceLocked).
LEMMA Notified ==
  ASSUME NEW s \in Subscription, NEW items \in Seq(States), NEW t, t = notify(s, items)
  PROVE  /\ t \in Subscription
         /\ Range(s.q) \subseteq Range(t.q) /\ Range(t.q) \subseteq Range(s.q) \cup Range(items)
         /\ t.st = "open" => Range(items) \subseteq Range(t.q)
         /\ (t.st = "none") = (s.st = "none")
         /\ s.st = "closed" => t.st = "closed"
         /\ t.st # s.st => t.st = "closed"
<1>1. s.q \in Seq(States) /\ s.st \in {"none", "open", "closed"} /\ s = [st |-> s.st, q |-> s.q]
  BY Zenon DEF Subscription
<1>2. CASE s.st # "open"
  BY <1>1, <1>2, Zenon DEF notify
<1>3. CASE s.st = "open" /\ Len(items) <= SubBuffer - Len(s.q)
  <2>1. t = [st |-> "open", q |-> s.q \o items]
    BY <1>1, <1>3, Zenon DEF notify
  <2>2. s.q \o items \in Seq(States) /\ Range(s.q \o items) = Range(s.q) \cup Range(items)
    BY <1>1, Joined
  <2> QED
    BY <1>1, <1>3, <2>1, <2>2 DEF Subscription
<1>4. CASE s.st = "open" /\ ~(Len(items) <= SubBuffer - Len(s.q))
  <2> DEFINE fit == SubSeq(items, 1, SubBuffer - Len(s.q))
  <2>1. t = [st |-> "closed", q |-> s.q \o fit]
    BY <1>4, Zenon DEF notify
  <2>2. SubBuffer - Len(s.q) \in Int /\ SubBuffer - Len(s.q) <= Len(items)
    BY <1>1, <1>4, ReplicationAssumption
  <2>3. fit \in Seq(States) /\ Range(fit) \subseteq Range(items)
    BY <2>2, Cut, Zenon
  <2> HIDE DEF fit
  <2>4. s.q \o fit \in Seq(States) /\ Range(s.q \o fit) = Range(s.q) \cup Range(fit)
    BY <1>1, <2>3, Joined
  <2>5. t.st = "closed" /\ t.q = s.q \o fit
    BY <2>1
  <2>6. t \in Subscription
    BY <2>1, <2>4 DEF Subscription
  <2> QED
    BY <1>4, <2>3, <2>4, <2>5, <2>6, Zenon
<1> QED
  BY <1>2, <1>3, <1>4, Zenon

-----------------------------------------------------------------------------
(* What the steps have in common. *)

\* No delivery is undone.
Keeps == \A i \in Instances, c \in Nat : Delivered(i, c) => Delivered(i, c)'

\* Deliveries stand while status rows and wires only grow.
LEMMA Growing ==
  ASSUME TypeOK, status' \in [Instances -> Nat],
         \A i \in Instances : status'[i] >= status[i],
         \A i \in Instances : inst[i] = "final" => inst'[i] = "final",
         \A s \in DOMAIN wire : s \in DOMAIN wire' /\ Range(wire[s]) \subseteq Range(wire'[s])
  PROVE  Keeps
<1> SUFFICES ASSUME NEW i \in Instances, NEW c \in Nat, Delivered(i, c) PROVE Delivered(i, c)'
  BY Zenon DEF Keeps
<1>1. CASE status[i] >= c
  BY <1>1 DEF TypeOK, Delivered
<1>2. CASE inst[i] = "final"
  BY <1>2, Zenon DEF Delivered
<1>3. CASE \E s \in DOMAIN wire : \E m \in Range(wire[s]) : m.id = i /\ m.clock >= c
  BY <1>3, Zenon DEF Delivered
<1> QED
  BY <1>1, <1>2, <1>3, Zenon DEF Delivered

\* What was sent stays delivered.
LEMMA SentStays ==
  ASSUME TypeOK, SentOK, Keeps, UNCHANGED <<open, lastSent, replay>>
  PROVE  SentOK'
<1> SUFFICES ASSUME open PROVE SentOK'
  BY Zenon DEF SentOK
<1>1. ASSUME NEW i \in Instances PROVE Delivered(i, lastSent[i])'
  BY Zenon DEF TypeOK, SentOK, Keeps
<1>2. ASSUME NEW r \in Range(replay) PROVE Delivered(r.id, r.from)'
  <2>1. r \in Gap
    BY DEF TypeOK, Range
  <2>2. r.id \in Instances /\ r.from \in Nat
    BY <2>1, Zenon DEF Gap
  <2> QED
    BY <2>2, Zenon DEF SentOK, Keeps
<1> QED
  BY <1>1, <1>2, Zenon DEF SentOK

\* The newest statuses stay accounted for in a step that leaves the secondary alone.
LEMMA CoveredStays ==
  ASSUME TypeOK, Covered, Keeps,
         UNCHANGED <<open, held, latest, batch, sub, replay, lost, scope>>,
         down' # None => down # None,
         down # None /\ down # <<>> /\ down[1].snapshot => down' # <<>> /\ down'[1].snapshot
  PROVE  Covered'
<1> SUFFICES ASSUME open, down' # None, ~lost, scope.prompt, ~(down' # <<>> /\ down'[1].snapshot),
                    NEW i \in held
             PROVE  (Delivered(i, latest[i]) \/ Pushing(i) \/ Replaying(i))'
  BY Zenon DEF Covered
<1>1. Delivered(i, latest[i]) \/ Pushing(i) \/ Replaying(i)
  BY Zenon DEF Covered
<1>2. Delivered(i, latest[i]) => Delivered(i, latest[i])'
  BY Zenon DEF TypeOK, Keeps
<1>3. Pushing(i) => Pushing(i)'
  BY Zenon DEF Pushing
<1>4. Replaying(i) => Replaying(i)'
  BY Zenon DEF Replaying
<1> QED
  BY <1>1, <1>2, <1>3, <1>4, Zenon

-----------------------------------------------------------------------------
(* Every step preserves the invariant. *)

\* The scheduler's commits (state.Service).
LEMMA ScheduleStep ==
  ASSUME IInv, NEW i \in Instances, NEW to \in Live \cup {"final"}, Schedule(i, to), UNCHANGED scope
  PROVE  IInv'
<1> USE DEF IInv, Schedule, tables, publisher, stream, store, push
<1>1. /\ inst[i] # "final" /\ inst' = [inst EXCEPT ![i] = to]
      /\ inst[i] \in Live => to \in Live \cup {"final"}
      /\ inst[i] = "none" => to = "run"
  BY Zenon
<1>2. feed' \in Commit /\ feed' # None /\ feed'.id = i /\ feed'.clock = None
  BY ReplicationAssumption DEF Commit
<1>3. TypeOK'
  BY <1>1, <1>2, Zenon DEF TypeOK
<1>4. \A j \in Instances : /\ inst[j] = "final" => inst'[j] = "final"
                           /\ inst'[j] # "none" \/ (inst[j] = "none" /\ j # i)
                           /\ j # i => inst'[j] = inst[j]
  BY <1>1, Zenon DEF TypeOK, Live
<1>5. SessionOK'
  BY Zenon DEF SessionOK
<1>6. KnownOK'
  BY <1>2, <1>4, Zenon DEF KnownOK, TypeOK
<1>7. FramesOK'
  BY <1>4 DEF FramesOK, TypeOK
<1>8. Told'
  BY Zenon DEF Told, About, Assigns
<1>9. ClocksOK'
  BY Zenon DEF ClocksOK, Past
<1>10. Keeps
  BY <1>4, Growing DEF TypeOK
<1>11. SentOK'
  BY <1>10, SentStays, Zenon
<1>12. Covered'
  BY <1>10, CoveredStays, Zenon
<1> QED
  BY <1>3, <1>5, <1>6, <1>7, <1>8, <1>9, <1>11, <1>12, Zenon

\* A reader of the primary takes a status: it is written, stale or of a finalized
\* instance (handleStatusWrite, writeStatus).
LEMMA IncomingStep ==
  ASSUME IInv, NEW s \in DOMAIN wire, handleIncoming(s), UNCHANGED scope
  PROVE  IInv'
<1> USE DEF IInv, tables, publisher, stream, store, push
<1> DEFINE m == Head(wire[s])
<1>1. wire[s] \in Seq(States) /\ wire[s] # <<>>
  BY Zenon DEF TypeOK, handleIncoming
<1>2. m \in States /\ Tail(wire[s]) \in Seq(States) /\ Range(wire[s]) = {m} \cup Range(Tail(wire[s]))
  BY <1>1, HeadTail, Zenon
<1>3. m.id \in Instances /\ m.clock \in Nat
  BY <1>2, Zenon DEF States
<1>4. /\ wire' \in [1..n -> Seq(States)] /\ wire'[s] = Tail(wire[s])
      /\ \A t \in DOMAIN wire : t # s => wire'[t] = wire[t]
      /\ DOMAIN wire' = DOMAIN wire
      /\ UNCHANGED <<inst, known, watermark, n, open, down, held, latest, sub, batch, lastSent, replay,
                     lost, refusals, boots>>
  BY <1>2, Zenon DEF TypeOK, handleIncoming
<1>5. \/ /\ status' = [status EXCEPT ![m.id] = m.clock] /\ feed' = State(m.id, m.clock) /\ feed = None
         /\ ~(m.clock < status[m.id])
      \/ /\ inst[m.id] = "final" \/ m.clock < status[m.id]
         /\ UNCHANGED <<status, feed>>
  BY Zenon DEF handleIncoming, handleStatusWrite, stale
<1> HIDE DEF m
<1>6. /\ status' \in [Instances -> Nat] /\ \A i \in Instances : status'[i] >= status[i]
      /\ status'[m.id] >= m.clock \/ inst[m.id] = "final"
  <2>1. status \in [Instances -> Nat]
    BY Zenon DEF TypeOK
  <2> QED
    BY <1>3, <1>5, <2>1
<1>7. \/ UNCHANGED <<status, feed>>
      \/ feed' \in Commit /\ feed'.clock # None /\ feed'.id = m.id /\ feed'.clock = status'[m.id] /\ feed = None
  <2>1. status \in [Instances -> Nat]
    BY Zenon DEF TypeOK
  <2>2. ASSUME feed' = State(m.id, m.clock)
        PROVE  feed' \in Commit /\ feed'.id = m.id /\ feed'.clock = m.clock
    BY <1>3, <2>2, Zenon DEF State, Commit
  <2> QED
    BY <1>3, <1>5, <2>1, <2>2, ReplicationAssumption, Zenon
<1>8. TypeOK'
  BY <1>4, <1>6, <1>7, Zenon DEF TypeOK
<1>9. SessionOK'
  BY <1>4, Zenon DEF SessionOK
<1>10. KnownOK'
  <2>1. UNCHANGED <<status, feed>> => KnownOK'
    BY <1>4, Zenon DEF KnownOK
  <2>2. feed = None /\ feed' # None /\ feed'.clock # None /\ feed'.id = m.id /\ feed'.clock = status'[m.id] => KnownOK'
    BY <1>3, <1>4, <1>6 DEF KnownOK
  <2> QED
    BY <1>7, <2>1, <2>2, ReplicationAssumption, Zenon
<1>11. FramesOK'
  <2>1. ASSUME down # None, NEW k \in 1..Len(down), down[k].snapshot, NEW i \in Instances
        PROVE  down[k].watermark[i] <= status'[i]
    <3>1. down[k] \in Frame
      BY <2>1 DEF TypeOK
    <3>2. down[k].watermark[i] \in Nat
      BY <3>1, Zenon DEF Frame
    <3>3. down[k].watermark[i] <= status[i]
      BY <2>1, Zenon DEF FramesOK
    <3>4. status[i] \in Nat /\ status'[i] \in Nat /\ status'[i] >= status[i]
      BY <1>6, Zenon DEF TypeOK
    <3> QED
      BY <3>2, <3>3, <3>4
  <2> QED
    BY <1>4, <2>1 DEF FramesOK
<1>12. Told'
  BY <1>4, Zenon DEF Told, About, Assigns
<1>13. ClocksOK'
  <2>1. Past(m) /\ \A i \in Instances : status'[i] <= latest[i] /\ watermark[i] <= status'[i]
    <3>1. Past(m)
      BY <1>2, Zenon DEF ClocksOK
    <3>2. status \in [Instances -> Nat] /\ watermark \in [Instances -> Nat] /\ latest \in [Instances -> Nat]
      BY Zenon DEF TypeOK
    <3>3. \A i \in Instances : status[i] <= latest[i] /\ watermark[i] <= status[i]
      BY Zenon DEF ClocksOK
    <3> QED
      BY <1>3, <1>5, <3>1, <3>2, <3>3 DEF Past
  <2> QED
    BY <1>2, <1>4, <2>1, Zenon DEF ClocksOK, Past
<1>14. Keeps
  <2> SUFFICES ASSUME NEW i \in Instances, NEW c \in Nat, Delivered(i, c) PROVE Delivered(i, c)'
    BY Zenon DEF Keeps
  <2>1. CASE status[i] >= c
    BY <1>6, <2>1 DEF TypeOK, Delivered
  <2>2. CASE inst[i] = "final"
    BY <1>4, <2>2, Zenon DEF Delivered
  <2>3. ASSUME NEW t \in DOMAIN wire, NEW w \in Range(wire[t]), w.id = i, w.clock >= c
        PROVE  Delivered(i, c)'
    <3>1. CASE w \in Range(wire'[t])
      BY <1>4, <2>3, <3>1, Zenon DEF Delivered
    <3>2. CASE w \notin Range(wire'[t])
      <4>1. w = m
        BY <1>2, <1>4, <3>2, Zenon
      <4> QED
        BY <1>3, <1>4, <1>6, <2>3, <4>1 DEF Delivered
    <3> QED
      BY <3>1, <3>2, Zenon
  <2> QED
    BY <2>1, <2>2, <2>3, Zenon DEF Delivered
<1>15. SentOK'
  BY <1>4, <1>14, SentStays, Zenon
<1>16. Covered'
  BY <1>4, <1>14, CoveredStays, Zenon
<1> QED
  BY <1>8, <1>9, <1>10, <1>11, <1>12, <1>13, <1>15, <1>16, Zenon

\* The publisher folds a commit, and its frame tells the secondary what it now knows
\* (applyInstance, updateFor).
LEMMA HandleStep ==
  ASSUME IInv, handle, UNCHANGED scope
  PROVE  IInv'
<1> USE DEF IInv, tables, publisher, stream, store, push
<1> DEFINE i == feed.id
           frame == [snapshot |-> FALSE, rows |-> <<i>>, final |-> inst[i] = "final", watermark |-> watermark']
<1>1. /\ feed \in Commit /\ feed # None /\ i \in Instances /\ feed.clock \in Nat \cup {None}
      /\ feed' = None
      /\ UNCHANGED <<inst, status, n, open, wire, held, latest, sub, batch, lastSent, replay, lost,
                     refusals, boots>>
  BY Zenon DEF TypeOK, handle, Commit
<1>2. Keeps
  BY <1>1, Growing DEF TypeOK
<1>3. SentOK'
  BY <1>1, <1>2, SentStays, Zenon
<1>4. CASE feed.clock = None
  <2>1. /\ known' = IF inst[i] = "final" THEN known \ {i} ELSE known \cup {i}
        /\ watermark' = IF inst[i] = "final" THEN [watermark EXCEPT ![i] = 0] ELSE watermark
        /\ down' = IF down = None THEN None ELSE Append(down, frame)
    BY <1>4, Zenon DEF handle
  <2>2. watermark' \in [Instances -> Nat] /\ \A j \in Instances : watermark'[j] <= watermark[j]
    BY <1>1, <2>1 DEF TypeOK
  <2>3. frame \in Frame /\ Range(frame.rows) = {i}
    <3>1. <<i>> \in Seq(Instances) /\ Range(<<i>>) = {i}
      BY <1>1 DEF Range
    <3> QED
      BY <2>2, <3>1, Zenon DEF Frame
  <2> HIDE DEF frame
  <2>4. down # None => /\ down \in Seq(Frame) /\ down' \in Seq(Frame) /\ down' # None
                       /\ Len(down') = Len(down) + 1 /\ down'[Len(down) + 1] = frame
                       /\ \A k \in 1..Len(down) : down'[k] = down[k]
    <3>1. down # None => down \in Seq(Frame)
      BY Zenon DEF TypeOK
    <3>2. down # None => /\ Append(down, frame) \in Seq(Frame) /\ Len(Append(down, frame)) = Len(down) + 1
                         /\ Append(down, frame)[Len(down) + 1] = frame
                         /\ \A k \in 1..Len(down) : Append(down, frame)[k] = down[k]
      BY <2>3, <3>1
    <3> QED
      BY <2>1, <3>1, <3>2, ReplicationAssumption, Zenon
  <2>5. /\ ~frame.snapshot /\ Range(frame.rows) = {i} /\ frame.final = (inst[i] = "final")
        /\ \A j \in Instances : About(frame, j) <=> j = i
        /\ \A j \in Instances : Assigns(frame, j) <=> j = i /\ inst[i] # "final"
    BY <2>3, Zenon DEF frame, About, Assigns
  <2>6. /\ known' \in SUBSET Instances /\ inst[i] # "none"
        /\ \A j \in Instances : j # i => (j \in known' <=> j \in known)
        /\ i \in known' <=> inst[i] # "final"
    BY <1>1, <1>4, <2>1, Zenon DEF TypeOK, KnownOK
  <2> HIDE DEF i, frame
  <2>7. TypeOK'
    BY <1>1, <2>1, <2>2, <2>4, <2>6, Zenon DEF TypeOK
  <2>8. SessionOK'
    BY <1>1, <2>1, <2>4, Zenon DEF SessionOK
  <2>9. KnownOK'
    <3>1. inst \in [Instances -> Live \cup {"none", "final"}]
      BY Zenon DEF TypeOK
    <3>2. \A j \in Instances : j # i => (j \in known <=> inst[j] \in Live)
      BY <1>4, Zenon DEF KnownOK, i
    <3> QED
      BY <1>1, <2>6, <3>1, <3>2, Zenon DEF KnownOK, Live
  <2>10. FramesOK'
    <3>1. \A j \in Instances : j \in known \/ inst[j] = "final" => j \in known' \/ inst[j] = "final"
      BY <2>6, Zenon
    <3>2. \A j \in held : j \in known' \/ inst[j] = "final"
      BY <3>1, Zenon DEF FramesOK, TypeOK
    <3>3. ASSUME down # None, NEW k \in 1..Len(down')
          PROVE  /\ down'[k].snapshot => k = 1 /\ ~down'[k].final
                 /\ \A j \in Range(down'[k].rows) : IF down'[k].final THEN inst[j] = "final"
                                                    ELSE j \in known' \/ inst[j] = "final"
                 /\ down'[k].snapshot => /\ \A j \in Instances : down'[k].watermark[j] <= status[j]
                                         /\ \A j \in held \ Range(down'[k].rows) : inst[j] = "final"
      <4>1. CASE k = Len(down) + 1
        BY <2>4, <2>5, <2>6, <3>3, <4>1, Zenon
      <4>2. CASE k # Len(down) + 1
        <5>1. k \in 1..Len(down) /\ down'[k] = down[k]
          BY <2>4, <3>3, <4>2
        <5>2. Range(down[k].rows) \subseteq Instances
          <6>1. down[k] \in Frame
            BY <2>4, <3>3, <5>1
          <6> QED
            BY <6>1 DEF Frame, Range
        <5> QED
          BY <3>1, <3>3, <5>1, <5>2, Zenon DEF FramesOK
      <4> QED
        BY <4>1, <4>2, Zenon
    <3>4. down' # None => down # None
      BY <2>1, Zenon
    <3> QED
      BY <1>1, <3>2, <3>3, <3>4, Zenon DEF FramesOK
  <2>11. Told'
    <3> SUFFICES ASSUME open, down # None, ~lost, NEW j \in Instances
        PROVE  /\ \A k \in 1..Len(down') :
                    About(down'[k], j) /\ (\A l \in (k+1)..Len(down') : ~About(down'[l], j))
                      => (Assigns(down'[k], j) <=> j \in known')
               /\ (\A k \in 1..Len(down') : ~About(down'[k], j)) => (j \in held <=> j \in known')
      BY <1>1, <2>1, Zenon DEF Told, About, Assigns
    <3>0. Len(down) \in Nat
      BY <2>4
    <3>1. CASE j = i
      <4>1. ASSUME NEW k \in 1..Len(down'), k # Len(down) + 1
            PROVE  ~(\A l \in (k+1)..Len(down') : ~About(down'[l], j))
        <5>1. Len(down) + 1 \in (k+1)..Len(down')
          BY <2>4, <3>0, <4>1
        <5> QED
          BY <2>4, <2>5, <3>1, <5>1, Zenon
      <4> QED
        BY <2>4, <2>5, <2>6, <3>0, <3>1, <4>1
    <3>2. CASE j # i
      <4>1. ~About(down'[Len(down) + 1], j) /\ (j \in known' <=> j \in known)
        BY <2>4, <2>5, <2>6, <3>2, Zenon
      <4>2. ASSUME NEW k \in 1..Len(down'), About(down'[k], j),
                   \A l \in (k+1)..Len(down') : ~About(down'[l], j)
            PROVE  Assigns(down'[k], j) <=> j \in known
        <5>1. k \in 1..Len(down) /\ down'[k] = down[k]
          BY <2>4, <3>0, <4>1, <4>2
        <5>2. \A l \in (k+1)..Len(down) : ~About(down[l], j)
          BY <2>4, <3>0, <4>2
        <5> QED
          BY <4>2, <5>1, <5>2, Zenon DEF Told
      <4>3. (\A k \in 1..Len(down') : ~About(down'[k], j)) => \A k \in 1..Len(down) : ~About(down[k], j)
        BY <2>4, <3>0
      <4> QED
        BY <4>1, <4>2, <4>3, Zenon DEF Told
    <3> QED
      BY <3>1, <3>2, Zenon
  <2>12. ClocksOK'
    <3>1. \A j \in Instances : watermark'[j] <= status[j]
      <4>1. watermark \in [Instances -> Nat] /\ status \in [Instances -> Nat]
        BY Zenon DEF TypeOK
      <4> QED
        BY <2>2, <4>1 DEF ClocksOK
    <3> QED
      BY <1>1, <3>1, Zenon DEF ClocksOK, Past
  <2>13. Covered'
    <3>1. /\ down' # None => down # None
          /\ down # None /\ down # <<>> /\ down[1].snapshot => down' # <<>> /\ down'[1].snapshot
      BY <2>1, <2>4
    <3> QED
      BY <1>1, <1>2, <3>1, CoveredStays, Zenon
  <2> QED
    BY <1>3, <2>7, <2>8, <2>9, <2>10, <2>11, <2>12, <2>13, Zenon
<1>5. CASE feed.clock # None
  <2>1. /\ watermark' = IF i \in known THEN [watermark EXCEPT ![i] = feed.clock] ELSE watermark
        /\ UNCHANGED <<known, down>>
    BY <1>5, Zenon DEF handle
  <2>2. /\ watermark' \in [Instances -> Nat]
        /\ \A j \in Instances : watermark'[j] <= status[j]
    BY <1>1, <1>5, <2>1, Zenon DEF TypeOK, ClocksOK, KnownOK
  <2>3. TypeOK'
    BY <1>1, <2>1, <2>2, Zenon DEF TypeOK
  <2>4. SessionOK'
    BY <1>1, <2>1, Zenon DEF SessionOK
  <2>5. KnownOK'
    BY <1>1, <1>5, <2>1, Zenon DEF KnownOK
  <2>6. FramesOK'
    BY <1>1, <2>1, Zenon DEF FramesOK
  <2>7. Told'
    BY <1>1, <2>1, Zenon DEF Told, About, Assigns
  <2>8. ClocksOK'
    BY <1>1, <2>2, Zenon DEF ClocksOK, Past
  <2>9. Covered'
    BY <1>1, <1>2, <2>1, CoveredStays, Zenon
  <2> QED
    BY <1>3, <2>3, <2>4, <2>5, <2>6, <2>7, <2>8, <2>9, Zenon
<1> QED
  BY <1>1, <1>4, <1>5, Zenon

\* The primary serves the session: its snapshot is what the publisher knows
\* (Subscribe).
LEMMA SubscribeStep ==
  ASSUME IInv, Subscribe, UNCHANGED scope
  PROVE  IInv'
<1> USE DEF IInv, tables, publisher, stream, store, push
<1>1. PICK rows \in Sorted(known) :
        down' = <<[snapshot |-> TRUE, rows |-> rows, final |-> FALSE, watermark |-> watermark]>>
  BY Zenon DEF Subscribe
<1> DEFINE frame == [snapshot |-> TRUE, rows |-> rows, final |-> FALSE, watermark |-> watermark]
<1>2. /\ open /\ down = None /\ (scope.prompt => sub.st = "open")
      /\ UNCHANGED <<inst, status, feed, known, watermark, n, open, wire, held, latest, sub, batch, lastSent,
                     replay, lost, refusals, boots>>
  BY Zenon DEF Subscribe
<1>3. rows \in Seq(Instances) /\ Range(rows) = known
  BY Ordered, Zenon DEF Sorted, TypeOK
<1>4. frame \in Frame
  BY <1>3, Zenon DEF Frame, TypeOK
<1>5. frame.snapshot /\ ~frame.final /\ Range(frame.rows) = known /\ frame.watermark = watermark
  BY <1>3, Zenon
<1> HIDE DEF frame
<1>6. down' \in Seq(Frame) /\ Len(down') = 1 /\ down'[1] = frame /\ down' # None /\ down' # <<>>
  <2>1. down' = <<frame>>
    BY <1>1, Zenon DEF frame
  <2>2. <<frame>> \in Seq(Frame) /\ Len(<<frame>>) = 1 /\ <<frame>>[1] = frame /\ <<frame>> # <<>>
    BY <1>4
  <2> QED
    BY <2>1, <2>2, ReplicationAssumption, Zenon
<1>7. TypeOK'
  BY <1>2, <1>6, Zenon DEF TypeOK
<1>8. SessionOK'
  BY <1>2, Zenon DEF SessionOK
<1>9. KnownOK'
  BY <1>2, Zenon DEF KnownOK
<1>10. FramesOK'
  BY <1>2, <1>5, <1>6 DEF FramesOK, ClocksOK
<1>11. Told'
  <2>1. \A k \in 1..Len(down') : down'[k] = frame
    BY <1>6
  <2>2. \A i \in Instances : About(frame, i) /\ (Assigns(frame, i) <=> i \in known)
    BY <1>5, Zenon DEF About, Assigns
  <2>3. 1 \in 1..Len(down')
    BY <1>6
  <2> QED
    BY <1>2, <2>1, <2>2, <2>3, Zenon DEF Told, About, Assigns
<1>12. ClocksOK'
  BY <1>2, Zenon DEF ClocksOK, Past
<1>13. Keeps
  BY <1>2, Growing DEF TypeOK
<1>14. SentOK'
  BY <1>2, <1>13, SentStays, Zenon
<1>15. Covered'
  BY <1>5, <1>6, Zenon DEF Covered
<1> QED
  BY <1>7, <1>8, <1>9, <1>10, <1>11, <1>12, <1>14, <1>15, Zenon

\* A workload's status is recorded: the push loop is notified of it, or its
\* subscription is closed (MustWriteScheduledInstanceStatus).
LEMMA WriteStep ==
  ASSUME IInv, NEW i \in Instances, MustWriteScheduledInstanceStatus(i), UNCHANGED scope
  PROVE  IInv'
<1> USE DEF IInv, tables, publisher, stream, store, push
<1> DEFINE item == State(i, latest'[i])
<1>1. /\ i \in held /\ latest' = [latest EXCEPT ![i] = @ + 1] /\ sub' = notify(sub, <<item>>)
      /\ UNCHANGED <<inst, status, feed, known, watermark, n, open, down, wire, held, batch, lastSent,
                     replay, lost, refusals, boots>>
  BY Zenon DEF MustWriteScheduledInstanceStatus
<1>2. /\ latest' \in [Instances -> Nat] /\ \A j \in Instances : latest[j] <= latest'[j]
      /\ \A j \in Instances : j # i => latest'[j] = latest[j]
  <2>1. latest \in [Instances -> Nat]
    BY Zenon DEF TypeOK
  <2> QED
    BY <1>1, <2>1
<1>3. item \in States /\ item.id = i /\ item.clock = latest'[i]
  BY <1>2, Zenon DEF State, States
<1> HIDE DEF item
<1>4. <<item>> \in Seq(States) /\ Range(<<item>>) = {item}
  BY <1>3 DEF Range
<1>5. sub \in Subscription
  BY Zenon DEF TypeOK
<1>6. /\ sub' \in Subscription
      /\ Range(sub.q) \subseteq Range(sub'.q) /\ Range(sub'.q) \subseteq Range(sub.q) \cup {item}
      /\ sub'.st = "open" => item \in Range(sub'.q)
      /\ (sub'.st = "none") = (sub.st = "none")
      /\ sub.st = "closed" => sub'.st = "closed"
  BY <1>1, <1>4, <1>5, Notified, Zenon
<1>7. TypeOK'
  BY <1>1, <1>2, <1>6, Zenon DEF TypeOK
<1>8. SessionOK'
  <2>1. ~open => sub' = NoSub
    BY <1>1 DEF SessionOK, notify, NoSub
  <2> QED
    BY <1>1, <1>6, <2>1, Zenon DEF SessionOK
<1>9. KnownOK'
  BY <1>1, Zenon DEF KnownOK
<1>10. FramesOK'
  BY <1>1, <1>2 DEF FramesOK
<1>11. Told'
  BY <1>1, Zenon DEF Told, About, Assigns
<1>12. ClocksOK'
  <2>1. ASSUME NEW m \in States, Past(m) PROVE m.clock <= latest'[m.id]
    BY <1>2, <2>1 DEF Past, States, TypeOK
  <2>2. \A j \in Instances : status[j] <= latest'[j]
    BY <1>2, SMTT(20) DEF ClocksOK, TypeOK
  <2>3. \A s \in DOMAIN wire : \A m \in Range(wire[s]) : m \in States
    BY DEF TypeOK, Range
  <2>4. \A m \in Range(batch) \cup Range(sub.q) : m \in States
    BY <1>5 DEF TypeOK, Range, Subscription
  <2>5. ASSUME NEW r \in Range(replay), r.to # None PROVE r.to <= latest'[r.id]
    <3>1. r \in Gap
      BY DEF TypeOK, Range
    <3>2. r.id \in Instances /\ r.to \in Nat
      BY <2>5, <3>1, Zenon DEF Gap
    <3>3. r.to <= latest[r.id]
      BY <2>5, Zenon DEF ClocksOK
    <3> QED
      BY <1>2, <3>2, <3>3, SMTT(20) DEF TypeOK
  <2>6. \A m \in Range(sub'.q) : m.clock <= latest'[m.id]
    <3>1. item.clock <= latest'[item.id]
      BY <1>2, <1>3
    <3> QED
      BY <1>6, <2>1, <2>4, <3>1, Zenon DEF ClocksOK
  <2> QED
    BY <1>1, <2>1, <2>2, <2>3, <2>4, <2>5, <2>6, Zenon DEF ClocksOK, Past
<1>13. Keeps
  BY <1>1, Growing DEF TypeOK
<1>14. SentOK'
  BY <1>1, <1>13, SentStays, Zenon
<1>15. Covered'
  <2> SUFFICES ASSUME open, down # None, ~lost, scope.prompt, ~(down # <<>> /\ down[1].snapshot),
                      NEW j \in held
               PROVE  (Delivered(j, latest[j]) \/ Pushing(j) \/ Replaying(j))'
    BY <1>1, Zenon DEF Covered
  <2>1. CASE j = i
    <3>1. sub'.st \in {"open", "closed"}
      BY <1>6, Zenon DEF SessionOK, Subscription
    <3> QED
      BY <1>6, <2>1, <3>1, Zenon DEF Pushing, item
  <2>2. CASE j # i
    <3>1. latest'[j] = latest[j] /\ j \in Instances
      BY <1>2, <2>2, Zenon DEF TypeOK
    <3>2. Delivered(j, latest[j]) => Delivered(j, latest[j])'
      BY <1>13, <3>1, Zenon DEF TypeOK, Keeps
    <3>3. Pushing(j) => Pushing(j)'
      BY <1>1, <1>6, <3>1, Zenon DEF Pushing
    <3>4. Replaying(j) => Replaying(j)'
      BY <1>1, <3>1, Zenon DEF Replaying
    <3> QED
      BY <3>2, <3>3, <3>4, Zenon DEF Covered
  <2> QED
    BY <2>1, <2>2, Zenon
<1> QED
  BY <1>7, <1>8, <1>9, <1>10, <1>11, <1>12, <1>14, <1>15, Zenon

\* A frame is applied, or refused with all its rows (applyProjectionFrame,
\* MustApplyAssignments).
LEMMA ApplyStep ==
  ASSUME IInv, applyProjectionFrame, UNCHANGED scope
  PROVE  IInv'
<1> USE DEF IInv, tables, publisher, stream, store, push
<1> DEFINE frame == Head(down)
<1>1. /\ open /\ down # None /\ down # <<>> /\ replay = <<>> /\ down' = Tail(down)
      /\ UNCHANGED <<inst, status, feed, known, watermark, n, open, wire, latest, batch, lastSent, boots>>
  BY Zenon DEF applyProjectionFrame
<1>2. /\ down \in Seq(Frame) /\ frame \in Frame /\ frame = down[1] /\ Len(down) \in Nat \ {0}
      /\ down' \in Seq(Frame) /\ Len(down') = Len(down) - 1 /\ down' # None
      /\ \A k \in 1..Len(down') : down'[k] = down[k + 1] /\ k + 1 \in 1..Len(down)
  <2>1. down \in Seq(Frame)
    BY <1>1, Zenon DEF TypeOK
  <2> QED
    BY <1>1, <2>1, ReplicationAssumption, SMTT(20)
<1> HIDE DEF frame
<1>3. /\ frame.rows \in Seq(Instances) /\ Range(frame.rows) \subseteq Instances
      /\ frame.watermark \in [Instances -> Nat] /\ frame.snapshot \in BOOLEAN /\ frame.final \in BOOLEAN
  BY <1>2 DEF Frame, Range
<1>4. 1 \in 1..Len(down)
  BY <1>2
<1>5. /\ frame.snapshot => ~frame.final
      /\ \A i \in Range(frame.rows) : IF frame.final THEN inst[i] = "final" ELSE i \in known \/ inst[i] = "final"
      /\ frame.snapshot => /\ \A i \in Instances : frame.watermark[i] <= status[i]
                           /\ \A i \in held \ Range(frame.rows) : inst[i] = "final"
  BY <1>1, <1>2, <1>4, Zenon DEF FramesOK
<1>6. \A k \in 1..Len(down') :
        /\ ~down'[k].snapshot
        /\ \A i \in Range(down'[k].rows) : IF down'[k].final THEN inst[i] = "final"
                                           ELSE i \in known \/ inst[i] = "final"
  <2> SUFFICES ASSUME NEW k \in 1..Len(down')
               PROVE  /\ ~down[k + 1].snapshot
                      /\ \A i \in Range(down[k + 1].rows) : IF down[k + 1].final THEN inst[i] = "final"
                                                            ELSE i \in known \/ inst[i] = "final"
    BY <1>2, Zenon
  <2>1. k + 1 \in 1..Len(down) /\ k + 1 # 1
    BY <1>2
  <2> QED
    BY <1>1, <2>1, Zenon DEF FramesOK
<1>7. KnownOK'
  BY <1>1, Zenon DEF KnownOK
<1>8. Keeps
  BY <1>1, Growing DEF TypeOK
<1>9. CASE UNCHANGED <<held, sub, replay>> /\ lost' = TRUE /\ refusals' = refusals + 1
  <2>1. TypeOK'
    BY <1>1, <1>2, <1>9 DEF TypeOK
  <2>2. SessionOK'
    BY <1>1, <1>9, Zenon DEF SessionOK
  <2>3. FramesOK'
    BY <1>1, <1>6, <1>9, Zenon DEF FramesOK
  <2>4. Told' /\ Covered'
    BY <1>9, Zenon DEF Told, Covered
  <2>5. ClocksOK'
    BY <1>1, <1>9, Zenon DEF ClocksOK, Past
  <2>6. SentOK'
    BY <1>1, <1>8, <1>9, SentStays, Zenon
  <2> QED
    BY <1>7, <2>1, <2>2, <2>3, <2>4, <2>5, <2>6, Zenon
<1>10. ASSUME MustApplyAssignments(frame), UNCHANGED <<lost, refusals>>,
              replay' = IF frame.snapshot
                          THEN [k \in DOMAIN frame.rows |->
                                  [id |-> frame.rows[k], from |-> frame.watermark[frame.rows[k]], to |-> None]]
                          ELSE <<>>
       PROVE  IInv'
  <2>1. /\ held' \in SUBSET Instances
        /\ \A i \in Instances : i \in held' <=> IF About(frame, i) THEN Assigns(frame, i) ELSE i \in held
    BY <1>3, <1>5, <1>10, Zenon DEF TypeOK, MustApplyAssignments, absent, About, Assigns
  <2>2. PICK gone \in Sorted(absent(frame)) : sub' = notify(sub, stateLocked(frame.rows \o gone))
    BY <1>10, Zenon DEF MustApplyAssignments
  <2> DEFINE items == stateLocked(frame.rows \o gone)
  <2>3. items \in Seq(States) /\ \A m \in Range(items) : Past(m)
    <3>1. absent(frame) \in SUBSET Instances
      BY Zenon DEF absent, TypeOK
    <3>2. gone \in Seq(Instances)
      BY <3>1, Ordered, Zenon DEF Sorted
    <3>3. frame.rows \o gone \in Seq(Instances)
      BY <1>3, <3>2
    <3>4. /\ items \in Seq(States)
          /\ Range(items) = {State(i, clockOf(i)) : i \in Range(frame.rows \o gone)}
      BY <3>3, Listed, Zenon
    <3>5. \A i \in Range(frame.rows \o gone) : i \in Instances
      BY <3>3 DEF Range
    <3>6. \A i \in Instances : Past(State(i, clockOf(i)))
      BY DEF Past, State, clockOf, TypeOK
    <3> QED
      BY <3>4, <3>5, <3>6, Zenon
  <2> HIDE DEF items
  <2>4. /\ sub' \in Subscription
        /\ Range(sub.q) \subseteq Range(sub'.q) /\ Range(sub'.q) \subseteq Range(sub.q) \cup Range(items)
        /\ (sub'.st = "none") = (sub.st = "none")
        /\ sub.st = "closed" => sub'.st = "closed"
    <3>1. sub \in Subscription /\ sub' = notify(sub, items)
      BY <2>2, Zenon DEF TypeOK, items
    <3> QED
      BY <2>3, <3>1, Notified, Zenon
  <2>5. /\ replay' \in Seq(Gap)
        /\ \A r \in Range(replay') : /\ r.to = None /\ r.id \in Instances
                                     /\ r.from \in Nat /\ r.from <= status[r.id]
        /\ frame.snapshot => \A i \in Range(frame.rows) : \E r \in Range(replay') : r.id = i /\ r.to = None
    <3>1. CASE frame.snapshot
      <4> DEFINE gap(i) == [id |-> i, from |-> frame.watermark[i], to |-> None]
      <4>1. \A i \in Instances : /\ gap(i) \in Gap /\ gap(i).id = i /\ gap(i).to = None
                                 /\ gap(i).from = frame.watermark[i]
        BY <1>3, Zenon DEF Gap
      <4>2. replay' = [k \in DOMAIN frame.rows |-> gap(frame.rows[k])]
        BY <1>10, <3>1, Zenon
      <4> HIDE DEF gap
      <4>3. Len(frame.rows) \in Nat /\ DOMAIN frame.rows = 1..Len(frame.rows)
            /\ \A k \in 1..Len(frame.rows) : frame.rows[k] \in Instances
        BY <1>3
      <4>4. replay' \in [1..Len(frame.rows) -> Gap]
        BY <4>1, <4>2, <4>3, Zenon
      <4>5. replay' \in Seq(Gap)
        BY <4>3, <4>4
      <4>6. Range(replay') = {gap(i) : i \in Range(frame.rows)}
        BY <4>2, Zenon DEF Range
      <4>7. \A i \in Instances : frame.watermark[i] \in Nat /\ frame.watermark[i] <= status[i]
        BY <1>3, <1>5, <3>1, Zenon
      <4> QED
        BY <1>3, <4>1, <4>5, <4>6, <4>7
    <3>2. CASE ~frame.snapshot
      BY <1>10, <3>2 DEF Range
    <3> QED
      BY <3>1, <3>2, Zenon
  <2>6. TypeOK'
    BY <1>1, <1>2, <1>10, <2>1, <2>4, <2>5, Zenon DEF TypeOK
  <2>7. SessionOK'
    BY <1>1, <2>4, Zenon DEF SessionOK
  <2>8. FramesOK'
    <3>1. \A i \in held' : i \in known \/ inst[i] = "final"
      BY <1>5, <2>1, Zenon DEF FramesOK, About, Assigns
    <3>2. \A i \in Instances \ held' : latest[i] = 0 \/ inst[i] = "final"
      BY <1>5, <2>1, Zenon DEF FramesOK, About, Assigns
    <3> QED
      BY <1>1, <1>6, <3>1, <3>2, Zenon DEF FramesOK
  <2>9. Told'
    <3> SUFFICES ASSUME ~lost, NEW i \in Instances
        PROVE  /\ \A k \in 1..Len(down') :
                    About(down'[k], i) /\ (\A j \in (k+1)..Len(down') : ~About(down'[j], i))
                      => (Assigns(down'[k], i) <=> i \in known)
               /\ (\A k \in 1..Len(down') : ~About(down'[k], i)) => (i \in held' <=> i \in known)
      BY <1>1, <1>10, Zenon DEF Told, About, Assigns
    <3>1. ASSUME NEW k \in 1..Len(down'), About(down'[k], i),
                 \A j \in (k+1)..Len(down') : ~About(down'[j], i)
          PROVE  Assigns(down'[k], i) <=> i \in known
      <4>1. k + 1 \in 1..Len(down) /\ down'[k] = down[k + 1]
        BY <1>2, Zenon
      <4>2. ASSUME NEW j \in ((k + 1)+1)..Len(down) PROVE ~About(down[j], i)
        <5>1. j - 1 \in (k+1)..Len(down') /\ down'[j - 1] = down[j]
          BY <1>2
        <5> QED
          BY <3>1, <5>1, Zenon
      <4> QED
        BY <1>1, <3>1, <4>1, <4>2, Zenon DEF Told
    <3>2. ASSUME \A k \in 1..Len(down') : ~About(down'[k], i) PROVE i \in held' <=> i \in known
      <4>1. ASSUME NEW j \in (1+1)..Len(down) PROVE ~About(down[j], i)
        <5>1. j - 1 \in 1..Len(down') /\ down'[j - 1] = down[j]
          BY <1>2
        <5> QED
          BY <3>2, <5>1, Zenon
      <4>2. CASE About(frame, i)
        <5>1. Assigns(frame, i) <=> i \in known
          BY <1>1, <1>2, <1>4, <4>1, <4>2, Zenon DEF Told
        <5> QED
          BY <2>1, <4>2, <5>1, Zenon
      <4>3. CASE ~About(frame, i)
        <5>1. \A j \in 1..Len(down) : j = 1 \/ j \in (1+1)..Len(down)
          BY <1>2
        <5>2. \A j \in 1..Len(down) : ~About(down[j], i)
          BY <1>2, <4>1, <4>3, <5>1, Zenon
        <5> QED
          BY <1>1, <2>1, <4>3, <5>2, Zenon DEF Told
      <4> QED
        BY <4>2, <4>3, Zenon
    <3> QED
      BY <3>1, <3>2, Zenon
  <2>10. ClocksOK'
    BY <1>1, <2>3, <2>4, <2>5, Zenon DEF ClocksOK, Past
  <2>11. SentOK'
    <3>1. ASSUME NEW i \in Instances PROVE Delivered(i, lastSent[i])'
      BY <1>1, <1>8, Zenon DEF TypeOK, SentOK, Keeps
    <3>2. ASSUME NEW r \in Range(replay') PROVE Delivered(r.id, r.from)'
      BY <1>1, <2>5, Zenon DEF Delivered, TypeOK
    <3> QED
      BY <3>1, <3>2, Zenon DEF SentOK
  <2>12. Covered'
    <3> SUFFICES ASSUME ~lost, scope.prompt, NEW i \in held'
                 PROVE  (Delivered(i, latest[i]) \/ Pushing(i) \/ Replaying(i))'
      BY <1>1, <1>10, Zenon DEF Covered
    <3>0. i \in Instances /\ latest[i] \in Nat
      BY <2>1, Zenon DEF TypeOK
    <3>1. CASE frame.snapshot
      <4>1. i \in Range(frame.rows)
        BY <2>1, <3>0, <3>1, Zenon DEF About, Assigns
      <4> QED
        BY <2>5, <3>1, <4>1, Zenon DEF Replaying
    <3>2. CASE ~frame.snapshot /\ i \in held
      <4>1. Delivered(i, latest[i]) \/ Pushing(i) \/ Replaying(i)
        BY <1>1, <1>2, <3>2, Zenon DEF Covered
      <4>2. Delivered(i, latest[i]) => Delivered(i, latest[i])'
        BY <1>1, <1>8, <3>0, Zenon DEF Keeps
      <4>3. Pushing(i) => Pushing(i)'
        BY <1>1, <2>4, Zenon DEF Pushing
      <4>4. ~Replaying(i)
        BY <1>1 DEF Replaying, Range
      <4> QED
        BY <4>1, <4>2, <4>3, <4>4, Zenon
    <3>3. CASE i \notin held
      <4>1. latest[i] = 0 \/ inst[i] = "final"
        BY <3>0, <3>3, Zenon DEF FramesOK
      <4>2. status[i] >= 0
        BY <3>0 DEF TypeOK
      <4> QED
        BY <1>1, <4>1, <4>2, Zenon DEF Delivered
    <3> QED
      BY <3>1, <3>2, <3>3, Zenon
  <2> QED
    BY <1>7, <2>6, <2>7, <2>8, <2>9, <2>10, <2>11, <2>12, Zenon
<1> QED
  <2>1. \/ UNCHANGED <<held, sub, replay>> /\ lost' = TRUE /\ refusals' = refusals + 1
        \/ /\ MustApplyAssignments(frame)
           /\ replay' = IF frame.snapshot
                          THEN [k \in DOMAIN frame.rows |->
                                  [id |-> frame.rows[k], from |-> frame.watermark[frame.rows[k]], to |-> None]]
                          ELSE <<>>
           /\ UNCHANGED <<lost, refusals>>
    BY Zenon DEF applyProjectionFrame, frame
  <2> QED
    BY <1>9, <1>10, <2>1, Zenon

\* A delivery is one of everything older.
LEMMA DeliveredOlder ==
  ASSUME TypeOK, NEW i \in Instances, NEW c \in Nat, NEW d \in Nat, d <= c, Delivered(i, c)
  PROVE  Delivered(i, d)
<1>1. CASE status[i] >= c
  BY <1>1 DEF TypeOK, Delivered
<1>2. CASE inst[i] = "final"
  BY <1>2, Zenon DEF Delivered
<1>3. ASSUME NEW s \in DOMAIN wire, NEW m \in Range(wire[s]), m.id = i, m.clock >= c
      PROVE  Delivered(i, d)
  <2>1. m \in States
    BY DEF TypeOK, Range
  <2>2. m.clock \in Nat
    BY <2>1, Zenon DEF States
  <2>3. m.clock >= d
    BY <1>3, <2>2
  <2> QED
    BY <1>3, <2>3, Zenon DEF Delivered
<1> QED
  BY <1>1, <1>2, <1>3, Zenon DEF Delivered

\* What is sent is delivered, and the other wires are left alone (outbox.Send).
LEMMA Sending ==
  ASSUME TypeOK, SessionOK, open,
         NEW i \in Instances, NEW c \in Nat, Send(i, c), UNCHANGED <<inst, status, n>>
  PROVE  /\ wire' \in [1..n -> Seq(States)] /\ DOMAIN wire' = DOMAIN wire
         /\ Keeps /\ Delivered(i, c)'
         /\ \A s \in DOMAIN wire : Range(wire'[s]) \subseteq Range(wire[s]) \cup {State(i, c)}
<1>1. wire \in [1..n -> Seq(States)] /\ n \in DOMAIN wire /\ DOMAIN wire = 1..n
  BY Zenon DEF TypeOK, SessionOK
<1>2. State(i, c) \in States /\ State(i, c).id = i /\ State(i, c).clock = c
  BY Zenon DEF State, States
<1>3. wire' = [wire EXCEPT ![n] = Append(wire[n], State(i, c))]
  BY Zenon DEF Send
<1>4. /\ Append(wire[n], State(i, c)) \in Seq(States)
      /\ Range(Append(wire[n], State(i, c))) = Range(wire[n]) \cup {State(i, c)}
  BY <1>1, <1>2, Appended
<1>5. wire' \in [1..n -> Seq(States)] /\ DOMAIN wire' = DOMAIN wire
  BY <1>1, <1>3, <1>4, Zenon
<1>6. /\ Range(wire'[n]) = Range(wire[n]) \cup {State(i, c)}
      /\ \A s \in DOMAIN wire : s # n => wire'[s] = wire[s]
  BY <1>1, <1>3, <1>4, Zenon
<1>7. Keeps
  <2>1. status' \in [Instances -> Nat] /\ \A j \in Instances : status'[j] >= status[j]
    BY DEF TypeOK
  <2>2. \A s \in DOMAIN wire : s \in DOMAIN wire' /\ Range(wire[s]) \subseteq Range(wire'[s])
    BY <1>5, <1>6, Zenon
  <2> QED
    BY <2>1, <2>2, Growing, Zenon
<1>8. Delivered(i, c)'
  <2>1. n \in DOMAIN wire' /\ State(i, c) \in Range(wire'[n])
    BY <1>1, <1>5, <1>6, Zenon
  <2>2. State(i, c).clock >= c
    BY <1>2
  <2> QED
    BY <1>2, <2>1, <2>2, Zenon DEF Delivered
<1> QED
  BY <1>5, <1>6, <1>7, <1>8, Zenon

\* The replay reads an instance's history when its turn comes, and sends what the
\* primary lacked when it took the snapshot (replayStatusHistory).
LEMMA ReplayStep ==
  ASSUME IInv, replayStatusHistory, UNCHANGED scope
  PROVE  IInv'
<1> USE DEF IInv, tables, publisher, stream, store, push
<1> DEFINE r == Head(replay)
           rest == Tail(replay)
           next(g) == <<g>> \o rest
<1>1. /\ open /\ replay # <<>>
      /\ UNCHANGED <<inst, status, feed, known, watermark, n, open, down, held, latest, sub, batch, lastSent,
                     lost, refusals, boots>>
  BY Zenon DEF replayStatusHistory
<1>2. r \in Gap /\ rest \in Seq(Gap) /\ Range(replay) = {r} \cup Range(rest)
  BY <1>1, HeadTail, Zenon DEF TypeOK
<1>3. r.id \in Instances /\ r.from \in Nat /\ r.to \in Nat \cup {None} /\ latest[r.id] \in Nat
      /\ (r.to # None => r.to <= latest[r.id])
  BY <1>2, Zenon DEF Gap, TypeOK, ClocksOK
<1> HIDE DEF r, rest
<1>4. ASSUME NEW g \in Gap PROVE next(g) \in Seq(Gap) /\ Range(next(g)) = {g} \cup Range(rest)
  <2>1. <<g>> \in Seq(Gap) /\ Range(<<g>>) = {g}
    BY DEF Range
  <2>2. rest \in Seq(Gap)
    BY <1>2, Zenon
  <2>3. PICK one \in Seq(Gap) : one = <<g>>
    BY <2>1, Zenon
  <2>4. one \o rest \in Seq(Gap) /\ Range(one \o rest) = Range(one) \cup Range(rest)
    BY <2>2, Joined
  <2> QED
    BY <2>1, <2>3, <2>4, Zenon
<1>5. \/ r.to = None /\ replay' = next([r EXCEPT !.to = latest[r.id]]) /\ UNCHANGED wire
      \/ /\ r.to # None /\ r.from < r.to /\ Send(r.id, r.from + 1)
         /\ replay' = next([r EXCEPT !.from = @ + 1])
      \/ r.to # None /\ r.from >= r.to /\ replay' = rest /\ UNCHANGED wire
  BY Zenon DEF replayStatusHistory, r, rest
<1>6. \A i \in held : i \in Instances /\ latest[i] \in Nat
  BY Zenon DEF TypeOK
<1> HIDE DEF next
<1>7. KnownOK' /\ FramesOK' /\ Told' /\ SessionOK'
  <2>1. KnownOK' /\ FramesOK'
    BY <1>1, Zenon DEF KnownOK, FramesOK
  <2>2. Told'
    BY <1>1, Zenon DEF Told, About, Assigns
  <2>3. n \in DOMAIN wire'
    BY <1>1, <1>5, Zenon DEF SessionOK, Send
  <2>4. SessionOK'
    BY <1>1, <2>3, Zenon DEF SessionOK
  <2> QED
    BY <2>1, <2>2, <2>4, Zenon
<1>8. SUFFICES /\ replay' \in Seq(Gap) /\ wire' \in [1..n -> Seq(States)]
               /\ \A s \in DOMAIN wire' : \A m \in Range(wire'[s]) : Past(m)
               /\ \A g \in Range(replay') : g.to # None => g.to <= latest[g.id]
               /\ Keeps
               /\ \A g \in Range(replay') : Delivered(g.id, g.from)'
               /\ \A i \in held : Replaying(i) => (Delivered(i, latest[i]) \/ Replaying(i))'
  <2>1. TypeOK'
    BY <1>1, <1>8, Zenon DEF TypeOK
  <2>2. ClocksOK'
    BY <1>1, <1>8, Zenon DEF ClocksOK, Past
  <2>3. SentOK'
    BY <1>1, <1>8, Zenon DEF SentOK, Keeps, TypeOK
  <2>4. Covered'
    <3> SUFFICES ASSUME down # None, ~lost, scope.prompt, ~(down # <<>> /\ down[1].snapshot), NEW i \in held
                 PROVE  (Delivered(i, latest[i]) \/ Pushing(i) \/ Replaying(i))'
      BY <1>1, Zenon DEF Covered
    <3>1. Delivered(i, latest[i]) \/ Pushing(i) \/ Replaying(i)
      BY <1>1, Zenon DEF Covered
    <3>2. Delivered(i, latest[i]) => Delivered(i, latest[i])'
      BY <1>1, <1>6, <1>8, Zenon DEF Keeps
    <3>3. Pushing(i) => Pushing(i)'
      BY <1>1, Zenon DEF Pushing
    <3> QED
      BY <1>8, <3>1, <3>2, <3>3, Zenon
  <2> QED
    BY <1>7, <2>1, <2>2, <2>3, <2>4, Zenon
<1>9. CASE r.to = None /\ replay' = next([r EXCEPT !.to = latest[r.id]]) /\ UNCHANGED wire
  <2> DEFINE g == [r EXCEPT !.to = latest[r.id]]
  <2>1. g \in Gap /\ g.id = r.id /\ g.from = r.from /\ g.to = latest[r.id]
    BY <1>2, <1>3, Zenon DEF Gap
  <2> HIDE DEF g
  <2>2. replay' \in Seq(Gap) /\ Range(replay') = {g} \cup Range(rest)
    BY <1>4, <1>9, <2>1, Zenon DEF g
  <2>3. Keeps
    BY <1>1, <1>9, Growing DEF TypeOK
  <2>4. \A h \in Range(replay') : Delivered(h.id, h.from)'
    <3>1. \A h \in Range(replay) : Delivered(h.id, h.from)
      BY <1>1, Zenon DEF SentOK
    <3>2. \A h \in Range(replay) : Delivered(h.id, h.from)'
      BY <1>1, <1>9, <3>1, Zenon DEF Delivered
    <3> QED
      BY <1>2, <2>1, <2>2, <3>2, Zenon
  <2>5. ASSUME NEW i \in held, Replaying(i) PROVE (Delivered(i, latest[i]) \/ Replaying(i))'
    <3>1. PICK h \in Range(replay) : h.id = i /\ (h.to = None \/ (h.from < h.to /\ h.to = latest[i]))
      BY <2>5, Zenon DEF Replaying
    <3>2. CASE h # r
      <4>1. h \in Range(replay')
        BY <1>2, <2>2, <3>2, Zenon
      <4> QED
        BY <1>1, <3>1, <4>1, Zenon DEF Replaying
    <3>3. CASE h = r /\ r.from < latest[i]
      BY <1>1, <2>1, <2>2, <3>1, <3>3, Zenon DEF Replaying
    <3>4. CASE h = r /\ ~(r.from < latest[i])
      <4>1. latest[i] <= r.from
        BY <1>3, <1>6, <3>4
      <4>2. Delivered(i, r.from)
        BY <1>1, <3>1, <3>4, Zenon DEF SentOK
      <4>3. Delivered(i, latest[i])
        BY <1>3, <1>6, <4>1, <4>2, DeliveredOlder, Zenon
      <4> QED
        BY <1>1, <1>6, <2>3, <4>3, Zenon DEF Keeps
    <3> QED
      BY <3>2, <3>3, <3>4, Zenon
  <2>6. \A h \in Range(replay') : h.to # None => h.to <= latest[h.id]
    BY <1>2, <1>3, <2>1, <2>2 DEF ClocksOK
  <2> QED
    BY <1>1, <1>9, <2>2, <2>3, <2>4, <2>5, <2>6, Zenon DEF TypeOK, ClocksOK
<1>10. CASE /\ r.to # None /\ r.from < r.to /\ Send(r.id, r.from + 1)
            /\ replay' = next([r EXCEPT !.from = @ + 1])
  <2> DEFINE g == [r EXCEPT !.from = @ + 1]
  <2>1. g \in Gap /\ g.id = r.id /\ g.from = r.from + 1 /\ g.to = r.to /\ g.to \in Nat
    BY <1>2, <1>3, <1>10 DEF Gap
  <2> HIDE DEF g
  <2>2. replay' \in Seq(Gap) /\ Range(replay') = {g} \cup Range(rest)
    BY <1>4, <1>10, <2>1, Zenon DEF g
  <2>3. PICK a \in Instances, c \in Nat : a = r.id /\ c = r.from + 1
    BY <1>3
  <2>4. /\ wire' \in [1..n -> Seq(States)] /\ DOMAIN wire' = DOMAIN wire
        /\ Keeps /\ Delivered(a, c)'
        /\ \A s \in DOMAIN wire : Range(wire'[s]) \subseteq Range(wire[s]) \cup {State(a, c)}
    <3>1. Send(a, c)
      BY <1>10, <2>3, Zenon
    <3> QED
      BY <1>1, <3>1, Sending, Zenon
  <2>5. Past(State(a, c))
    BY <1>3, <1>10, <2>3 DEF Past, State
  <2>6. \A s \in DOMAIN wire' : \A m \in Range(wire'[s]) : Past(m)
    BY <2>4, <2>5, Zenon DEF ClocksOK
  <2>7. ASSUME NEW h \in Range(replay') PROVE Delivered(h.id, h.from)'
    <3>1. CASE h = g
      BY <2>1, <2>3, <2>4, <3>1, Zenon
    <3>2. CASE h # g
      <4>1. h \in Range(replay) /\ h \in Gap
        <5>1. h \in Range(replay)
          BY <1>2, <2>2, <3>2, Zenon
        <5> QED
          BY <5>1 DEF TypeOK, Range
      <4>2. h.id \in Instances /\ h.from \in Nat
        BY <4>1, Zenon DEF Gap
      <4> QED
        BY <1>1, <2>4, <4>1, <4>2, Zenon DEF SentOK, Keeps
    <3> QED
      BY <3>1, <3>2, Zenon
  <2>8. ASSUME NEW i \in held, Replaying(i) PROVE (Delivered(i, latest[i]) \/ Replaying(i))'
    <3>1. PICK h \in Range(replay) : h.id = i /\ (h.to = None \/ (h.from < h.to /\ h.to = latest[i]))
      BY <2>8, Zenon DEF Replaying
    <3>2. CASE h # r
      <4>1. h \in Range(replay')
        BY <1>2, <2>2, <3>2, Zenon
      <4> QED
        BY <1>1, <3>1, <4>1, Zenon DEF Replaying
    <3>3. CASE h = r /\ r.from + 1 < r.to
      BY <1>1, <1>10, <2>1, <2>2, <3>1, <3>3, Zenon DEF Replaying
    <3>4. CASE h = r /\ ~(r.from + 1 < r.to)
      <4>1. r.to = latest[i] /\ r.id = i
        BY <1>10, <3>1, <3>4, Zenon
      <4>2. latest[i] = r.from + 1
        BY <1>3, <1>10, <2>1, <3>4, <4>1
      <4> QED
        BY <1>1, <2>3, <2>4, <4>1, <4>2, Zenon
    <3> QED
      BY <3>2, <3>3, <3>4, Zenon
  <2>9. \A h \in Range(replay') : h.to # None => h.to <= latest[h.id]
    BY <1>2, <1>3, <2>1, <2>2, Zenon DEF ClocksOK
  <2> QED
    BY <2>2, <2>4, <2>6, <2>7, <2>8, <2>9, Zenon
<1>11. CASE r.to # None /\ r.from >= r.to /\ replay' = rest /\ UNCHANGED wire
  <2>1. Keeps
    BY <1>1, <1>11, Growing DEF TypeOK
  <2>2. Range(replay') \subseteq Range(replay)
    BY <1>2, <1>11, Zenon
  <2>3. \A g \in Range(replay') : Delivered(g.id, g.from)'
    BY <1>1, <1>11, <2>2, Zenon DEF SentOK, Delivered
  <2>4. ASSUME NEW i \in held, Replaying(i) PROVE Replaying(i)'
    <3>1. PICK g \in Range(replay) : g.id = i /\ (g.to = None \/ (g.from < g.to /\ g.to = latest[i]))
      BY <2>4, Zenon DEF Replaying
    <3>2. g # r
      BY <1>3, <1>11, <3>1
    <3> QED
      BY <1>1, <1>2, <1>11, <3>1, <3>2, Zenon DEF Replaying
  <2> QED
    BY <1>1, <1>2, <1>11, <2>1, <2>2, <2>3, <2>4, Zenon DEF TypeOK, ClocksOK
<1> QED
  BY <1>5, <1>9, <1>10, <1>11, Zenon

\* The push loop subscribes, takes what its subscription holds, and pushes what is
\* newer than its last of the instance (statusPushLoop).
LEMMA PushStep ==
  ASSUME IInv, statusPushLoop, UNCHANGED scope
  PROVE  IInv'
<1> USE DEF IInv, tables, publisher, stream, store, push
<1>1. /\ open
      /\ UNCHANGED <<inst, status, feed, known, watermark, n, open, down, held, latest, replay, lost, refusals,
                     boots>>
  BY Zenon DEF statusPushLoop
<1>2. KnownOK' /\ FramesOK' /\ Told'
  <2>1. KnownOK' /\ FramesOK'
    BY <1>1, Zenon DEF KnownOK, FramesOK
  <2>2. Told'
    BY <1>1, Zenon DEF Told, About, Assigns
  <2> QED
    BY <2>1, <2>2, Zenon
<1>3. sub \in Subscription /\ sub.q \in Seq(States) /\ sub.st \in {"none", "open", "closed"}
  BY Zenon DEF TypeOK, Subscription
<1>4. \A i \in held : i \in Instances /\ latest[i] \in Nat
  BY Zenon DEF TypeOK
<1>5. SUFFICES /\ wire' \in [1..n -> Seq(States)] /\ sub' \in Subscription /\ batch' \in Seq(States)
               /\ lastSent' \in [Instances -> Nat]
               /\ down # None /\ scope.prompt => sub'.st # "none"
               /\ \A s \in DOMAIN wire' : \A m \in Range(wire'[s]) : Past(m)
               /\ \A m \in Range(batch') \cup Range(sub'.q) : Past(m)
               /\ Keeps
               /\ \A i \in Instances : Delivered(i, lastSent[i])'
               /\ \A i \in held : down # None /\ scope.prompt /\ Pushing(i) => (Delivered(i, latest[i]) \/ Pushing(i))'
  <2>1. TypeOK'
    BY <1>1, <1>5, Zenon DEF TypeOK
  <2>2. ClocksOK'
    BY <1>1, <1>5, Zenon DEF ClocksOK, Past
  <2>3. SentOK'
    <3>1. ASSUME NEW r \in Range(replay) PROVE Delivered(r.id, r.from)'
      <4>1. r \in Gap
        BY DEF TypeOK, Range
      <4>2. r.id \in Instances /\ r.from \in Nat
        BY <4>1, Zenon DEF Gap
      <4> QED
        BY <1>1, <1>5, <4>2, Zenon DEF SentOK, Keeps
    <3> QED
      BY <1>1, <1>5, <3>1, Zenon DEF SentOK
  <2>4. Covered'
    <3> SUFFICES ASSUME down # None, ~lost, scope.prompt, ~(down # <<>> /\ down[1].snapshot), NEW i \in held
                 PROVE  (Delivered(i, latest[i]) \/ Pushing(i) \/ Replaying(i))'
      BY <1>1, Zenon DEF Covered
    <3>1. Delivered(i, latest[i]) \/ Pushing(i) \/ Replaying(i)
      BY <1>1, Zenon DEF Covered
    <3>2. Delivered(i, latest[i]) => Delivered(i, latest[i])'
      BY <1>1, <1>4, <1>5, Zenon DEF Keeps
    <3>3. Replaying(i) => Replaying(i)'
      BY <1>1, Zenon DEF Replaying
    <3> QED
      BY <1>5, <3>1, <3>2, <3>3, Zenon
  <2>5. SessionOK'
    <3>1. DOMAIN wire' = DOMAIN wire
      BY <1>5, Zenon DEF TypeOK
    <3> QED
      BY <1>1, <1>5, <3>1, Zenon DEF SessionOK
  <2> QED
    BY <1>2, <2>1, <2>2, <2>3, <2>4, <2>5, Zenon
<1>6. ASSUME UNCHANGED <<lastSent, wire>>
      PROVE  /\ wire' \in [1..n -> Seq(States)] /\ lastSent' \in [Instances -> Nat] /\ Keeps
             /\ \A s \in DOMAIN wire' : \A m \in Range(wire'[s]) : Past(m)
             /\ \A i \in Instances : Delivered(i, lastSent[i])'
  <2>1. Keeps
    BY <1>1, <1>6, Growing DEF TypeOK
  <2>2. \A i \in Instances : Delivered(i, lastSent[i])'
    BY <1>1, <1>6, <2>1, Zenon DEF SentOK, Keeps, TypeOK
  <2> QED
    BY <1>6, <2>1, <2>2, Zenon DEF TypeOK, ClocksOK
<1>7. CASE /\ batch = <<>> /\ subscribes(sub) /\ sub' = Open
           /\ IF sub.st = "none" THEN batch' = <<>> ELSE \E ids \in Orders(held) : batch' = stateLocked(ids)
           /\ UNCHANGED <<lastSent, wire>>
  <2>1. sub' \in Subscription /\ Range(sub'.q) = {} /\ sub'.st = "open"
    BY <1>7 DEF Open, Subscription, Range
  <2>2. /\ batch' \in Seq(States) /\ \A m \in Range(batch') : Past(m)
        /\ sub.st # "none" => \A i \in held : State(i, latest[i]) \in Range(batch')
    <3>1. CASE sub.st = "none"
      BY <1>7, <3>1 DEF Range
    <3>2. CASE sub.st # "none"
      <4>1. PICK ids \in Orders(held) : batch' = stateLocked(ids)
        BY <1>7, <3>2, Zenon
      <4>2. ids \in Seq(Instances) /\ Range(ids) = held
        BY Ordered, Zenon DEF TypeOK
      <4>3. batch' \in Seq(States) /\ Range(batch') = {State(i, clockOf(i)) : i \in held}
        BY <4>1, <4>2, Listed, Zenon
      <4>4. \A i \in held : clockOf(i) = latest[i] /\ Past(State(i, latest[i]))
        BY <1>4 DEF clockOf, Past, State
      <4> QED
        BY <4>3, <4>4, Zenon
    <3> QED
      BY <3>1, <3>2, Zenon
  <2>3. ASSUME NEW i \in held, down # None, scope.prompt PROVE Pushing(i)'
    <3>1. sub.st # "none"
      BY <2>3, Zenon DEF SessionOK
    <3> QED
      BY <1>1, <2>2, <3>1, Zenon DEF Pushing
  <2> QED
    BY <1>6, <1>7, <2>1, <2>2, <2>3, Zenon
<1>8. CASE /\ batch = <<>> /\ sub.q # <<>> /\ batch' = <<Head(sub.q)>> /\ sub' = [sub EXCEPT !.q = Tail(@)]
           /\ UNCHANGED <<lastSent, wire>>
  <2>1. /\ Head(sub.q) \in States /\ Tail(sub.q) \in Seq(States)
        /\ Range(sub.q) = {Head(sub.q)} \cup Range(Tail(sub.q))
    BY <1>3, <1>8, HeadTail, Zenon
  <2>2. sub' \in Subscription /\ sub'.q = Tail(sub.q) /\ sub'.st = sub.st
    BY <1>3, <1>8, <2>1, Zenon DEF Subscription
  <2>3. batch' \in Seq(States) /\ Range(batch') = {Head(sub.q)}
    BY <1>8, <2>1 DEF Range
  <2>4. \A m \in Range(batch') \cup Range(sub'.q) : Past(m)
    BY <2>1, <2>2, <2>3, Zenon DEF ClocksOK
  <2>5. ASSUME NEW i \in held, Pushing(i) PROVE Pushing(i)'
    <3>1. Range(batch) = {}
      BY <1>8 DEF Range
    <3> QED
      BY <1>1, <2>1, <2>2, <2>3, <2>5, <3>1, Zenon DEF Pushing
  <2>6. down # None /\ scope.prompt => sub'.st # "none"
    BY <2>2, Zenon DEF SessionOK
  <2> QED
    BY <1>6, <1>8, <2>2, <2>3, <2>4, <2>5, <2>6, Zenon
<1> DEFINE s == Head(batch)
<1>9. CASE /\ batch # <<>> /\ batch' = Tail(batch) /\ UNCHANGED sub
           /\ \/ /\ s.clock > lastSent[s.id] /\ lastSent' = [lastSent EXCEPT ![s.id] = s.clock]
                 /\ Send(s.id, s.clock)
              \/ s.clock <= lastSent[s.id] /\ UNCHANGED <<lastSent, wire>>
  <2>1. s \in States /\ batch' \in Seq(States) /\ Range(batch) = {s} \cup Range(batch')
    BY <1>9, HeadTail, Zenon DEF TypeOK
  <2>2. PICK a \in Instances, c \in Nat : s = State(a, c) /\ a = s.id /\ c = s.clock
    BY <2>1, Zenon DEF States, State
  <2>3. Past(State(a, c)) /\ \A m \in Range(batch') \cup Range(sub'.q) : Past(m)
    BY <1>9, <2>1, <2>2, Zenon DEF ClocksOK
  <2>4. sub' \in Subscription /\ (down # None /\ scope.prompt => sub'.st # "none")
    BY <1>3, <1>9, Zenon DEF SessionOK
  <2> HIDE DEF s
  <2>5. /\ wire' \in [1..n -> Seq(States)] /\ lastSent' \in [Instances -> Nat] /\ Keeps
        /\ \A t \in DOMAIN wire' : \A m \in Range(wire'[t]) : Past(m)
        /\ \A i \in Instances : Delivered(i, lastSent[i])'
        /\ Delivered(a, c)'
    <3>1. CASE s.clock > lastSent[s.id] /\ lastSent' = [lastSent EXCEPT ![s.id] = s.clock] /\ Send(s.id, s.clock)
      <4>1. Send(a, c) /\ lastSent' = [lastSent EXCEPT ![a] = c]
        BY <2>2, <3>1, Zenon
      <4>2. /\ wire' \in [1..n -> Seq(States)] /\ DOMAIN wire' = DOMAIN wire
            /\ Keeps /\ Delivered(a, c)'
            /\ \A t \in DOMAIN wire : Range(wire'[t]) \subseteq Range(wire[t]) \cup {State(a, c)}
        BY <1>1, <4>1, Sending, Zenon
      <4>3. \A t \in DOMAIN wire' : \A m \in Range(wire'[t]) : Past(m)
        BY <2>3, <4>2, Zenon DEF ClocksOK
      <4>4. lastSent \in [Instances -> Nat]
        BY Zenon DEF TypeOK
      <4>5. ASSUME NEW i \in Instances PROVE Delivered(i, lastSent[i])'
        <5>1. CASE i = a
          <6>1. lastSent'[i] = c
            BY <4>1, <4>4, <5>1, Zenon
          <6> QED
            BY <4>2, <5>1, <6>1, Zenon
        <5>2. CASE i # a
          <6>1. lastSent'[i] = lastSent[i] /\ lastSent[i] \in Nat
            BY <4>1, <4>4, <5>2, Zenon
          <6> QED
            BY <1>1, <4>2, <6>1, Zenon DEF SentOK, Keeps
        <5> QED
          BY <5>1, <5>2, Zenon
      <4> QED
        BY <4>1, <4>2, <4>3, <4>4, <4>5, Zenon
    <3>2. CASE s.clock <= lastSent[s.id] /\ UNCHANGED <<lastSent, wire>>
      <4>1. lastSent[a] \in Nat /\ c <= lastSent[a] /\ Delivered(a, lastSent[a])
        BY <1>1, <2>2, <3>2, Zenon DEF TypeOK, SentOK
      <4>2. Delivered(a, c)
        BY <4>1, DeliveredOlder, Zenon
      <4> QED
        BY <1>6, <3>2, <4>2, Zenon DEF Keeps
    <3> QED
      BY <1>9, <3>1, <3>2, Zenon
  <2>6. ASSUME NEW i \in held, Pushing(i) PROVE (Delivered(i, latest[i]) \/ Pushing(i))'
    <3>1. CASE State(i, latest[i]) = State(a, c)
      <4>1. i = a /\ latest[i] = c
        BY <3>1, Zenon DEF State
      <4> QED
        BY <1>1, <2>5, <4>1, Zenon
    <3>2. CASE State(i, latest[i]) # State(a, c)
      BY <1>1, <1>9, <2>1, <2>2, <2>6, <3>2, Zenon DEF Pushing
    <3> QED
      BY <3>1, <3>2, Zenon
  <2> QED
    BY <2>1, <2>3, <2>4, <2>5, <2>6, Zenon
<1> QED
  BY <1>7, <1>8, <1>9, Zenon DEF statusPushLoop

\* A session starts with an empty outbox (runSession).
LEMMA SessionStep ==
  ASSUME IInv, runSession, UNCHANGED scope
  PROVE  IInv'
<1> USE DEF IInv, tables, publisher, stream, store, push
<1>1. /\ ~open /\ open' = TRUE /\ n' = n + 1
      /\ wire' = [s \in 1..n' |-> IF s = n' THEN <<>> ELSE wire[s]]
      /\ UNCHANGED <<inst, status, feed, known, watermark, down, held, latest, sub, batch, lastSent, replay, lost,
                     refusals, boots>>
      /\ down = None /\ replay = <<>> /\ batch = <<>> /\ lastSent = [i \in Instances |-> 0]
  BY Zenon DEF runSession, SessionOK
<1>2. /\ n' \in Nat /\ wire' \in [1..n' -> Seq(States)] /\ n' \in DOMAIN wire'
      /\ \A s \in DOMAIN wire' : wire'[s] = <<>> \/ (s \in DOMAIN wire /\ wire'[s] = wire[s])
  <2>1. n \in Nat /\ wire \in [1..n -> Seq(States)]
    BY Zenon DEF TypeOK
  <2>2. \A s \in 1..n' : s = n' \/ s \in 1..n
    BY <1>1, <2>1
  <2>3. <<>> \in Seq(States) /\ n' \in Nat /\ n' \in 1..n'
    BY <1>1, <2>1
  <2> QED
    BY <1>1, <2>1, <2>2, <2>3, Zenon
<1>3. TypeOK'
  BY <1>1, <1>2, Zenon DEF TypeOK
<1>4. SessionOK'
  BY <1>1, <1>2, Zenon DEF SessionOK
<1>5. KnownOK' /\ FramesOK'
  BY <1>1, Zenon DEF KnownOK, FramesOK
<1>6. Told' /\ Covered'
  BY <1>1, Zenon DEF Told, Covered
<1>7. ClocksOK'
  <2>1. Range(<<>>) = {}
    BY DEF Range
  <2> QED
    BY <1>1, <1>2, <2>1, Zenon DEF ClocksOK, Past
<1>8. SentOK'
  <2>1. Range(replay') = {}
    BY <1>1 DEF Range
  <2>2. \A i \in Instances : lastSent'[i] = 0 /\ status'[i] >= 0
    BY <1>1 DEF TypeOK
  <2> QED
    BY <2>1, <2>2 DEF SentOK, Delivered
<1> QED
  BY <1>3, <1>4, <1>5, <1>6, <1>7, <1>8, Zenon

\* The end of a session keeps the invariant when the clocks do (Idle).
LEMMA IdleStep ==
  ASSUME IInv, Idle, UNCHANGED <<inst, n, held, latest, refusals, scope>>, KnownOK', boots' \in Nat,
         status' \in [Instances -> Nat], feed' \in Commit \cup {None}, known' \in SUBSET Instances,
         watermark' \in [Instances -> Nat], wire' \in [1..n -> Seq(States)],
         \A i \in held : i \in known' \/ inst[i] = "final",
         \A i \in Instances : status'[i] <= latest[i] /\ watermark'[i] <= status'[i],
         \A s \in DOMAIN wire' : \A m \in Range(wire'[s]) : Past(m)
  PROVE  IInv'
<1>1. /\ open' = FALSE /\ down' = None /\ replay' = <<>> /\ lost' = FALSE
      /\ sub' = NoSub /\ batch' = <<>> /\ lastSent' = [i \in Instances |-> 0]
  BY Zenon DEF Idle
<1>2. sub' \in Subscription /\ batch' \in Seq(States) /\ replay' \in Seq(Gap) /\ Range(sub'.q) = {}
      /\ Range(batch') = {} /\ Range(replay') = {} /\ lastSent' \in [Instances -> Nat]
  BY <1>1 DEF NoSub, Subscription, Range
<1>3. TypeOK'
  BY <1>1, <1>2, Zenon DEF IInv, TypeOK
<1>4. SessionOK'
  BY <1>1, Zenon DEF SessionOK, NoSub
<1>5. FramesOK'
  BY <1>1, Zenon DEF IInv, FramesOK
<1>6. Told' /\ Covered' /\ SentOK'
  BY <1>1, Zenon DEF Told, Covered, SentOK
<1>7. ClocksOK'
  BY <1>2, Zenon DEF ClocksOK, Past
<1> QED
  BY <1>3, <1>4, <1>5, <1>6, <1>7, Zenon DEF IInv

\* A connection breaks (runPrimaryConnLoop): the primary still reads a prefix of what
\* was sent.
LEMMA DisconnectStep ==
  ASSUME IInv, Disconnect, UNCHANGED scope
  PROVE  IInv'
<1> USE DEF tables, publisher, stream, store, push
<1>1. open /\ Idle /\ UNCHANGED <<inst, status, feed, known, watermark, n, held, latest, refusals, boots>>
  BY Zenon DEF Disconnect
<1>2. PICK k \in 0..Len(wire[n]) : wire' = [wire EXCEPT ![n] = SubSeq(wire[n], 1, k)]
  BY Zenon DEF Disconnect
<1>3. wire \in [1..n -> Seq(States)] /\ n \in 1..n
  BY <1>1, Zenon DEF IInv, TypeOK, SessionOK
<1>4. k \in Int /\ k <= Len(wire[n])
  BY <1>3
<1>5. SubSeq(wire[n], 1, k) \in Seq(States) /\ Range(SubSeq(wire[n], 1, k)) \subseteq Range(wire[n])
  BY <1>3, <1>4, Cut, Zenon
<1>6. wire' \in [1..n -> Seq(States)] /\ \A s \in 1..n : Range(wire'[s]) \subseteq Range(wire[s])
  BY <1>2, <1>3, <1>5, Zenon
<1>7. \A s \in DOMAIN wire' : \A m \in Range(wire'[s]) : Past(m)
  BY <1>3, <1>6, Zenon DEF IInv, ClocksOK
<1>8. KnownOK'
  BY <1>1, Zenon DEF IInv, KnownOK
<1>9. /\ status' \in [Instances -> Nat] /\ feed' \in Commit \cup {None} /\ known' \in SUBSET Instances
      /\ watermark' \in [Instances -> Nat] /\ boots' \in Nat
  BY <1>1, Zenon DEF IInv, TypeOK
<1>10. /\ \A i \in held : i \in known' \/ inst[i] = "final"
       /\ \A i \in Instances : status'[i] <= latest[i] /\ watermark'[i] <= status'[i]
  BY <1>1, Zenon DEF IInv, FramesOK, ClocksOK
<1> QED
  BY <1>1, <1>6, <1>7, <1>8, <1>9, <1>10, IdleStep, Zenon

\* The primary restarts, perhaps over a backup: the publisher reads the tables
\* (seedCache).
LEMMA RestartStep ==
  ASSUME IInv, Restart, UNCHANGED scope
  PROVE  IInv'
<1> USE DEF tables, publisher, stream, store, push
<1>1. /\ Idle /\ UNCHANGED <<inst, n, held, latest, refusals>> /\ feed' = None
      /\ known' = {i \in Instances : inst[i] \in Live}
      /\ watermark' = [i \in Instances |-> IF inst[i] \in Live THEN status'[i] ELSE 0]
      /\ wire' = [s \in 1..n |-> <<>>] /\ boots' = boots + 1
  BY Zenon DEF Restart
<1>2. /\ status' \in [Instances -> 0..scope.clocks]
      /\ \A i \in Instances : status'[i] <= status[i]
  BY Zenon DEF Restart
<1>3. /\ inst \in [Instances -> Live \cup {"none", "final"}] /\ status \in [Instances -> Nat]
      /\ latest \in [Instances -> Nat] /\ boots \in Nat /\ held \subseteq Instances
  BY Zenon DEF IInv, TypeOK
<1>4. scope \in Scope
  BY Zenon DEF IInv, TypeOK
<1>5. scope.clocks \in Nat
  BY <1>4, Zenon DEF Scope
<1>6. \A i \in Instances : status'[i] \in Nat
  BY <1>2, <1>5
<1>7. status' \in [Instances -> Nat] /\ watermark' \in [Instances -> Nat] /\ boots' \in Nat
  BY <1>1, <1>2, <1>3, <1>6
<1>8. \A i \in Instances : status'[i] <= latest[i] /\ watermark'[i] <= status'[i]
  <2>1. \A i \in Instances : status[i] <= latest[i]
    BY Zenon DEF IInv, ClocksOK
  <2> QED
    BY <1>1, <1>2, <1>3, <1>6, <2>1
<1>9. \A i \in held : i \in known' \/ inst[i] = "final"
  BY <1>1, <1>3, Zenon DEF IInv, FramesOK, KnownOK
<1>10. KnownOK'
  BY <1>1, Zenon DEF KnownOK, Live
<1>11. wire' \in [1..n -> Seq(States)] /\ \A s \in DOMAIN wire' : Range(wire'[s]) = {}
  BY <1>1 DEF Range
<1> QED
  BY <1>1, <1>7, <1>8, <1>9, <1>10, <1>11, IdleStep, Zenon

\* Nothing is assigned or reported when both processes are new (Open).
LEMMA InitOK ==
  ASSUME Init PROVE IInv
<1> USE DEF Init
<1>1. sub \in Subscription /\ Range(sub.q) = {} /\ Range(batch) = {} /\ Range(replay) = {}
  BY DEF NoSub, Subscription, Range
<1>2. n = 0 /\ wire = <<>> /\ scope \in Scope
  BY ReplicationAssumption, Zenon
<1>3. wire \in [1..n -> Seq(States)] /\ DOMAIN wire = {}
  <2>1. 1..0 = {} /\ DOMAIN wire = {}
    BY <1>2
  <2>2. wire = [s \in {} |-> <<>>]
    BY <1>2
  <2> QED
    BY <1>2, <2>1, <2>2, Zenon
<1>4. TypeOK
  <2>1. /\ inst \in [Instances -> Live \cup {"none", "final"}]
        /\ status \in [Instances -> Nat] /\ watermark \in [Instances -> Nat]
        /\ latest \in [Instances -> Nat] /\ lastSent \in [Instances -> Nat]
    BY Zenon
  <2>2. batch \in Seq(States) /\ replay \in Seq(Gap) /\ n \in Nat /\ refusals \in Nat /\ boots \in Nat
    OBVIOUS
  <2>3. known \in SUBSET Instances /\ held \in SUBSET Instances /\ open \in BOOLEAN /\ lost \in BOOLEAN
    BY Zenon
  <2>4. feed \in Commit \cup {None} /\ down \in Seq(Frame) \cup {None}
    BY Zenon
  <2> QED
    BY <1>1, <1>2, <1>3, <2>1, <2>2, <2>3, <2>4, Zenon DEF TypeOK
<1>5. SessionOK /\ KnownOK
  BY Zenon DEF SessionOK, KnownOK, Live
<1>6. FramesOK /\ Told /\ SentOK /\ Covered
  BY Zenon DEF FramesOK, Told, SentOK, Covered
<1>7. ClocksOK
  BY <1>1, <1>3 DEF ClocksOK
<1> QED
  BY <1>4, <1>5, <1>6, <1>7, Zenon DEF IInv

\* A step of the system preserves the invariant, and so does one that changes nothing.
LEMMA NextOK ==
  ASSUME IInv, [Next]_<<vars, scope>> PROVE IInv'
<1>1. CASE UNCHANGED <<vars, scope>>
  <2>1. UNCHANGED <<inst, status, feed, known, watermark, n, open, down, wire, held, latest, sub, batch, lastSent,
                    replay, lost, refusals, boots, scope>>
    BY <1>1, Zenon DEF vars, tables, publisher, stream, store, push
  <2>2. TypeOK' /\ SessionOK' /\ KnownOK'
    BY <2>1, Zenon DEF IInv, TypeOK, SessionOK, KnownOK
  <2>3. FramesOK' /\ Told'
    BY <2>1, Zenon DEF IInv, FramesOK, Told, About, Assigns
  <2>4. ClocksOK'
    BY <2>1, Zenon DEF IInv, ClocksOK, Past
  <2>5. SentOK' /\ Covered'
    <3>1. \A i, c : Delivered(i, c) => Delivered(i, c)'
      BY <2>1, Zenon DEF Delivered
    <3>2. \A i : (Pushing(i) => Pushing(i)') /\ (Replaying(i) => Replaying(i)')
      BY <2>1, Zenon DEF Pushing, Replaying
    <3>3. SentOK'
      BY <2>1, <3>1, Zenon DEF IInv, SentOK
    <3>4. Covered'
      BY <2>1, <3>1, <3>2, Zenon DEF IInv, Covered
    <3> QED
      BY <3>3, <3>4, Zenon
  <2> QED
    BY <2>2, <2>3, <2>4, <2>5, Zenon DEF IInv
<1>2. CASE Next
  BY <1>2, ScheduleStep, WriteStep, IncomingStep, HandleStep, SubscribeStep, ApplyStep, ReplayStep, PushStep,
     SessionStep, DisconnectStep, RestartStep, Zenon DEF Next
<1> QED
  BY <1>1, <1>2, Zenon

\* The invariant holds throughout.
LEMMA Invariant == Spec => []IInv
<1>1. Init => IInv
  BY InitOK, Zenon
<1>2. IInv /\ [Next]_<<vars, scope>> => IInv'
  BY NextOK, Zenon
<1> QED
  BY <1>1, <1>2, PTL DEF Spec

-----------------------------------------------------------------------------
(* The results. *)

\* When nothing is on its way, what is left of the invariant is that the secondary
\* holds what the publisher knows, which are the live instances, and that the status
\* row of each is its newest.
LEMMA QuietAgrees ==
  ASSUME IInv, scope.prompt PROVE NothingMissed
<1> SUFFICES ASSUME Quiet PROVE Agreed
  BY Zenon DEF NothingMissed
<1>1. /\ open /\ down = <<>> /\ feed = None /\ replay = <<>> /\ batch = <<>> /\ ~lost
      /\ sub.st = "open" /\ sub.q = <<>> /\ \A s \in DOMAIN wire : wire[s] = <<>>
  BY Zenon DEF Quiet, Open
<1>2. down # None /\ Len(down) = 0
  <2>1. <<>> \in Seq(Frame) /\ Len(<<>>) = 0
    OBVIOUS
  <2> QED
    BY <1>1, <2>1, ReplicationAssumption, Zenon
<1>3. \A i \in Instances : i \in held <=> i \in known
  BY <1>1, <1>2 DEF IInv, Told
<1>4. \A i \in Instances : i \in known <=> inst[i] \in Live
  BY <1>1, Zenon DEF IInv, KnownOK
<1>5. held = {i \in Instances : inst[i] \in Live}
  BY <1>3, <1>4, Zenon DEF IInv, TypeOK
<1>6. ASSUME NEW i \in held PROVE status[i] = latest[i]
  <2>1. Range(<<>>) = {}
    BY DEF Range
  <2>2. ~Pushing(i) /\ ~Replaying(i)
    BY <1>1, <2>1, Zenon DEF Pushing, Replaying
  <2>3. Delivered(i, latest[i])
    BY <1>1, <1>2, <2>2, Zenon DEF IInv, Covered
  <2>4. inst[i] # "final"
    BY <1>5, Zenon DEF Live
  <2>5. status[i] >= latest[i]
    BY <1>1, <2>1, <2>3, <2>4, Zenon DEF Delivered
  <2>6. status[i] \in Nat /\ latest[i] \in Nat /\ status[i] <= latest[i]
    BY Zenon DEF IInv, TypeOK, ClocksOK
  <2> QED
    BY <2>5, <2>6
<1> QED
  BY <1>5, <1>6, Zenon DEF Agreed

\* Nothing is missed: with the push loop subscribed before the session's snapshot is
\* taken, whenever nothing is on its way the secondary holds the primary's live
\* assignments and the primary has the newest status of each, after any sessions,
\* overflows of the subscription, late readers and restores of the primary
\* (applyProjectionFrame, replayStatusHistory, statusPushLoop, writeStatus).
THEOREM ReplicationComplete == Spec => [](scope.prompt => NothingMissed)
<1>1. IInv => (scope.prompt => NothingMissed)
  BY QuietAgrees, Zenon
<1> QED
  BY <1>1, Invariant, PTL

\* No status row goes back to an older observation while the primary keeps its
\* database, although messages of several sessions and producers arrive in any order
\* (writeStatus).
THEOREM StatusRowsForward == Spec => StatusForward
<1>1. ASSUME IInv, [Next]_<<vars, scope>>
      PROVE  [boots' = boots => \A i \in Instances : status'[i] >= status[i]]_vars
  <2> SUFFICES ASSUME boots' = boots, NEW i \in Instances, ~UNCHANGED vars PROVE status'[i] >= status[i]
    BY Zenon
  <2> USE DEF tables, publisher, stream, store, push
  <2>1. status \in [Instances -> Nat] /\ boots \in Nat
    BY <1>1, Zenon DEF IInv, TypeOK
  <2>2. CASE UNCHANGED status
    BY <2>1, <2>2
  <2>3. ASSUME NEW s \in DOMAIN wire, handleIncoming(s) PROVE status'[i] >= status[i]
    <3> DEFINE m == Head(wire[s])
    <3>1. wire[s] \in Seq(States) /\ wire[s] # <<>>
      BY <1>1, <2>3, Zenon DEF IInv, TypeOK, handleIncoming
    <3>2. m \in States
      BY <3>1
    <3>3. m.id \in Instances /\ m.clock \in Nat
      BY <3>2, Zenon DEF States
    <3>4. UNCHANGED status \/ (status' = [status EXCEPT ![m.id] = m.clock] /\ ~(m.clock < status[m.id]))
      BY <2>3, Zenon DEF handleIncoming, handleStatusWrite, stale
    <3> QED
      BY <2>1, <3>3, <3>4
  <2>4. ~Restart
    BY <2>1 DEF Restart
  <2>5. CASE Next
    <3>1. \/ \E s \in DOMAIN wire : handleIncoming(s)
          \/ UNCHANGED status
      BY <2>4, <2>5, Zenon DEF Next, Schedule, MustWriteScheduledInstanceStatus, handle, Subscribe, applyProjectionFrame,
                        replayStatusHistory, statusPushLoop, runSession, Disconnect
    <3> QED
      BY <2>2, <2>3, <3>1, Zenon
  <2> QED
    BY <1>1, <2>5, Zenon
<1> QED
  BY <1>1, Invariant, PTL DEF Spec, StatusForward
=============================================================================
