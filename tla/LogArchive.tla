----------------------------- MODULE LogArchive -----------------------------
(***************************************************************************)
(* The log manager of one node, for one deployment.  Writers append to     *)
(* write-ahead files, one per bucket of time; a collector streams them     *)
(* into a spool and commits ranges of it as archive files; maintenance     *)
(* rolls archive files up, sweeps what crashes left and drops old days;    *)
(* queries read a snapshot of the catalog and the files it names.          *)
(*                                                                         *)
(* A bucket takes two units of time: in the first the previous one is      *)
(* still inside its reorder window.  The rewrite grace (files older than   *)
(* it may be swept) passes in steps of its own, GracePasses: whatever has  *)
(* a sequence number up to aged is older than it.                          *)
(***************************************************************************)
EXTENDS Integers, Sequences, FiniteSets, Bags, FiniteSetsExt

CONSTANTS MaxBucket,
          Retention,      \* retentionDays
          RollupSize,     \* rollupTargetBytes, in records
          Scopes          \* the bounds of an instance, and its commitSizeThresh

VARIABLES now,
          wal,            \* bucket -> the records in its file, in order
          origin,         \* record -> the bucket it was written to
          disk,           \* archive files
          db,             \* catalog rows and commit marker
          seq, aged,      \* last sequence number given; the oldest ones
          up, producers, dead,
          collector, tick, spool, commit,
          maint, pending, timers,
          query,
          exposed,        \* history: records written behind the stream, or committed to
                          \* a file that had not got its name when the grace passed
          left,           \* failures, crashes and stops still allowed
          scope

durable == <<wal, origin, disk, db>>
manager == <<collector, tick, spool, commit, dead>>
upkeep == <<maint, pending, timers>>
vars == <<now, durable, seq, aged, up, producers, manager, upkeep, query, exposed, left>>

Buckets == 0 .. MaxBucket

dayOf(b) == b \div scope.bucketsPerDay

\* The bucket is past its end and the reorder window.
closed(b) == now > 2 * (b + 1)

dayOver(d) == closed((d + 1) * scope.bucketsPerDay - 1)

expired(d) == d < dayOf(now \div 2) - Retention

None == [step |-> "none"]

------------------------------------------------------------------------------
(* Stream positions: the record number at of a bucket; Zero is before all.  *)

Zero == [bucket |-> 0, at |-> 0]

before(p, q) == p.bucket < q.bucket \/ (p.bucket = q.bucket /\ p.at < q.at)

Positions(w) == UNION {{[bucket |-> b, at |-> i] : i \in DOMAIN w[b]} : b \in Buckets}

record(w, p) == w[p.bucket][p.at]

StreamDeploymentLogRecordsRange(w, r) ==
  {record(w, p) : p \in {p \in Positions(w) : ~before(p, r.start) /\ ~before(r.end, p)}}

tail(w, m) == {record(w, p) : p \in {p \in Positions(w) : before(m, p)}}

\* The record the stream yields next from the file it has open, if any.
streamRecords(m) == {[bucket |-> m.bucket, at |-> m.at + 1]} \cap Positions(wal)

\* The file it opens when it is at the end of one that is closed or whose
\* producers are gone, or when that one does not exist.
nextFile(m) ==
  LET later == {b \in Buckets : b > m.bucket /\ wal[b] # <<>>} IN
  IF later # {} /\ streamRecords(m) = {} /\ (dead \/ closed(m.bucket) \/ wal[m.bucket] = <<>>)
  THEN {[bucket |-> Min(later), at |-> 0]} ELSE {}

\* Mutant: a closed bucket is consumed whatever is left in it.
walBucketClosed(b, m) == closed(b) /\ wal[b] # <<>>

walBucketConsumed(b, m) == closed(b) /\ Len(wal[b]) = m.at

deleteConsumedLogWALs(m) ==
  [b \in Buckets |-> IF m # Zero /\ (b < m.bucket \/ (b = m.bucket /\ walBucketConsumed(b, m)))
                     THEN <<>> ELSE wal[b]]

------------------------------------------------------------------------------
(* The disk and the catalog.  A file holds a bag of records.                *)

file(s, d, recs) == [seq |-> s, day |-> d, recs |-> recs, final |-> FALSE]
row(f, level) == [seq |-> f.seq, day |-> f.day, level |-> level, recs |-> f.recs]

Of(F, S) == {f \in F : f.seq \in S}
seqs(F) == {f.seq : f \in F}
rename(F, S) == {[f EXCEPT !.final = @ \/ f.seq \in S] : f \in F}
remove(F, S) == F \ Of(F, S)
finals == {f \in disk : f.final}

merge(F) == LET add(f, bag) == f.recs (+) bag IN FoldSet(add, EmptyBag, F)

\* The file of the last commit still has its provisional name.
SwapPending == \E f \in Of(disk, {db.file}) : ~f.final

\* The file is gone under both names and the catalog has its row.
SwapFails == db.file \in seqs(db.rows) \ seqs(disk)

------------------------------------------------------------------------------
(* Committing the first range of the spool.  The commit in progress holds   *)
(* the spool's lock; by says who makes it: the collector after a record     *)
(* ("record") or at the end of the stream ("all"), or its ticker.           *)

Begin(who) == commit' = [step |-> "write", by |-> who]

CommitIfNeed(ranges) ==
  /\ ranges # <<>>
  /\ \/ Len(ranges) > 1 /\ dayOver(dayOf(ranges[1].start.bucket))
     \/ ranges[1].count >= scope.commitSize

commitOnTick ==
  /\ spool.ranges # <<>>
  /\ \/ dayOver(dayOf(spool.ranges[1].start.bucket))
     \/ spool.ranges[1].count >= scope.commitSize

\* What is left of RunCollectorOnce when it returns: its ticker may already
\* be waiting for the lock.
RunFails ==
  /\ collector' = [collector EXCEPT !.pc = "load"]
  /\ \E t \in {"off"} \cup {"late" : x \in {tick} \cap {"wait"}} : tick' = t
  /\ UNCHANGED dead

RunEnds ==
  /\ collector' = [collector EXCEPT !.pc = IF producers = 0 THEN "off" ELSE "load"]
  /\ dead' = (producers = 0)
  /\ tick' = "off"

\* Back to whoever made the commit, which failed or has written everything.
CommitFails ==
  /\ commit' = None
  /\ IF commit.by # "tick" THEN RunFails
     ELSE /\ tick' = IF tick = "wait" THEN "failed" ELSE "off"
          /\ UNCHANGED <<collector, dead>>

Committed ==
  /\ commit' = IF commit.by = "all" /\ Len(spool.ranges) > 1
               THEN [step |-> "write", by |-> "all"] ELSE None
  /\ CASE commit.by = "all" /\ Len(spool.ranges) = 1 -> RunEnds
       [] commit.by = "record" /\ tick = "failed" -> RunFails
       [] commit.by = "tick" /\ tick = "late" -> tick' = "off" /\ UNCHANGED <<collector, dead>>
       [] OTHER -> UNCHANGED <<collector, tick, dead>>

writeArchiveFiles ==
  /\ commit.step = "write"
  /\ LET r == spool.ranges[1]
         recs == StreamDeploymentLogRecordsRange(wal, r)
         out == file(seq + 1, dayOf(r.start.bucket), SetToBag(recs))
     IN IF recs = {} THEN CommitFails /\ UNCHANGED <<disk, seq>>
        ELSE /\ seq' = seq + 1
             /\ disk' = disk \cup {out}
             /\ commit' = [step |-> "tx", by |-> commit.by, out |-> out]
             /\ UNCHANGED <<collector, tick, dead>>
  /\ UNCHANGED <<now, wal, origin, db, aged, up, producers, spool, upkeep, query, left>>

\* Mutant: the marker is left at the start of the range.
commitTxStart ==
  /\ commit.step = "tx"
  /\ db' = [rows |-> db.rows \cup {row(commit.out, 1)},
            marker |-> spool.ranges[1].start, file |-> commit.out.seq]
  /\ commit' = [commit EXCEPT !.step = "rename"]
  /\ UNCHANGED <<now, wal, origin, disk, seq, aged, up, producers, collector, tick, spool, dead,
                 upkeep, query, left>>

commitTx ==
  /\ commit.step = "tx"
  /\ db' = [rows |-> db.rows \cup {row(commit.out, 1)},
            marker |-> spool.ranges[1].end, file |-> commit.out.seq]
  /\ commit' = [commit EXCEPT !.step = "rename"]
  /\ UNCHANGED <<now, wal, origin, disk, seq, aged, up, producers, collector, tick, spool, dead,
                 upkeep, query, left>>

commitTxFails ==
  /\ commit.step = "tx" /\ left.faults > 0
  /\ left' = [left EXCEPT !.faults = @ - 1]
  /\ disk' = remove(disk, {commit.out.seq})
  /\ CommitFails
  /\ UNCHANGED <<now, wal, origin, db, seq, aged, up, producers, spool, upkeep, query>>

\* The range leaves the spool once its file has the final name.
commitSpooledChunk ==
  /\ commit.step = "rename"
  /\ IF commit.out \in disk
     THEN LET r == spool.ranges[1] IN
          /\ disk' = rename(disk, {commit.out.seq})
          /\ spool' = [ranges |-> Tail(spool.ranges), committed |-> r.end]
          /\ wal' = deleteConsumedLogWALs(r.end)
          /\ query' = IF query.step = "wal" THEN [query EXCEPT !.overtaken = TRUE] ELSE query
          /\ Committed
     ELSE CommitFails /\ UNCHANGED <<disk, spool, wal, query>>
  /\ UNCHANGED <<now, origin, db, seq, aged, up, producers, upkeep, left>>

\* The rename fails, or it is done and the directory cannot be synced.
renameFails ==
  /\ commit.step = "rename" /\ left.faults > 0
  /\ left' = [left EXCEPT !.faults = @ - 1]
  /\ disk' \in {disk, rename(disk, {commit.out.seq})}
  /\ CommitFails
  /\ UNCHANGED <<now, wal, origin, db, seq, aged, up, producers, spool, upkeep, query>>

------------------------------------------------------------------------------
(* The collector.                                                           *)

\* loadCommittedMarker with completePendingSwap, then the two clean-ups.
loadCommittedMarker ==
  /\ collector.pc = "load" /\ ~SwapFails
  /\ LET swapped == rename(disk, {db.file})
     IN disk' = swapped \ {f \in swapped : ~f.final /\ f.seq <= aged}
  /\ wal' = deleteConsumedLogWALs(db.marker)
  /\ collector' = [pc |-> "reset", m |-> db.marker]
  /\ UNCHANGED <<now, origin, db, seq, aged, up, producers, tick, spool, commit, dead,
                 upkeep, query, left>>

Reset ==
  /\ collector.pc = "reset" /\ commit = None
  /\ spool' = [ranges |-> <<>>, committed |-> collector.m]
  /\ collector' = [collector EXCEPT !.pc = "stream"]
  /\ tick' = "wait"
  /\ UNCHANGED <<now, durable, seq, aged, up, producers, commit, dead, upkeep, query, left>>

Add(ranges, p) ==
  LET n == Len(ranges) IN
  IF n = 0 \/ dayOf(ranges[n].end.bucket) # dayOf(p.bucket)
  THEN Append(ranges, [start |-> p, end |-> p, count |-> 1])
  ELSE [ranges EXCEPT ![n].end = p, ![n].count = @ + 1]

\* The stream goes on to the next file: what is written to an earlier one from
\* now on is behind it.
StreamDeploymentLogFiles ==
  /\ collector.pc = "stream" /\ (commit # None => commit.by = "tick")
  /\ \E p \in nextFile(collector.m) : collector' = [collector EXCEPT !.m = p]
  /\ UNCHANGED <<now, durable, seq, aged, up, producers, tick, spool, commit, dead, upkeep, query, left>>

Collect ==
  /\ collector.pc = "stream" /\ commit = None
  /\ \E p \in streamRecords(collector.m) :
       LET ranges == Add(spool.ranges, p) IN
       /\ spool' = [spool EXCEPT !.ranges = ranges]
       /\ IF CommitIfNeed(ranges)
          THEN /\ Begin("record") /\ collector' = [collector EXCEPT !.m = p]
               /\ UNCHANGED <<tick, dead>>
          ELSE /\ UNCHANGED commit
               /\ IF tick = "failed" THEN RunFails
                  ELSE collector' = [collector EXCEPT !.m = p] /\ UNCHANGED <<tick, dead>>
  /\ UNCHANGED <<now, durable, seq, aged, up, producers, upkeep, query, left>>

AtEnd == dead /\ streamRecords(collector.m) = {} /\ nextFile(collector.m) = {}

\* Mutant: what is spooled is left to the next start.
StreamEndsUncommitted ==
  /\ collector.pc = "stream" /\ commit = None /\ AtEnd
  /\ IF tick = "failed" THEN RunFails ELSE RunEnds
  /\ UNCHANGED <<now, durable, seq, aged, up, producers, spool, commit, upkeep, query, left>>

\* The stream ends when the producers are gone and all is read.
StreamEnds ==
  /\ collector.pc = "stream" /\ commit = None /\ AtEnd
  /\ CASE tick = "failed" -> RunFails /\ UNCHANGED commit
       [] tick # "failed" /\ spool.ranges = <<>> -> RunEnds /\ UNCHANGED commit
       [] OTHER -> Begin("all") /\ UNCHANGED <<collector, tick, dead>>
  /\ UNCHANGED <<now, durable, seq, aged, up, producers, spool, upkeep, query, left>>

StreamFails ==
  /\ collector.pc = "stream" /\ (commit # None => commit.by = "tick") /\ left.faults > 0
  /\ left' = [left EXCEPT !.faults = @ - 1]
  /\ RunFails
  /\ UNCHANGED <<now, durable, seq, aged, up, producers, spool, commit, upkeep, query>>

Tick ==
  /\ tick \in {"wait", "late"} /\ commit = None
  /\ IF commitOnTick THEN Begin("tick") /\ UNCHANGED tick
     ELSE tick = "late" /\ tick' = "off" /\ UNCHANGED commit
  /\ UNCHANGED <<now, durable, seq, aged, up, producers, collector, spool, dead, upkeep, query, left>>

\* A producer starts or the last one stops; a collector that runs goes on
\* with the context it has.
AlignCollecting(n) ==
  /\ up /\ producers # n /\ (n = 0 => left.stops > 0)
  /\ left' = IF n = 0 THEN [left EXCEPT !.stops = @ - 1] ELSE left
  /\ producers' = n
  /\ dead' = (n = 0 \/ (dead /\ collector.pc # "off"))
  /\ collector' = IF collector.pc = "off" THEN [collector EXCEPT !.pc = "load"] ELSE collector
  /\ UNCHANGED <<now, durable, seq, aged, up, tick, spool, commit, upkeep, query>>

------------------------------------------------------------------------------
(* Maintenance: one goroutine that reconciles at start and every hour, and  *)
(* rolls files up in between.                                               *)

Maint(step) == maint' = [step |-> step]

Reconcile ==
  /\ up /\ maint.step = "idle"
  /\ Maint("rowless")
  /\ UNCHANGED <<now, durable, seq, aged, up, producers, manager, pending, timers, query, left>>

\* Mutant: a file waiting for its deferred unlink is swept too.
sweepPendingFiles ==
  /\ maint.step = "rowless"
  /\ disk' = {f \in disk : f.seq > aged \/ (f.final /\ f.seq \in seqs(db.rows))}
  /\ Maint("fileless")
  /\ UNCHANGED <<now, wal, origin, db, seq, aged, up, producers, manager, pending, timers, query, left>>

sweepRowlessFiles ==
  /\ maint.step = "rowless"
  /\ disk' = {f \in disk : \/ f.seq > aged
                           \/ f.final /\ f.seq \in seqs(db.rows) \cup pending}
  /\ Maint("fileless")
  /\ UNCHANGED <<now, wal, origin, db, seq, aged, up, producers, manager, pending, timers, query, left>>

sweepFilelessRows ==
  /\ maint.step = "fileless"
  /\ db' = [db EXCEPT !.rows = {r \in @ : r.seq > aged \/ r.seq \in seqs(finals)}]
  /\ Maint("retention")
  /\ UNCHANGED <<now, wal, origin, disk, seq, aged, up, producers, manager, pending, timers, query, left>>

applyRetention ==
  /\ maint.step = "retention"
  /\ db' = [db EXCEPT !.rows = {r \in @ : ~expired(r.day)}]
  /\ disk' = {f \in disk : ~expired(f.day)}
  /\ wal' = [b \in Buckets |-> IF expired(dayOf(b + 1)) THEN <<>> ELSE wal[b]]
  /\ Maint("idle")
  /\ UNCHANGED <<now, origin, seq, aged, up, producers, manager, pending, timers, query, left>>

\* The bags of the files a roll-up writes: about RollupSize records in each.
split(bag) ==
  IF BagCardinality(bag) <= RollupSize THEN {bag}
  ELSE LET first == CHOOSE part \in SubBag(bag) : BagCardinality(part) = RollupSize
       IN {first, bag (-) first}

\* Files are numbered in the order they are written.
numbered(bags, d) ==
  LET first == CHOOSE bag \in bags : TRUE IN
  {file(seq + (IF bag = first THEN 1 ELSE 2), d, bag) : bag \in bags}

runRollup(d) ==
  /\ up /\ maint.step = "idle"
  /\ LET inputs == {r \in db.rows : r.day = d /\ r.level = 1}
         outs == numbered(split(merge(inputs)), d)
     IN /\ Cardinality(inputs) > 1
        /\ BagCardinality(merge(inputs)) >= RollupSize \/ dayOver(d)
        /\ seqs(inputs) \subseteq seqs(finals)
        /\ disk' = disk \cup outs
        /\ seq' = seq + Cardinality(outs)
        /\ maint' = [step |-> "rename", inputs |-> inputs, outs |-> outs]
  /\ UNCHANGED <<now, wal, origin, db, aged, up, producers, manager, pending, timers, query, left>>

finalizeOutput ==
  /\ maint.step = "rename"
  /\ disk' = rename(disk, seqs(maint.outs))
  /\ pending' = pending \cup seqs(maint.inputs)
  /\ maint' = [maint EXCEPT !.step = "tx"]
  /\ UNCHANGED <<now, wal, origin, db, seq, aged, up, producers, manager, timers, query, left>>

verifyRewrite(inputs, outs) == BagCardinality(merge(inputs)) = BagCardinality(merge(outs))

commitRewrite ==
  /\ maint.step = "tx" /\ verifyRewrite(maint.inputs, maint.outs)
  /\ db' = [db EXCEPT !.rows = (@ \ maint.inputs) \cup {row(o, 2) : o \in maint.outs}]
  /\ timers' = timers \cup {[files |-> seqs(maint.inputs), due |-> seq]}
  /\ Maint("idle")
  /\ UNCHANGED <<now, wal, origin, disk, seq, aged, up, producers, manager, pending, query, left>>

commitRewriteFails ==
  /\ maint.step = "tx"
  /\ left.faults > 0 \/ ~verifyRewrite(maint.inputs, maint.outs)
  /\ left' = [left EXCEPT !.faults = Max({0, @ - 1})]
  /\ disk' = remove(disk, seqs(maint.outs))
  /\ pending' = pending \ seqs(maint.inputs)
  /\ Maint("idle")
  /\ UNCHANGED <<now, wal, origin, db, seq, aged, up, producers, manager, timers, query>>

unlinkAfterGrace ==
  \E t \in timers :
    /\ t.due <= aged
    /\ disk' = remove(disk, t.files)
    /\ pending' = pending \ t.files
    /\ timers' = timers \ {t}
    /\ UNCHANGED <<now, wal, origin, db, seq, aged, up, producers, manager, maint, query, left>>

------------------------------------------------------------------------------
(* A query: a snapshot under the spool's lock, then the WAL, then the files *)
(* of the snapshot by name.  owed is what was readable at the snapshot.     *)

Readable == {f.recs : f \in Of(finals, seqs(db.rows))}

snapshot ==
  /\ up /\ query = None /\ commit = None /\ scope.queries
  /\ query' = [step |-> "wal", committed |-> spool.committed, rows |-> db.rows, got |-> EmptyBag,
               owed |-> tail(wal, spool.committed) \cup UNION {BagToSet(bag) : bag \in Readable},
               settled |-> spool.committed = db.marker /\ ~SwapPending,
               overtaken |-> FALSE, slow |-> FALSE, warned |-> FALSE]
  /\ UNCHANGED <<now, durable, seq, aged, up, producers, manager, upkeep, left>>

scanWal ==
  /\ query.step = "wal"
  /\ query' = [query EXCEPT !.step = "files", !.got = SetToBag(tail(wal, query.committed))]
  /\ UNCHANGED <<now, durable, seq, aged, up, producers, manager, upkeep, left>>

scanFiles ==
  /\ query.step = "files"
  /\ LET found == Of(finals, seqs(query.rows)) IN
     query' = [query EXCEPT !.step = "done", !.got = @ (+) merge(found),
                            !.warned = ~(seqs(query.rows) \subseteq seqs(found))]
  /\ UNCHANGED <<now, durable, seq, aged, up, producers, manager, upkeep, left>>

answer ==
  /\ query.step = "done"
  /\ query' = None
  /\ UNCHANGED <<now, durable, seq, aged, up, producers, manager, upkeep, left>>

------------------------------------------------------------------------------
(* Writers, time and crashes.                                               *)

\* A record stamped just before its bucket ended may be written after the next
\* bucket's first ones, inside the reorder window; a file that is not there is
\* created.
behindStream(b) == b < IF collector.pc \in {"reset", "stream"} THEN collector.m.bucket
                                                              ELSE db.marker.bucket

Write(b) ==
  /\ Len(origin) < scope.records /\ producers > 0
  /\ \/ b = now \div 2
     \/ scope.stragglers /\ now % 2 = 0 /\ b = now \div 2 - 1
  /\ wal' = [wal EXCEPT ![b] = Append(@, Len(origin) + 1)]
  /\ origin' = Append(origin, b)
  /\ exposed' = exposed \cup (IF behindStream(b) THEN {Len(origin) + 1} ELSE {})
  /\ UNCHANGED <<now, disk, db, seq, aged, up, producers, manager, upkeep, query, left>>

ClockAdvances ==
  /\ now < scope.clock
  /\ now' = now + 1
  /\ UNCHANGED <<durable, seq, aged, up, producers, manager, upkeep, query, left>>

\* The rewrite grace passes.  A commit or a roll-up is shorter, and so is the
\* time to the collector's next run, unless the scope lets an outage outlast it.
\* A stream that waits for a record after its ticker failed may wait for longer.
GracePasses ==
  /\ aged < seq /\ commit = None /\ maint.step \notin {"rename", "tx"}
  /\ SwapPending => scope.longOutage \/ collector.pc = "stream"
  /\ aged' = seq
  /\ query' = IF query = None THEN None ELSE [query EXCEPT !.slow = TRUE]
  /\ exposed' = exposed \cup (IF SwapPending THEN BagToSet(merge(Of(disk, {db.file}))) ELSE {})
  /\ UNCHANGED <<now, durable, seq, up, producers, manager, upkeep, left>>

Crash ==
  /\ up /\ left.crashes > 0
  /\ left' = [left EXCEPT !.crashes = @ - 1]
  /\ up' = FALSE
  /\ collector' = [pc |-> "off", m |-> Zero] /\ tick' = "off" /\ dead' = TRUE
  /\ spool' = [ranges |-> <<>>, committed |-> Zero] /\ commit' = None
  /\ maint' = None /\ pending' = {} /\ timers' = {} /\ query' = None
  /\ UNCHANGED <<now, durable, seq, aged, producers>>

\* Containers outlive the agent; they may also have ended meanwhile.
StartManager ==
  /\ ~up /\ up' = TRUE
  /\ producers' \in 0 .. producers
  /\ collector' = [pc |-> "load", m |-> Zero] /\ dead' = (producers' = 0)
  /\ Maint("rowless")
  /\ UNCHANGED <<now, durable, seq, aged, tick, spool, commit, pending, timers, query, left>>

Init ==
  /\ scope \in Scopes
  /\ now = 0 /\ wal = [b \in Buckets |-> <<>>] /\ origin = <<>> /\ disk = {}
  /\ db = [rows |-> {}, marker |-> Zero, file |-> 0]
  /\ seq = 0 /\ aged = 0
  /\ up = TRUE /\ producers = 1 /\ dead = FALSE
  /\ collector = [pc |-> "load", m |-> Zero] /\ tick = "off"
  /\ spool = [ranges |-> <<>>, committed |-> Zero] /\ commit = None
  /\ maint = [step |-> "rowless"] /\ pending = {} /\ timers = {} /\ query = None
  /\ exposed = {} /\ left = [faults |-> scope.faults, crashes |-> scope.crashes, stops |-> scope.stops]

Collects ==
  \/ loadCommittedMarker \/ Reset \/ StreamDeploymentLogFiles \/ Collect \/ StreamEnds
  \/ writeArchiveFiles \/ commitTx \/ commitSpooledChunk

Maintains ==
  \/ sweepRowlessFiles \/ sweepFilelessRows \/ applyRetention
  \/ finalizeOutput \/ commitRewrite

Next ==
  /\ \/ /\ \/ Collects \/ Maintains \/ Tick \/ Reconcile \/ unlinkAfterGrace
           \/ \E d \in Buckets : runRollup(d)
           \/ commitTxFails \/ renameFails \/ StreamFails \/ commitRewriteFails
           \/ \E n \in 0 .. 1 : AlignCollecting(n)
           \/ snapshot \/ scanWal \/ scanFiles \/ answer
           \/ ClockAdvances \/ Crash \/ StartManager
        /\ UNCHANGED exposed
     \/ \E b \in Buckets : Write(b)
     \/ GracePasses
  /\ UNCHANGED scope

Spec == Init /\ [][Next]_<<vars, scope>>

\* The goroutines go on while the process is up, and minutes and hours pass.
FairSpec ==
  /\ Spec
  /\ WF_<<vars, scope>>(Collects /\ UNCHANGED <<exposed, scope>>)
  /\ WF_<<vars, scope>>(Tick /\ UNCHANGED <<exposed, scope>>)
  /\ WF_<<vars, scope>>(Maintains /\ UNCHANGED <<exposed, scope>>)
  /\ WF_<<vars, scope>>(Reconcile /\ UNCHANGED <<exposed, scope>>)
  /\ WF_<<vars, scope>>(GracePasses /\ UNCHANGED scope)

------------------------------------------------------------------------------
(* Properties.                                                              *)

\* The record is in a file the catalog names, or in the provisional file of
\* the last commit, which the next start gives its name.
Archived(id) ==
  \E r \in db.rows : /\ BagIn(id, r.recs)
                     /\ r.seq \in seqs(finals) \/ (r.seq = db.file /\ SwapPending)

Lost(id) ==
  ~expired(dayOf(origin[id])) /\ id \notin tail(wal, db.marker) /\ ~Archived(id)

\* No record of a day that is kept is ever lost, whatever is committed, rolled
\* up, swept, crashed or restarted: it is archived, or its WAL file is still
\* there and lies beyond the commit marker.
NothingLost == \A id \in DOMAIN origin : ~Lost(id)

\* Two ways apart, no record is ever lost, whatever fails, is swept, crashes or
\* restarts: a record that is written to a bucket the stream has left goes with
\* that bucket's file (deleteConsumedLogWALs), and a committed file that is still
\* provisional when the rewrite grace has passed is swept (sweepRowlessFiles).
OnlyExposedLost == \A id \in DOMAIN origin \ exposed : ~Lost(id)

\* Unless a step failed, a record is stored once: the transaction that adds a
\* row moves the marker past its records, the one that rolls rows up drops
\* them.
StoredOnce ==
  left.faults = scope.faults =>
    \A id \in {id \in DOMAIN origin : ~expired(dayOf(origin[id]))} :
      CopiesIn(id, merge(db.rows)) + (IF id \in tail(wal, db.marker) THEN 1 ELSE 0) <= 1

\* A query whose snapshot was consistent answers every record once; a file of
\* its snapshot is gone only if it took longer than the grace, and a record is
\* missing only then or if a range was committed between its snapshot and its
\* scan of the WAL.
Answers ==
  query.step = "done" /\ query.settled /\ left.faults = scope.faults =>
    /\ \A id \in BagToSet(query.got) : CopiesIn(id, query.got) = 1
    /\ query.warned => query.slow \/ \E r \in query.rows : expired(r.day)
    /\ query.overtaken \/ query.slow
         \/ \A id \in query.owed : expired(dayOf(origin[id])) \/ BagIn(id, query.got)

\* Every record of a day that is over, and every record once the producers
\* are gone, gets committed in the end, whatever fails on the way: except one
\* written behind the stream, and except while a ticker whose commit failed waits
\* for the next record to report it.
Archives ==
  []<>(up /\ tick # "failed" =>
         \A id \in tail(wal, db.marker) \ exposed :
           producers > 0 /\ ~dayOver(dayOf(origin[id])))
=============================================================================
