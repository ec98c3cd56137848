---------------------------- MODULE MCLogArchive ----------------------------
(* Small instances of LogArchive for TLC. *)
EXTENDS LogArchive

Base == [bucketsPerDay |-> 1, stragglers |-> FALSE, longOutage |-> FALSE, queries |-> FALSE,
         records |-> 2, commitSize |-> 1, clock |-> 3, stops |-> 0, crashes |-> 0, faults |-> 0]

Restarts == [Base EXCEPT !.crashes = 1]
RestartsQueried == [Restarts EXCEPT !.records = 1, !.clock = 1, !.queries = TRUE]
Days == [Base EXCEPT !.clock = 4, !.commitSize = 3, !.records = 3, !.stops = 1]
Late == [Base EXCEPT !.bucketsPerDay = 2, !.stragglers = TRUE, !.clock = 5, !.records = 3, !.commitSize = 2]
LateQueried == [Late EXCEPT !.records = 2, !.queries = TRUE]
Failures == [Base EXCEPT !.faults = 1, !.commitSize = 2, !.stops = 1]
Rollups == [Base EXCEPT !.records = 3, !.clock = 1, !.queries = TRUE]

ArchiveScopes == {Restarts, RestartsQueried, Days, Late, LateQueried, Failures, Rollups}

OutageScopes == {[Base EXCEPT !.crashes = 1, !.longOutage = TRUE]}
=============================================================================
