--------------------------- MODULE SchedulerProofs ---------------------------
(***************************************************************************)
(* Proofs about the scheduler, for every number of documents, reports,     *)
(* boots and every drain timeout.  Each phase of step is a pointwise change *)
(* of the instances followed by retention; a lemma per phase shows that it *)
(* keeps the invariant of the tables, and the invariant of the system      *)
(* follows action by action.  From it and from what standbys are behind    *)
(* follows that the scheduler implements Rollout; from a count of what is  *)
(* left to do, that every transaction comes to rest.                       *)
(***************************************************************************)
EXTENDS Scheduler, FiniteSetTheorems, TLAPS

\* What retainDeployment may drop: final instances, and versions that are
\* neither current nor pinned.
LEMMA RetainFacts ==
  ASSUME NEW s, TablesOK(s)
  PROVE  LET r == retainDeployment(s) IN
         /\ TablesOK(r)
         /\ r.cfg = s.cfg /\ r.nextId = s.nextId /\ r.node = s.node
         /\ DOMAIN r.insts \subseteq DOMAIN s.insts
         /\ \A k \in DOMAIN r.insts : r.insts[k] = s.insts[k]
         /\ \A k \in DOMAIN s.insts \ DOMAIN r.insts : s.insts[k].state = "FINALIZED"
         /\ DOMAIN r.versions \subseteq DOMAIN s.versions
         /\ \A v \in DOMAIN r.versions : r.versions[v] = s.versions[v]
         /\ \A k \in DOMAIN r.insts :
              s.insts[k].version \in DOMAIN s.versions => s.insts[k].version \in DOMAIN r.versions
         /\ s.cfg.live /\ s.cfg.version \in DOMAIN s.versions => s.cfg.version \in DOMAIN r.versions
<1> DEFINE r == retainDeployment(s)
           kept == DOMAIN s.insts \ Pruned(s)
           pinned == {s.insts[k].version : k \in kept}
           current == IF s.cfg.live THEN {s.cfg.version} ELSE {}
           vs == DOMAIN s.versions \cap (pinned \cup current)
<1>1. r = [cfg |-> s.cfg, versions |-> [v \in vs |-> s.versions[v]],
           insts |-> [k \in kept |-> s.insts[k]], nextId |-> s.nextId, node |-> s.node]
  BY Zenon DEF retainDeployment, Tables
<1> HIDE DEF r
<1>2. /\ r.cfg = s.cfg /\ r.nextId = s.nextId /\ r.node = s.node
      /\ DOMAIN r.insts = kept /\ DOMAIN r.versions = vs
      /\ \A k \in kept : r.insts[k] = s.insts[k]
      /\ \A v \in vs : r.versions[v] = s.versions[v]
  BY <1>1, Zenon
<1>3. TablesOK(r)
  <2>1. r = [cfg |-> r.cfg, versions |-> r.versions, insts |-> r.insts,
             nextId |-> r.nextId, node |-> r.node]
    BY <1>1, <1>2, Zenon
  <2>2. r.insts = [k \in DOMAIN r.insts |-> r.insts[k]]
    BY <1>1, Zenon
  <2>3. r.versions = [v \in DOMAIN r.versions |-> r.versions[v]]
    BY <1>1, Zenon
  <2> QED
    BY <1>2, <2>1, <2>2, <2>3, Zenon DEF TablesOK, Tables
<1>4. \A k \in DOMAIN s.insts \ kept : s.insts[k].state = "FINALIZED"
  BY Zenon DEF Pruned, Finals
<1> QED
  BY <1>2, <1>3, <1>4, Zenon DEF r

\* The parts of the invariant that do not depend on who serves.
Struct(s) ==
  /\ TablesOK(s)
  /\ IdsBelow(s) /\ VersionsKnown(s) /\ Ordered(s)
  /\ Pins(s) /\ CurrentRetained(s) /\ Alone(s)
  /\ s.nextId <= s.cfg.version + 1

\* r is s with some of its instances moved forward.
Moved(s, r) ==
  /\ r = Tables(s.cfg, s.versions, r.insts, s.nextId, s.node)
  /\ r.insts = [k \in DOMAIN s.insts |-> r.insts[k]]
  /\ \A k \in DOMAIN s.insts :
       /\ r.insts[k] \in Instance
       /\ r.insts[k].version = s.insts[k].version
       /\ Rank[s.insts[k].state] <= Rank[r.insts[k].state]

\* The order of the instance states.
LEMMA RankFacts ==
  /\ Rank["RUN_STANDBY"] = 0 /\ Rank["RUN_SERVING"] = 1
  /\ Rank["RUN_DRAINING"] = 2 /\ Rank["TERMINATE"] = 3
  /\ Rank["FINALIZED"] = 4
  /\ \A x \in Targets : Rank[x] \in 0..4
BY DEF Rank, Targets, WantsRunning

\* The fields of a rebuilt record of tables.
LEMMA MovedFields ==
  ASSUME NEW s, NEW r, TablesOK(s), Moved(s, r)
  PROVE  /\ r.cfg = s.cfg /\ r.versions = s.versions /\ r.nextId = s.nextId
         /\ r.node = s.node /\ DOMAIN r.insts = DOMAIN s.insts
         /\ TablesOK(r)
<1>1. /\ r.cfg = s.cfg /\ r.versions = s.versions /\ r.nextId = s.nextId
      /\ r.node = s.node
  BY DEF Moved, Tables
<1>2. DOMAIN r.insts = DOMAIN s.insts
  BY Zenon DEF Moved
<1>3. r.insts = [k \in DOMAIN r.insts |-> r.insts[k]]
  BY <1>2, Zenon DEF Moved
<1>4. r = Tables(r.cfg, r.versions, r.insts, r.nextId, r.node)
  BY <1>1, Zenon DEF Moved
<1> QED
  BY <1>1, <1>2, <1>3, <1>4, Zenon DEF TablesOK, Moved

\* Moving instances forward keeps the structural parts: in particular a final
\* instance stays final, so no new pair of live instances appears.
LEMMA MovedStruct ==
  ASSUME NEW s, NEW r, Struct(s), Moved(s, r)
  PROVE  Struct(r) /\ Forward(s, r) /\ Live(r) \subseteq Live(s)
<1>0. /\ r.cfg = s.cfg /\ r.versions = s.versions /\ r.nextId = s.nextId
      /\ r.node = s.node /\ DOMAIN r.insts = DOMAIN s.insts
      /\ TablesOK(r) /\ TablesOK(s)
  BY MovedFields, Zenon DEF Struct
<1>a. /\ \A k \in DOMAIN s.insts : s.insts[k].state \in Targets
      /\ \A k \in DOMAIN r.insts : r.insts[k].state \in Targets
  BY <1>0, Zenon DEF TablesOK, Instance
<1>b. \A k \in DOMAIN s.insts : /\ r.insts[k].version = s.insts[k].version
                               /\ Rank[s.insts[k].state] <= Rank[r.insts[k].state]
  BY Zenon DEF Moved
<1>1. Live(r) \subseteq Live(s)
  <2> SUFFICES ASSUME NEW k \in DOMAIN s.insts, s.insts[k].state = "FINALIZED"
               PROVE  r.insts[k].state = "FINALIZED"
    BY <1>0, Zenon DEF Live
  <2>1. r.insts[k].state \in Targets /\ Rank[r.insts[k].state] >= 4
    BY <1>0, <1>a, <1>b, RankFacts, Zenon
  <2> QED
    BY <2>1, RankFacts DEF Targets, WantsRunning
<1>2. IdsBelow(r) /\ VersionsKnown(r) /\ Ordered(r) /\ Pins(r) /\ CurrentRetained(r)
  BY <1>0, <1>b, Zenon DEF Struct, IdsBelow, VersionsKnown, Ordered, Pins, CurrentRetained
<1>3. Alone(r)
  BY <1>0, <1>b, <1>1, Zenon DEF Struct, Alone, Live
<1>4. Forward(s, r)
  BY <1>0, <1>b DEF Forward, TablesOK
<1> QED
  BY <1>0, <1>1, <1>2, <1>3, <1>4, Zenon DEF Struct

\* Retention keeps the whole invariant and every instance that is not final.
LEMMA RetainInv ==
  ASSUME NEW s, TablesInv(s)
  PROVE  LET r == retainDeployment(s) IN
         /\ TablesInv(r) /\ Live(r) = Live(s) /\ Serving(r) = Serving(s)
         /\ Exact(r) = Exact(s) /\ Forward(s, r)
         /\ \A k \in DOMAIN r.insts : k \in DOMAIN s.insts /\ r.insts[k] = s.insts[k]
         /\ r.cfg = s.cfg /\ r.nextId = s.nextId /\ r.node = s.node
<1> DEFINE r == retainDeployment(s)
<1>1. TablesOK(s)
  BY Zenon DEF TablesInv
<1>2. /\ TablesOK(r)
      /\ r.cfg = s.cfg /\ r.nextId = s.nextId /\ r.node = s.node
      /\ DOMAIN r.insts \subseteq DOMAIN s.insts
      /\ \A k \in DOMAIN r.insts : r.insts[k] = s.insts[k]
      /\ \A k \in DOMAIN s.insts \ DOMAIN r.insts : s.insts[k].state = "FINALIZED"
      /\ DOMAIN r.versions \subseteq DOMAIN s.versions
      /\ \A v \in DOMAIN r.versions : r.versions[v] = s.versions[v]
      /\ \A k \in DOMAIN r.insts :
           s.insts[k].version \in DOMAIN s.versions => s.insts[k].version \in DOMAIN r.versions
      /\ s.cfg.live /\ s.cfg.version \in DOMAIN s.versions => s.cfg.version \in DOMAIN r.versions
  BY <1>1, RetainFacts, Zenon
<1> HIDE DEF r
<1>3. Live(r) = Live(s)
  BY <1>2, Zenon DEF Live
<1>4. \A k \in Live(s) : k \in DOMAIN r.insts /\ r.insts[k] = s.insts[k]
  BY <1>2, <1>3, Zenon DEF Live
<1>5. Serving(r) = Serving(s) /\ Exact(r) = Exact(s)
  BY <1>2, <1>3, <1>4, Zenon DEF Serving, Exact
<1>6. Draining(r) = Draining(s)
  BY <1>2, Zenon DEF Draining
<1>7. IdsBelow(r) /\ VersionsKnown(r) /\ Ordered(r)
  BY <1>2, Zenon DEF TablesInv, IdsBelow, VersionsKnown, Ordered
<1>8. Pins(r) /\ CurrentRetained(r)
  BY <1>2, Zenon DEF TablesInv, Pins, CurrentRetained
<1>9. CurrentWanted(r)
  BY <1>2, <1>5, Zenon DEF TablesInv, CurrentWanted, Placing, DeploymentRunning
<1>10. OneServing(r) /\ Succeeded(r)
  BY <1>5, <1>6, Zenon DEF TablesInv, OneServing, Succeeded
<1>11. Alone(r)
  BY <1>2, <1>3, <1>4, <1>8 DEF TablesInv, Alone, Pins
<1>12. r.nextId <= r.cfg.version + 1
  BY <1>2, Zenon DEF TablesInv
<1>13. Forward(s, r)
  BY <1>1, <1>2, RankFacts DEF Forward, TablesOK, Instance
<1> QED
  BY <1>2, <1>3, <1>5, <1>7, <1>8, <1>9, <1>10, <1>11, <1>12, <1>13, Zenon DEF TablesInv, r

\* Ids only grow, so an id that was pruned does not come back.
LEMMA ForwardIds ==
  ASSUME NEW s, NEW p, NEW r, TablesOK(s), TablesOK(p), IdsBelow(s),
         Forward(s, p), Forward(p, r)
  PROVE  \A k \in DOMAIN s.insts \cap DOMAIN r.insts : k \in DOMAIN p.insts
<1> SUFFICES ASSUME NEW k \in DOMAIN s.insts, k \in DOMAIN r.insts, k \notin DOMAIN p.insts
             PROVE  FALSE
  BY Zenon
<1>1. s.nextId \in Nat /\ p.nextId \in Nat /\ k \in Nat
  BY Zenon DEF TablesOK
<1>2. k < s.nextId
  BY Zenon DEF IdsBelow
<1>3. s.nextId <= p.nextId /\ k >= p.nextId
  BY Zenon DEF Forward
<1> QED
  BY <1>1, <1>2, <1>3

\* Moving forward composes.
LEMMA ForwardTrans ==
  ASSUME NEW s, NEW p, NEW r, TablesOK(s), TablesOK(p), TablesOK(r), IdsBelow(s),
         Forward(s, p), Forward(p, r)
  PROVE  Forward(s, r)
<1>1. s.nextId \in Nat /\ p.nextId \in Nat /\ r.nextId \in Nat
  BY Zenon DEF TablesOK
<1>2. /\ DOMAIN s.insts \subseteq Nat /\ DOMAIN p.insts \subseteq Nat /\ DOMAIN r.insts \subseteq Nat
  BY Zenon DEF TablesOK
<1>3. /\ \A k \in DOMAIN s.insts : Rank[s.insts[k].state] \in 0..4
      /\ \A k \in DOMAIN p.insts : Rank[p.insts[k].state] \in 0..4
      /\ \A k \in DOMAIN r.insts : Rank[r.insts[k].state] \in 0..4
  BY RankFacts, Zenon DEF TablesOK, Instance
<1>4. \A k \in DOMAIN s.insts \cap DOMAIN r.insts : k \in DOMAIN p.insts
  BY ForwardIds, Zenon
<1> QED
  BY <1>1, <1>2, <1>3, <1>4 DEF Forward

\* set changes the state and its stamps, nothing else.
LEMMA SetFacts ==
  ASSUME NEW i \in Instance, NEW target \in Targets, NEW sq \in Nat, NEW t \in Nat
  PROVE  LET r == set(i, target, sq, t) IN
         /\ r \in Instance /\ r.state = target
         /\ r.version = i.version /\ r.status = i.status
BY Zenon DEF set, Instance

\* finalizeStopped moves an instance only from TERMINATE to FINALIZED.
LEMMA FinalizeFacts ==
  ASSUME NEW i \in Instance, NEW sq \in Nat, NEW t \in Nat
  PROVE  LET r == finalizeStopped(i, sq, t) IN
         /\ r \in Instance /\ r.version = i.version /\ r.status = i.status
         /\ \/ r.state = i.state
            \/ i.state = "TERMINATE" /\ r.state = "FINALIZED"
<1>1. "FINALIZED" \in Targets
  BY Zenon DEF Targets
<1>2. LET r == set(i, "FINALIZED", sq, t) IN
      /\ r \in Instance /\ r.state = "FINALIZED"
      /\ r.version = i.version /\ r.status = i.status
  BY <1>1, SetFacts
<1> QED
  BY <1>2, Zenon DEF finalizeStopped

\* The first loop of step on one instance: what must retire is told to
\* terminate, and nothing else that is wanted changes.
LEMMA RetireOneFacts ==
  ASSUME NEW s, NEW i \in Instance, NEW sq \in Nat, NEW t \in Nat
  PROVE  LET r == RetireOne(s, i, sq, t) IN
         /\ r \in Instance /\ r.version = i.version /\ r.status = i.status
         /\ Rank[i.state] <= Rank[r.state]
         /\ \/ r.state = i.state /\ (i.state \in WantsRunning => ~Retired(s, i))
            \/ /\ r.state \in {"TERMINATE", "FINALIZED"}
               /\ i.state \in WantsRunning => Retired(s, i)
<1> DEFINE m == IF Retired(s, i) /\ i.state \in WantsRunning
                THEN set(i, "TERMINATE", sq, t) ELSE i
           r == finalizeStopped(m, sq, t)
<1>1. "TERMINATE" \in Targets /\ "TERMINATE" \notin WantsRunning /\ i.state \in Targets
  BY Zenon DEF Targets, WantsRunning, Instance
<1>2. /\ m \in Instance /\ m.version = i.version /\ m.status = i.status
      /\ m.state = IF Retired(s, i) /\ i.state \in WantsRunning THEN "TERMINATE" ELSE i.state
  BY <1>1, SetFacts
<1> HIDE DEF m
<1>3. /\ r \in Instance /\ r.version = m.version /\ r.status = m.status
      /\ \/ r.state = m.state
         \/ m.state = "TERMINATE" /\ r.state = "FINALIZED"
  BY <1>2, FinalizeFacts, Zenon
<1> HIDE DEF r
<1>4. RetireOne(s, i, sq, t) = r
  BY Zenon DEF RetireOne, r, m
<1>5. Rank[i.state] <= Rank[r.state]
  BY <1>1, <1>2, <1>3, RankFacts DEF WantsRunning
<1> QED
  BY <1>1, <1>2, <1>3, <1>4, <1>5, Zenon

\* No instance that is wanted is one that the first loop would retire.
NoneRetired(s) ==
  \A k \in DOMAIN s.insts :
    s.insts[k].state \in WantsRunning => ~Retired(s, s.insts[k])

\* The phases of step never touch the document, the node or a status, and
\* open no serving gap.
Keeps(s, r) ==
  /\ \A k \in DOMAIN s.insts \cap DOMAIN r.insts : r.insts[k].status = s.insts[k].status
  /\ InService(s) /\ Serving(s) # {} =>
       /\ Serving(r) # {}
       /\ \A k \in Serving(s) : s.insts[k].status # "STOPPED" => Covered(k, r)

Phase(s, r) ==
  /\ TablesInv(r) /\ Forward(s, r) /\ Keeps(s, r)
  /\ r.cfg = s.cfg /\ r.node = s.node

\* Retention after a phase keeps what the phase established.
LEMMA RetainPhase ==
  ASSUME NEW s, NEW p, TablesInv(s), Phase(s, p)
  PROVE  Phase(s, retainDeployment(p))
<1> DEFINE r == retainDeployment(p)
<1>1. TablesInv(p) /\ Forward(s, p) /\ Keeps(s, p) /\ p.cfg = s.cfg /\ p.node = s.node
  BY Zenon DEF Phase
<1>2. /\ TablesInv(r) /\ Live(r) = Live(p) /\ Serving(r) = Serving(p) /\ Forward(p, r)
      /\ \A k \in DOMAIN r.insts : k \in DOMAIN p.insts /\ r.insts[k] = p.insts[k]
      /\ r.cfg = p.cfg /\ r.node = p.node
  BY <1>1, RetainInv, Zenon
<1> HIDE DEF r
<1>3. \A j \in Serving(r) : r.insts[j] = p.insts[j]
  BY <1>2, Zenon DEF Serving, Live
<1>4. Keeps(s, r)
  BY <1>1, <1>2, <1>3, Zenon DEF Keeps, Covered
<1>5. Forward(s, r)
  BY <1>1, <1>2, ForwardTrans, Zenon DEF TablesInv
<1> QED
  BY <1>1, <1>2, <1>4, <1>5, Zenon DEF Phase, r

\* A serving instance retires only together with the instances draining onto
\* it, so a drain keeps its successor.
LEMMA RetireInv ==
  ASSUME NEW s, TablesInv(s), NEW sq \in Nat, NEW t \in Nat
  PROVE  LET r == Retire(s, sq, t) IN Phase(s, r) /\ NoneRetired(r)
<1> DEFINE p == WithInsts(s, [k \in DOMAIN s.insts |-> RetireOne(s, s.insts[k], sq, t)])
<1>1. TablesOK(s) /\ Struct(s)
  BY Zenon DEF TablesInv, Struct
<1>2. /\ p = Tables(s.cfg, s.versions, p.insts, s.nextId, s.node)
      /\ p.insts = [k \in DOMAIN s.insts |-> RetireOne(s, s.insts[k], sq, t)]
  BY Zenon DEF WithInsts, Tables
<1> HIDE DEF p
<1>3. \A k \in DOMAIN s.insts :
        /\ s.insts[k] \in Instance
        /\ p.insts[k] \in Instance /\ p.insts[k].version = s.insts[k].version
        /\ p.insts[k].status = s.insts[k].status
        /\ Rank[s.insts[k].state] <= Rank[p.insts[k].state]
        /\ \/ /\ p.insts[k].state = s.insts[k].state
              /\ s.insts[k].state \in WantsRunning => ~Retired(s, s.insts[k])
           \/ /\ p.insts[k].state \in {"TERMINATE", "FINALIZED"}
              /\ s.insts[k].state \in WantsRunning => Retired(s, s.insts[k])
  <2> TAKE k \in DOMAIN s.insts
  <2>1. s.insts[k] \in Instance
    BY <1>1, Zenon DEF TablesOK
  <2>2. p.insts[k] = RetireOne(s, s.insts[k], sq, t)
    BY <1>2, Zenon
  <2>3. LET r == RetireOne(s, s.insts[k], sq, t) IN
        /\ r \in Instance /\ r.version = s.insts[k].version /\ r.status = s.insts[k].status
        /\ Rank[s.insts[k].state] <= Rank[r.state]
        /\ \/ r.state = s.insts[k].state /\ (s.insts[k].state \in WantsRunning => ~Retired(s, s.insts[k]))
           \/ /\ r.state \in {"TERMINATE", "FINALIZED"}
              /\ s.insts[k].state \in WantsRunning => Retired(s, s.insts[k])
    BY <2>1, RetireOneFacts, Zenon
  <2> QED
    BY <2>1, <2>2, <2>3, Zenon
<1>4. Moved(s, p)
  BY <1>2, <1>3, Zenon DEF Moved
<1>5. Struct(p) /\ Forward(s, p) /\ Live(p) \subseteq Live(s)
  BY <1>1, <1>4, MovedStruct, Zenon
<1>6. /\ p.cfg = s.cfg /\ p.versions = s.versions /\ p.nextId = s.nextId
      /\ p.node = s.node /\ DOMAIN p.insts = DOMAIN s.insts
  BY <1>1, <1>4, MovedFields, Zenon
<1>7. \A k \in DOMAIN s.insts : p.insts[k].state \in WantsRunning =>
        p.insts[k].state = s.insts[k].state /\ ~Retired(s, s.insts[k])
  BY <1>3, Zenon DEF WantsRunning
<1>8. Serving(p) \subseteq Serving(s) /\ Draining(p) \subseteq Draining(s)
  BY <1>6, <1>7, Zenon DEF Serving, Draining, Live, WantsRunning
<1>9. OneServing(p)
  BY <1>8, Zenon DEF TablesInv, OneServing
<1>10. Succeeded(p)
  <2> SUFFICES ASSUME NEW k \in Draining(p) PROVE \E j \in Serving(p) : j > k
    BY Zenon DEF Succeeded
  <2>1. PICK j \in Serving(s) : j > k
    BY <1>8, Zenon DEF TablesInv, Succeeded
  <2>2. /\ j \in DOMAIN s.insts /\ s.insts[j].state = "RUN_SERVING"
        /\ k \in DOMAIN s.insts /\ p.insts[k].state = "RUN_DRAINING"
    BY <1>6, Zenon DEF Serving, Live, Draining
  <2>3. ~Retired(s, s.insts[k])
    BY <1>7, <2>2, Zenon DEF WantsRunning
  <2>4. s.insts[k].version # s.cfg.version
    BY <1>1, <1>3, <2>1, <2>2 DEF TablesInv, TablesOK, Ordered, VersionsKnown, Instance, Deployment
  <2>5. ~Retired(s, s.insts[j])
    BY <2>2, <2>3, <2>4, Zenon DEF Retired
  <2>6. p.insts[j].state = "RUN_SERVING"
    BY <1>3, <2>2, <2>5, Zenon DEF WantsRunning
  <2> QED
    BY <1>6, <2>1, <2>2, <2>6, Zenon DEF Serving, Live
<1>11. CurrentWanted(p)
  <2> SUFFICES ASSUME Placing(s) PROVE CurrentWanted(p)
    BY <1>6, Zenon DEF CurrentWanted, Placing, DeploymentRunning
  <2>1. \A k \in DOMAIN s.insts : s.insts[k].version = s.cfg.version =>
          s.insts[k].state \in WantsRunning /\ ~Retired(s, s.insts[k])
    BY Zenon DEF TablesInv, CurrentWanted, Retired, Placing
  <2>2. \A k \in DOMAIN s.insts : s.insts[k].version = s.cfg.version =>
          p.insts[k].state = s.insts[k].state
    BY <1>3, <2>1, Zenon
  <2>3. Exact(s) \subseteq Exact(p)
    BY <1>3, <1>6, <2>2, Zenon DEF Exact, Live
  <2> QED
    BY <1>3, <1>6, <2>1, <2>2, <2>3, Zenon DEF TablesInv, CurrentWanted
<1>12. TablesInv(p)
  BY <1>5, <1>9, <1>10, <1>11, Zenon DEF TablesInv, Struct
<1>13. Keeps(s, p)
  <2> SUFFICES ASSUME DeploymentRunning(s), s.cfg.strategy = "ROLLOVER", NEW j \in Serving(s)
               PROVE  j \in Serving(p)
    BY <1>3, <1>6, Zenon DEF Keeps, InService, Covered
  <2>1. j \in DOMAIN s.insts /\ s.insts[j].state = "RUN_SERVING"
    BY Zenon DEF Serving, Live
  <2>2. ~Retired(s, s.insts[j])
    BY <2>1, Zenon DEF Retired
  <2> QED
    BY <1>3, <1>6, <2>1, <2>2, Zenon DEF Serving, Live, WantsRunning
<1>14. NoneRetired(p)
  BY <1>3, <1>6, <1>7 DEF NoneRetired, Retired, DeploymentRunning
<1>15. Retire(s, sq, t) = retainDeployment(p)
  BY Zenon DEF Retire, p
<1>16. Phase(s, p)
  BY <1>5, <1>6, <1>12, <1>13, Zenon DEF Phase
<1> DEFINE r == retainDeployment(p)
<1>17. Phase(s, r)
  BY <1>16, RetainPhase, Zenon
<1>18. /\ \A k \in DOMAIN r.insts : k \in DOMAIN p.insts /\ r.insts[k] = p.insts[k]
       /\ r.cfg = p.cfg
  BY <1>12, RetainInv, Zenon
<1> HIDE DEF r
<1>19. NoneRetired(r)
  BY <1>14, <1>18, Zenon DEF NoneRetired, Retired, DeploymentRunning
<1> QED
  BY <1>15, <1>17, <1>19, Zenon DEF r

\* A new instance is created only when nothing of the current version exists
\* and, under RECREATE, when nothing else is left that is not final.
LEMMA NewInstanceInv ==
  ASSUME NEW s, TablesInv(s), NoneRetired(s), Placing(s), Exact(s) = {}, ~Blocked(s),
         NEW sq \in Nat, NEW t \in Nat
  PROVE  Phase(s, newInstance(s, sq, t))
<1> DEFINE p == newInstance(s, sq, t)
           n == s.nextId
           new == [version |-> s.cfg.version,
                   state |-> IF Serving(s) = {} THEN "RUN_SERVING" ELSE "RUN_STANDBY",
                   seq |-> sq, time |-> t, status |-> "NONE"]
           f == [k \in DOMAIN s.insts \cup {n} |-> IF k = n THEN new ELSE s.insts[k]]
<1>1. p = Tables(s.cfg, s.versions, f, n + 1, s.node)
  BY Zenon DEF newInstance
<1>2. /\ TablesOK(s) /\ n \in Nat /\ s.cfg \in Deployment /\ s.cfg.version \in Nat
      /\ DOMAIN s.insts \subseteq Nat /\ n \notin DOMAIN s.insts
  BY DEF TablesInv, TablesOK, IdsBelow, Deployment
<1>3. new \in Instance /\ new.version = s.cfg.version /\ new.state \in WantsRunning
  BY <1>2, Zenon DEF Instance, Targets, WantsRunning, Statuses
<1>4. /\ p.cfg = s.cfg /\ p.versions = s.versions /\ p.nextId = n + 1 /\ p.node = s.node
      /\ DOMAIN p.insts = DOMAIN s.insts \cup {n} /\ p.insts[n] = new
      /\ \A k \in DOMAIN s.insts : p.insts[k] = s.insts[k]
  BY <1>1, <1>2 DEF Tables
<1>5. TablesOK(p)
  <2>1. p = Tables(p.cfg, p.versions, p.insts, p.nextId, p.node)
    BY <1>1, Zenon DEF Tables
  <2>2. p.insts = [k \in DOMAIN p.insts |-> p.insts[k]]
    BY <1>1 DEF Tables
  <2> HIDE DEF p, f, new
  <2> QED
    BY <1>2, <1>3, <1>4, <2>1, <2>2 DEF TablesOK
<1>6. new.state = "RUN_SERVING" => Serving(s) = {}
  BY Zenon
<1>7. new.state # "RUN_DRAINING" /\ new.state # "FINALIZED"
  BY Zenon
<1> HIDE DEF p, f, new
<1>8. \A k \in DOMAIN s.insts : s.insts[k].version \in Nat /\ s.insts[k].version < s.cfg.version
  <2> TAKE k \in DOMAIN s.insts
  <2>1. s.insts[k].version \in Nat /\ s.insts[k].version <= s.cfg.version
    BY <1>2, Zenon DEF TablesInv, VersionsKnown, TablesOK, Instance
  <2>2. ASSUME s.insts[k].version = s.cfg.version PROVE FALSE
    <3>1. s.insts[k].state \in WantsRunning
      BY <2>2, Zenon DEF TablesInv, CurrentWanted
    <3> QED
      BY <2>2, <3>1, Zenon DEF Exact, Live, WantsRunning
  <2> QED
    BY <1>2, <2>1, <2>2
<1>9. IdsBelow(p) /\ VersionsKnown(p)
  BY <1>2, <1>3, <1>4 DEF TablesInv, IdsBelow, VersionsKnown
<1>10. Ordered(p)
  BY <1>2, <1>3, <1>4, <1>8 DEF TablesInv, Ordered, IdsBelow
<1>11. Pins(p) /\ CurrentRetained(p)
  BY <1>3, <1>4, Zenon DEF TablesInv, Pins, CurrentRetained, Placing, DeploymentRunning
<1>12. n \in Exact(p)
  BY <1>3, <1>4, <1>7, Zenon DEF Exact, Live
<1>13. CurrentWanted(p)
  BY <1>3, <1>4, <1>12, Zenon DEF TablesInv, CurrentWanted, Placing, DeploymentRunning
<1>14. p.nextId <= p.cfg.version + 1
  BY <1>2, <1>4 DEF TablesInv, CurrentWanted
<1>15. Serving(s) \subseteq Serving(p) /\ Draining(p) = Draining(s)
  BY <1>2, <1>4, <1>7, Zenon DEF Serving, Live, Draining
<1>16. OneServing(p)
  BY <1>4, <1>6, Zenon DEF TablesInv, OneServing, Serving, Live
<1>17. Succeeded(p)
  BY <1>15, Zenon DEF TablesInv, Succeeded
<1>18. s.cfg.strategy = "RECREATE" => Live(s) = {}
  <2> SUFFICES ASSUME s.cfg.strategy = "RECREATE", NEW k \in Live(s) PROVE FALSE
    BY Zenon
  <2>1. k \in DOMAIN s.insts /\ s.insts[k].state \in Targets /\ s.insts[k].state # "FINALIZED"
    BY <1>2, Zenon DEF Live, TablesOK, Instance
  <2>2. s.insts[k].state # "TERMINATE"
    BY Zenon DEF Blocked
  <2>3. s.insts[k].state \in WantsRunning
    BY <2>1, <2>2, Zenon DEF Targets
  <2>4. s.insts[k].version = s.cfg.version
    BY <2>1, <2>3, Zenon DEF NoneRetired, Retired
  <2> QED
    BY <1>8, <2>1, <2>4, <1>2
<1>19. Alone(p)
  <2> SUFFICES ASSUME NEW j \in Live(p), NEW k \in Live(p), j < k
               PROVE  p.versions[p.insts[k].version] = "ROLLOVER"
    BY Zenon DEF Alone
  <2>1. j \in DOMAIN s.insts /\ j # n
    BY <1>2, <1>4, <1>9 DEF Live, IdsBelow, TablesInv
  <2>2. j \in Live(s)
    BY <1>4, <2>1, Zenon DEF Live
  <2>3. CASE k = n
    BY <1>2, <1>3, <1>4, <1>18, <2>2, <2>3, Zenon DEF TablesInv, CurrentRetained, Placing, DeploymentRunning, Deployment, Strategies
  <2>4. CASE k # n
    <3>1. k \in Live(s) /\ p.insts[k] = s.insts[k]
      BY <1>4, <2>4, Zenon DEF Live
    <3> QED
      BY <1>4, <2>2, <3>1, Zenon DEF TablesInv, Alone
  <2> QED
    BY <2>3, <2>4, Zenon
<1>20. Forward(s, p)
  BY <1>2, <1>4, RankFacts DEF Forward, TablesOK, Instance
<1>21. Keeps(s, p)
  BY <1>4, <1>15, Zenon DEF Keeps, Covered
<1> QED
  BY <1>4, <1>5, <1>9, <1>10, <1>11, <1>13, <1>14, <1>16, <1>17, <1>19, <1>20, <1>21, Zenon DEF TablesInv, Phase, p

\* Only the newest instance takes over, and everything older starts draining.
LEMMA PromoteInv ==
  ASSUME NEW s, TablesInv(s), Placing(s), NEW e \in Exact(s),
         TakesOver(s, e),
         NEW sq \in Nat, NEW t \in Nat
  PROVE  Phase(s, promote(s, e, sq, t))
<1> DEFINE p == promote(s, e, sq, t)
           f == [k \in DOMAIN s.insts |->
                  LET i == s.insts[k] IN
                  IF k < e /\ i.state \in WantsRunning THEN set(i, "RUN_DRAINING", sq, t)
                  ELSE IF k = e THEN set(i, "RUN_SERVING", sq, t)
                  ELSE i]
<1>1. p = Tables(s.cfg, s.versions, f, s.nextId, s.node)
  BY Zenon DEF promote, WithInsts
<1>a. s.insts[e].state \in {"RUN_STANDBY", "RUN_SERVING"}
  BY Zenon DEF TakesOver
<1>2. /\ TablesOK(s) /\ Struct(s) /\ e \in DOMAIN s.insts /\ s.insts[e].version = s.cfg.version
      /\ DOMAIN s.insts \subseteq Nat
  BY Zenon DEF TablesInv, TablesOK, Struct, Exact, Live
<1>3. p.insts = f /\ p = Tables(s.cfg, s.versions, p.insts, s.nextId, s.node)
  BY <1>1 DEF Tables
<1> HIDE DEF p
<1>4. \A k \in DOMAIN s.insts :
        /\ p.insts[k] \in Instance /\ p.insts[k].version = s.insts[k].version
        /\ p.insts[k].status = s.insts[k].status
        /\ p.insts[k].state = IF k < e /\ s.insts[k].state \in WantsRunning THEN "RUN_DRAINING"
                              ELSE IF k = e THEN "RUN_SERVING" ELSE s.insts[k].state
  <2> TAKE k \in DOMAIN s.insts
  <2>1. s.insts[k] \in Instance
    BY <1>2, Zenon DEF TablesOK
  <2>2. "RUN_DRAINING" \in Targets /\ "RUN_SERVING" \in Targets
    BY Zenon DEF Targets, WantsRunning
  <2>3. p.insts[k] = LET i == s.insts[k] IN
                     IF k < e /\ i.state \in WantsRunning THEN set(i, "RUN_DRAINING", sq, t)
                     ELSE IF k = e THEN set(i, "RUN_SERVING", sq, t) ELSE i
    BY <1>3, Zenon
  <2>4. LET r == set(s.insts[k], "RUN_DRAINING", sq, t) IN
        /\ r \in Instance /\ r.state = "RUN_DRAINING"
        /\ r.version = s.insts[k].version /\ r.status = s.insts[k].status
    BY <2>1, <2>2, SetFacts
  <2>5. LET r == set(s.insts[k], "RUN_SERVING", sq, t) IN
        /\ r \in Instance /\ r.state = "RUN_SERVING"
        /\ r.version = s.insts[k].version /\ r.status = s.insts[k].status
    BY <2>1, <2>2, SetFacts, SMTT(20)
  <2> QED
    BY <2>1, <2>3, <2>4, <2>5, Zenon
<1>5. \A k \in DOMAIN s.insts : k <= e
  <2> SUFFICES ASSUME NEW k \in DOMAIN s.insts, e < k PROVE FALSE
    BY <1>2
  <2>1. s.insts[e].version < s.insts[k].version /\ s.insts[k].version <= s.cfg.version
    BY <1>2, Zenon DEF TablesInv, Ordered, VersionsKnown
  <2>2. s.insts[k].version \in Nat /\ s.cfg.version \in Nat
    BY <1>2, Zenon DEF TablesOK, Instance, Deployment
  <2> QED
    BY <1>2, <2>1, <2>2
<1>6. \A k \in DOMAIN s.insts : Rank[s.insts[k].state] <= Rank[p.insts[k].state]
  <2> TAKE k \in DOMAIN s.insts
  <2>1. s.insts[k].state \in Targets
    BY <1>2, Zenon DEF TablesOK, Instance
  <2>2. CASE k = e
    BY <1>2, <1>4, <1>a, <2>2, RankFacts
  <2>3. CASE k # e
    BY <1>2, <1>4, <2>1, <2>3, RankFacts DEF WantsRunning
  <2> QED
    BY <2>2, <2>3, Zenon
<1>7. Moved(s, p)
  BY <1>3, <1>4, <1>6, Zenon DEF Moved
<1>8. Struct(p) /\ Forward(s, p)
  BY <1>2, <1>7, MovedStruct, Zenon
<1>9. /\ p.cfg = s.cfg /\ p.versions = s.versions /\ p.nextId = s.nextId
      /\ p.node = s.node /\ DOMAIN p.insts = DOMAIN s.insts
  BY <1>2, <1>7, MovedFields, Zenon
<1>10. p.insts[e].state = "RUN_SERVING"
  BY <1>2, <1>4
<1>11. Serving(p) = {e}
  BY <1>2, <1>4, <1>5, <1>9, <1>10 DEF Serving, Live, WantsRunning
<1>b. \/ p.insts[e].status = "RUNNING"
      \/ \E k \in Serving(s) : k < e /\ s.insts[k].status = "STOPPED"
  BY <1>2, <1>4, Zenon DEF TakesOver, terminalRunnerStatus
<1>c. Keeps(s, p)
  <2>1. \A k \in DOMAIN s.insts \cap DOMAIN p.insts : p.insts[k].status = s.insts[k].status
    BY <1>4, Zenon
  <2>2. \A k \in Serving(s) : s.insts[k].status # "STOPPED" => Covered(k, p)
    BY <1>11, <1>b, Zenon DEF Covered, TablesInv, OneServing
  <2> QED
    BY <1>11, <2>1, <2>2, Zenon DEF Keeps
<1>12. OneServing(p)
  BY <1>11, Zenon DEF OneServing
<1>13. Succeeded(p)
  BY <1>2, <1>5, <1>9, <1>10, <1>11 DEF Succeeded, Draining
<1>14. CurrentWanted(p)
  <2>1. e \in Exact(p)
    BY <1>2, <1>4, <1>9, <1>10, Zenon DEF Exact, Live, WantsRunning
  <2> QED
    BY <1>4, <1>9, <2>1 DEF TablesInv, CurrentWanted, Placing, DeploymentRunning, WantsRunning
<1> QED
  BY <1>8, <1>9, <1>12, <1>13, <1>14, <1>c, Zenon DEF TablesInv, Struct, Phase, p

\* The instances of the current version: there is at most one, so the choice
\* of the newest is well defined.
LEMMA NewestExact ==
  ASSUME NEW s, TablesInv(s), Exact(s) # {}
  PROVE  Newest(Exact(s)) \in Exact(s)
<1>1. PICK e \in Exact(s) : TRUE
  BY Zenon
<1>2. \A k \in Exact(s) : k = e
  <2> TAKE k \in Exact(s)
  <2>1. /\ e \in DOMAIN s.insts /\ k \in DOMAIN s.insts /\ DOMAIN s.insts \subseteq Nat
        /\ s.insts[e].version = s.insts[k].version /\ s.insts[k].version \in Nat
    BY Zenon DEF Exact, Live, TablesInv, TablesOK, Instance
  <2> QED
    BY <2>1 DEF TablesInv, Ordered
<1>3. e \in Nat
  BY Zenon DEF Exact, Live, TablesInv, TablesOK
<1>4. \A j \in Exact(s) : j <= e
  BY <1>2, <1>3
<1>5. \E k \in Exact(s) : \A j \in Exact(s) : j <= k
  BY <1>4, Zenon
<1> QED
  BY <1>5, Zenon DEF Newest

\* The second part of step: place, block or promote.
LEMMA PlaceInv ==
  ASSUME NEW s, TablesInv(s), NoneRetired(s), NEW sq \in Nat, NEW t \in Nat
  PROVE  Phase(s, Place(s, sq, t))
<1>1. Phase(s, s)
  BY RankFacts DEF Phase, Forward, Keeps, Covered, TablesInv, TablesOK, Instance
<1>2. CASE ~DeploymentRunning(s) \/ s.node = "MEMBER_EVICTED"
  BY <1>1, <1>2, Zenon DEF Place
<1>3. CASE Placing(s) /\ Exact(s) = {}
  <2>1. CASE Blocked(s)
    BY <1>1, <1>3, <2>1, Zenon DEF Place, Placing
  <2>2. CASE ~Blocked(s)
    <3>1. Phase(s, newInstance(s, sq, t))
      BY <1>3, <2>2, NewInstanceInv, Zenon
    <3>2. Phase(s, retainDeployment(newInstance(s, sq, t)))
      BY <3>1, RetainPhase, Zenon
    <3> QED
      BY <1>3, <2>2, <3>2, Zenon DEF Place, Placing
  <2> QED
    BY <2>1, <2>2, Zenon
<1>4. CASE Placing(s) /\ Exact(s) # {}
  <2> DEFINE e == Newest(Exact(s))
  <2>1. e \in Exact(s)
    BY <1>4, NewestExact, Zenon
  <2> HIDE DEF e
  <2>2. CASE TakesOver(s, e)
    <3>1. Phase(s, promote(s, e, sq, t))
      BY <1>4, <2>1, <2>2, PromoteInv, Zenon
    <3>2. Phase(s, retainDeployment(promote(s, e, sq, t)))
      BY <3>1, RetainPhase, Zenon
    <3> QED
      BY <1>4, <2>2, <3>2, Zenon DEF Place, Placing, e
  <2>3. CASE ~TakesOver(s, e)
    BY <1>1, <1>4, <2>3, Zenon DEF Place, Placing, e
  <2> QED
    BY <2>2, <2>3, Zenon
<1> QED
  BY <1>2, <1>3, <1>4, Zenon DEF Placing

\* The last loop of step only ends drains, and never of the current version.
LEMMA DrainInv ==
  ASSUME NEW s, TablesInv(s), NEW sq \in Nat, NEW t \in Nat, NEW inForce
  PROVE  Phase(s, Drain(s, sq, t, inForce))
<1> DEFINE f == [k \in DOMAIN s.insts |->
                  LET i == s.insts[k] IN
                  IF DrainOver(i, sq, t, inForce)
                  THEN finalizeStopped(set(i, "TERMINATE", sq, t), sq, t) ELSE i]
           p == WithInsts(s, f)
<1>1. Drain(s, sq, t, inForce) = retainDeployment(p)
  BY Zenon DEF Drain
<1>2. TablesOK(s) /\ Struct(s) /\ DOMAIN s.insts \subseteq Nat
  BY Zenon DEF TablesInv, TablesOK, Struct
<1>3. p.insts = f /\ p = Tables(s.cfg, s.versions, p.insts, s.nextId, s.node)
  BY Zenon DEF WithInsts, Tables
<1> HIDE DEF p
<1>4. \A k \in DOMAIN s.insts :
        /\ p.insts[k] \in Instance /\ p.insts[k].version = s.insts[k].version
        /\ p.insts[k].status = s.insts[k].status /\ s.insts[k].state \in Targets
        /\ \/ p.insts[k].state = s.insts[k].state
           \/ /\ s.insts[k].state = "RUN_DRAINING"
              /\ p.insts[k].state \in {"TERMINATE", "FINALIZED"}
  <2> HIDE DEF f
  <2> TAKE k \in DOMAIN s.insts
  <2> DEFINE m == set(s.insts[k], "TERMINATE", sq, t)
  <2>1. s.insts[k] \in Instance /\ s.insts[k].state \in Targets
    BY <1>2, Zenon DEF TablesOK, Instance
  <2>2. "TERMINATE" \in Targets
    BY Zenon DEF Targets
  <2>3. p.insts[k] = IF DrainOver(s.insts[k], sq, t, inForce)
                     THEN finalizeStopped(m, sq, t) ELSE s.insts[k]
    BY <1>3, Zenon DEF f
  <2>4. /\ m \in Instance /\ m.state = "TERMINATE"
        /\ m.version = s.insts[k].version /\ m.status = s.insts[k].status
    <3>1. LET r == set(s.insts[k], "TERMINATE", sq, t) IN
          /\ r \in Instance /\ r.state = "TERMINATE"
          /\ r.version = s.insts[k].version /\ r.status = s.insts[k].status
      <4> HIDE DEF m
      <4> QED
        BY <2>1, <2>2, SetFacts
    <3> QED
      BY <3>1, Zenon
  <2> HIDE DEF m
  <2>5. LET r == finalizeStopped(m, sq, t) IN
        /\ r \in Instance /\ r.version = m.version /\ r.status = m.status
        /\ \/ r.state = m.state
           \/ m.state = "TERMINATE" /\ r.state = "FINALIZED"
    BY <2>4, FinalizeFacts
  <2>6. CASE DrainOver(s.insts[k], sq, t, inForce)
    <3>1. s.insts[k].state = "RUN_DRAINING"
      BY <2>6, Zenon DEF DrainOver
    <3>2. p.insts[k] = finalizeStopped(m, sq, t)
      BY <2>3, <2>6, Zenon
    <3> QED
      BY <2>1, <2>4, <2>5, <3>1, <3>2, Zenon
  <2>7. CASE ~DrainOver(s.insts[k], sq, t, inForce)
    BY <2>1, <2>3, <2>7, Zenon
  <2> QED
    BY <2>6, <2>7, Zenon
<1>5. \A k \in DOMAIN s.insts : Rank[s.insts[k].state] <= Rank[p.insts[k].state]
  BY <1>4, RankFacts, SMTT(20)
<1>6. Moved(s, p)
  BY <1>3, <1>4, <1>5, Zenon DEF Moved
<1>7. Struct(p) /\ Forward(s, p)
  BY <1>2, <1>6, MovedStruct, Zenon
<1>8. /\ p.cfg = s.cfg /\ p.versions = s.versions /\ p.nextId = s.nextId
      /\ p.node = s.node /\ DOMAIN p.insts = DOMAIN s.insts
  BY <1>2, <1>6, MovedFields, Zenon
<1>9. Serving(p) = Serving(s) /\ Draining(p) \subseteq Draining(s)
  BY <1>4, <1>8, Zenon DEF Serving, Live, Draining
<1>10. OneServing(p) /\ Succeeded(p) /\ Keeps(s, p)
  BY <1>4, <1>8, <1>9, Zenon DEF TablesInv, OneServing, Succeeded, Keeps, Covered
<1>11. \A k \in Draining(s) : s.insts[k].version # s.cfg.version
  <2> TAKE k \in Draining(s)
  <2>1. PICK j \in Serving(s) : j > k
    BY Zenon DEF TablesInv, Succeeded
  <2>2. /\ j \in DOMAIN s.insts /\ k \in DOMAIN s.insts /\ j \in Nat /\ k \in Nat
        /\ s.insts[j].version \in Nat /\ s.insts[k].version \in Nat /\ s.cfg.version \in Nat
    BY <1>2, Zenon DEF Serving, Live, Draining, TablesOK, Instance, Deployment
  <2> QED
    BY <2>1, <2>2 DEF TablesInv, Ordered, VersionsKnown
<1>12. CurrentWanted(p)
  <2>1. \A k \in DOMAIN s.insts : s.insts[k].version = s.cfg.version =>
          p.insts[k].state = s.insts[k].state
    BY <1>4, <1>11, Zenon DEF Draining
  <2>2. Exact(s) \subseteq Exact(p)
    BY <1>4, <1>8, <2>1, Zenon DEF Exact, Live
  <2> QED
    BY <1>4, <1>8, <2>1, <2>2 DEF TablesInv, CurrentWanted, Placing, DeploymentRunning
<1>13. Phase(s, p)
  BY <1>7, <1>8, <1>10, <1>12, Zenon DEF TablesInv, Struct, Phase
<1> QED
  BY <1>1, <1>13, RetainPhase, Zenon

\* Phases compose.
LEMMA PhaseTrans ==
  ASSUME NEW s, NEW p, NEW r, TablesInv(s), Phase(s, p), Phase(p, r)
  PROVE  Phase(s, r)
<1>1. Forward(s, r)
  BY ForwardTrans, Zenon DEF Phase, TablesInv
<1>2. \A k \in DOMAIN s.insts \cap DOMAIN r.insts : k \in DOMAIN p.insts
  <2>1. /\ TablesOK(s) /\ TablesOK(p) /\ IdsBelow(s) /\ Forward(s, p) /\ Forward(p, r)
    BY Zenon DEF Phase, TablesInv
  <2> QED
    BY <2>1, ForwardIds, Zenon
<1>3. \A k \in DOMAIN s.insts \cap DOMAIN r.insts : r.insts[k].status = s.insts[k].status
  BY <1>2, Zenon DEF Phase, Keeps
<1>4. Keeps(s, r)
  <2> SUFFICES ASSUME InService(s), Serving(s) # {}
               PROVE  /\ Serving(r) # {}
                      /\ \A k \in Serving(s) : s.insts[k].status # "STOPPED" => Covered(k, r)
    BY <1>3, Zenon DEF Keeps
  <2>1. InService(p) /\ Serving(p) # {}
    BY Zenon DEF Phase, Keeps, InService, DeploymentRunning
  <2>2. Serving(r) # {}
    BY <2>1, Zenon DEF Phase, Keeps
  <2>3. ASSUME NEW k \in Serving(s), s.insts[k].status # "STOPPED" PROVE Covered(k, r)
    <3>1. Covered(k, p)
      BY <2>3, Zenon DEF Phase, Keeps
    <3>2. CASE k \in Serving(p)
      <4>1. k \in DOMAIN s.insts \cap DOMAIN p.insts
        BY <3>2, Zenon DEF Serving, Live
      <4>2. p.insts[k].status # "STOPPED"
        BY <2>3, <4>1, Zenon DEF Phase, Keeps
      <4> QED
        BY <2>1, <3>2, <4>2, Zenon DEF Phase, Keeps
    <3>3. CASE \E j \in Serving(p) : p.insts[j].status = "RUNNING"
      <4>1. PICK j \in Serving(p) : p.insts[j].status = "RUNNING"
        BY <3>3, Zenon
      <4>2. Covered(j, r)
        BY <2>1, <4>1, Zenon DEF Phase, Keeps
      <4>3. ASSUME j \in Serving(r) PROVE r.insts[j].status = "RUNNING"
        <5>1. j \in DOMAIN p.insts \cap DOMAIN r.insts
          BY <4>3, Zenon DEF Serving, Live
        <5> QED
          BY <4>1, <5>1, Zenon DEF Phase, Keeps
      <4> QED
        BY <4>2, <4>3, Zenon DEF Covered
    <3> QED
      BY <3>1, <3>2, <3>3, Zenon DEF Covered
  <2> QED
    BY <2>2, <2>3, Zenon
<1> QED
  BY <1>1, <1>4, Zenon DEF Phase

\* What a transaction may look like next to the tables it started from.
Reaches(s, r) == TablesInv(r) /\ Forward(s, r) /\ Gapless(s, r)

\* A phase extends what a transaction has done without a gap.
LEMMA GaplessPhase ==
  ASSUME NEW s, NEW p, NEW r, TablesInv(s), Reaches(s, p), Phase(p, r)
  PROVE  Gapless(s, r)
<1> SUFFICES ASSUME InService(r), Serving(s) # {}
             PROVE  /\ Serving(r) # {}
                    /\ \A k \in Serving(s) \cap DOMAIN r.insts :
                         r.insts[k].status # "STOPPED" => Covered(k, r)
  BY Zenon DEF Gapless
<1>1. InService(p) /\ Serving(p) # {}
  BY Zenon DEF Reaches, Gapless, Phase, InService, DeploymentRunning
<1>2. Serving(r) # {}
  BY <1>1, Zenon DEF Phase, Keeps
<1>3. ASSUME NEW k \in Serving(s), k \in DOMAIN r.insts, r.insts[k].status # "STOPPED"
      PROVE  Covered(k, r)
  <2>1. k \in DOMAIN s.insts
    BY Zenon DEF Serving, Live
  <2>2. k \in DOMAIN p.insts
    <3>1. /\ TablesOK(s) /\ TablesOK(p) /\ IdsBelow(s) /\ Forward(s, p) /\ Forward(p, r)
      BY Zenon DEF Phase, Reaches, TablesInv
    <3> QED
      BY <1>3, <2>1, <3>1, ForwardIds, Zenon
  <2>3. p.insts[k].status # "STOPPED"
    BY <1>3, <2>2, Zenon DEF Phase, Keeps
  <2>4. Covered(k, p)
    BY <1>1, <2>2, <2>3, Zenon DEF Reaches, Gapless
  <2>5. CASE k \in Serving(p)
    BY <1>1, <2>3, <2>5, Zenon DEF Phase, Keeps
  <2>6. CASE \E j \in Serving(p) : p.insts[j].status = "RUNNING"
    <3>1. PICK j \in Serving(p) : p.insts[j].status = "RUNNING"
      BY <2>6, Zenon
    <3>2. Covered(j, r)
      BY <1>1, <3>1, Zenon DEF Phase, Keeps
    <3>3. ASSUME j \in Serving(r) PROVE r.insts[j].status = "RUNNING"
      <4>1. j \in DOMAIN p.insts \cap DOMAIN r.insts
        BY <3>3, Zenon DEF Serving, Live
      <4> QED
        BY <3>1, <4>1, Zenon DEF Phase, Keeps
    <3> QED
      BY <3>2, <3>3, Zenon DEF Covered
  <2> QED
    BY <2>4, <2>5, <2>6, Zenon DEF Covered
<1> QED
  BY <1>2, <1>3, Zenon

\* A pass keeps the invariant of the tables, whatever the barrier answers.
LEMMA StepInv ==
  ASSUME NEW s, TablesInv(s), NEW sq \in Nat, NEW t \in Nat, NEW inForce
  PROVE  Phase(s, step(s, sq, t, inForce))
<1> DEFINE a == Retire(s, sq, t)
           b == Place(a, sq, t)
           c == Drain(b, sq, t, inForce)
<1>1. Phase(s, a) /\ NoneRetired(a)
  BY RetireInv, Zenon
<1> HIDE DEF a
<1>2. TablesInv(a)
  BY <1>1, Zenon DEF Phase
<1>3. Phase(a, b)
  BY <1>1, <1>2, PlaceInv, Zenon
<1> HIDE DEF b
<1>4. TablesInv(b)
  BY <1>3, Zenon DEF Phase
<1>5. Phase(b, c)
  BY <1>4, DrainInv, Zenon
<1> HIDE DEF c
<1>6. Phase(a, c)
  BY <1>2, <1>3, <1>5, PhaseTrans, Zenon
<1>7. Phase(s, c)
  BY <1>1, <1>6, PhaseTrans, Zenon
<1> QED
  BY <1>7, Zenon DEF step, a, b, c

------------------------------------------------------------------------------
(* The writers.                                                             *)

\* Pruning the retained versions keeps what a write reached.
LEMMA RetainReaches ==
  ASSUME NEW s, NEW p, TablesInv(s), Reaches(s, p)
  PROVE  Reaches(s, retainDeployment(p))
<1> DEFINE r == retainDeployment(p)
<1>1. TablesInv(p) /\ Forward(s, p) /\ Gapless(s, p)
  BY Zenon DEF Reaches
<1>2. /\ TablesInv(r) /\ Serving(r) = Serving(p) /\ Forward(p, r)
      /\ \A k \in DOMAIN r.insts : k \in DOMAIN p.insts /\ r.insts[k] = p.insts[k]
      /\ r.cfg = p.cfg /\ r.node = p.node
  BY <1>1, RetainInv, Zenon
<1> HIDE DEF r
<1>a. \A j \in Serving(r) : r.insts[j] = p.insts[j]
  BY <1>2, Zenon DEF Serving, Live
<1>3. Gapless(s, r)
  BY <1>1, <1>2, <1>a, Zenon DEF Gapless, InService, Covered, DeploymentRunning
<1>4. Forward(s, r)
  BY <1>1, <1>2, ForwardTrans, Zenon DEF TablesInv
<1> QED
  BY <1>2, <1>3, <1>4, Zenon DEF Reaches, r

\* A write that leaves the tables alone reaches them.
LEMMA ReachesRefl ==
  ASSUME NEW s, TablesInv(s)
  PROVE  Reaches(s, s)
<1>1. /\ s.nextId \in Nat /\ \A k \in DOMAIN s.insts : s.insts[k].state \in Targets
  BY Zenon DEF TablesInv, TablesOK, Instance
<1>2. Forward(s, s)
  BY <1>1, RankFacts DEF Forward
<1>3. Gapless(s, s)
  BY Zenon DEF Gapless, Covered
<1> QED
  BY <1>2, <1>3, Zenon DEF Reaches

\* A new document leaves every instance as it is; an id is left for it.
LEMMA DocumentInv ==
  ASSUME NEW s, TablesInv(s), NEW running \in BOOLEAN, NEW strategy \in Strategies
  PROVE  Reaches(s, Document(s, running, strategy))
<1> DEFINE new == s.cfg.version + 1
           cfg == [live |-> TRUE, version |-> new, running |-> running, strategy |-> strategy]
           vs == [v \in DOMAIN s.versions \cup {new} |->
                    IF v = new THEN strategy ELSE s.versions[v]]
           p == Tables(cfg, vs, s.insts, s.nextId, s.node)
<1>1. Document(s, running, strategy) = retainDeployment(p)
  BY Zenon DEF Document
<1>2. /\ TablesOK(s) /\ s.cfg.version \in Nat /\ DOMAIN s.insts \subseteq Nat
      /\ DOMAIN s.versions \subseteq Nat /\ s.nextId \in Nat
      /\ \A k \in DOMAIN s.insts : s.insts[k].version \in Nat /\ s.insts[k].version < new
  BY DEF TablesInv, TablesOK, Deployment, VersionsKnown, Instance
<1>3. /\ p.cfg = cfg /\ p.versions = vs /\ p.insts = s.insts
      /\ p.nextId = s.nextId /\ p.node = s.node
  BY Zenon DEF Tables
<1>4. cfg \in Deployment /\ cfg.version = new /\ cfg.live /\ cfg.strategy = strategy
  BY <1>2 DEF Deployment
<1>5. /\ DOMAIN vs = DOMAIN s.versions \cup {new} /\ vs[new] = strategy
      /\ \A v \in DOMAIN s.versions : v # new => vs[v] = s.versions[v]
      /\ vs = [v \in DOMAIN vs |-> vs[v]]
      /\ \A v \in DOMAIN vs : vs[v] \in Strategies
  BY <1>2, Zenon DEF TablesOK
<1>6. p = Tables(p.cfg, p.versions, p.insts, p.nextId, p.node)
  BY <1>3, Zenon
<1> HIDE DEF p, vs, cfg
<1>7. TablesOK(p)
  BY <1>2, <1>3, <1>4, <1>5, <1>6 DEF TablesOK
<1>8. /\ Live(p) = Live(s) /\ Serving(p) = Serving(s) /\ Draining(p) = Draining(s)
  BY <1>3, Zenon DEF Live, Serving, Draining
<1>9. IdsBelow(p) /\ VersionsKnown(p) /\ Ordered(p)
  BY <1>2, <1>3, <1>4 DEF TablesInv, IdsBelow, VersionsKnown, Ordered
<1>10. Pins(p) /\ CurrentRetained(p)
  BY <1>3, <1>4, <1>5, Zenon DEF TablesInv, Pins, CurrentRetained
<1>11. CurrentWanted(p) /\ p.nextId <= p.cfg.version + 1
  BY <1>2, <1>3, <1>4, SMTT(20) DEF TablesInv, CurrentWanted
<1>12. OneServing(p) /\ Succeeded(p)
  BY <1>8, Zenon DEF TablesInv, OneServing, Succeeded
<1>13. Alone(p)
  <2> SUFFICES ASSUME NEW j \in Live(s), NEW k \in Live(s), j < k
               PROVE  p.versions[s.insts[k].version] = "ROLLOVER"
    BY <1>3, <1>8, Zenon DEF Alone
  <2>1. k \in DOMAIN s.insts /\ s.insts[k].version \in DOMAIN s.versions
    BY Zenon DEF Live, TablesInv, Pins
  <2>2. s.insts[k].version # new
    BY <1>2, <2>1
  <2>3. s.versions[s.insts[k].version] = "ROLLOVER"
    BY Zenon DEF TablesInv, Alone
  <2> QED
    BY <1>3, <1>5, <2>1, <2>2, <2>3, Zenon
<1>14. Forward(s, p)
  BY <1>2, <1>3, RankFacts DEF Forward, TablesOK, Instance
<1>15. Gapless(s, p)
  BY <1>8, Zenon DEF Gapless, Covered
<1>16. Reaches(s, p)
  BY <1>7, <1>9, <1>10, <1>11, <1>12, <1>13, <1>14, <1>15, Zenon DEF TablesInv, Reaches
<1> QED
  BY <1>1, <1>16, RetainReaches, Zenon

\* The deleted document no longer places anything.
LEMMA DeletedInv ==
  ASSUME NEW s, TablesInv(s)
  PROVE  Reaches(s, Deleted(s))
<1> DEFINE cfg == [s.cfg EXCEPT !.live = FALSE]
           p == Tables(cfg, s.versions, s.insts, s.nextId, s.node)
<1>1. Deleted(s) = retainDeployment(p)
  BY Zenon DEF Deleted
<1>2. TablesOK(s) /\ s.cfg \in Deployment
  BY Zenon DEF TablesInv, TablesOK
<1>3. /\ p.cfg = cfg /\ p.versions = s.versions /\ p.insts = s.insts
      /\ p.nextId = s.nextId /\ p.node = s.node
  BY Zenon DEF Tables
<1>4. cfg \in Deployment /\ cfg.version = s.cfg.version /\ ~cfg.live
  BY <1>2, Zenon DEF Deployment
<1>5. p = Tables(p.cfg, p.versions, p.insts, p.nextId, p.node)
  BY <1>3, Zenon
<1> HIDE DEF p, cfg
<1>6. TablesOK(p)
  BY <1>2, <1>3, <1>4, <1>5, Zenon DEF TablesOK
<1>7. /\ Live(p) = Live(s) /\ Serving(p) = Serving(s) /\ Draining(p) = Draining(s)
  BY <1>3, Zenon DEF Live, Serving, Draining
<1>8. IdsBelow(p) /\ VersionsKnown(p) /\ Ordered(p) /\ Pins(p) /\ CurrentRetained(p)
  BY <1>3, <1>4, Zenon DEF TablesInv, IdsBelow, VersionsKnown, Ordered, Pins, CurrentRetained
<1>9. CurrentWanted(p) /\ p.nextId <= p.cfg.version + 1
  BY <1>3, <1>4, Zenon DEF TablesInv, CurrentWanted, Placing, DeploymentRunning
<1>10. OneServing(p) /\ Succeeded(p) /\ Alone(p)
  BY <1>3, <1>7, Zenon DEF TablesInv, OneServing, Succeeded, Alone
<1>11. Forward(s, p)
  BY <1>2, <1>3, RankFacts DEF Forward, TablesOK, Instance
<1>12. Gapless(s, p)
  BY <1>7, Zenon DEF Gapless, Covered
<1>13. Reaches(s, p)
  BY <1>6, <1>8, <1>9, <1>10, <1>11, <1>12, Zenon DEF TablesInv, Reaches
<1> QED
  BY <1>1, <1>13, RetainReaches, Zenon

\* A status report moves no instance.
LEMMA ReportedInv ==
  ASSUME NEW s, TablesInv(s), NEW n \in DOMAIN s.insts, NEW st \in Statuses
  PROVE  Reaches(s, Reported(s, n, st))
<1> DEFINE f == [j \in DOMAIN s.insts |->
                  IF j = n THEN [s.insts[j] EXCEPT !.status = st] ELSE s.insts[j]]
           p == Reported(s, n, st)
<1>1. TablesOK(s) /\ Struct(s)
  BY Zenon DEF TablesInv, Struct
<1>2. p.insts = f /\ p = Tables(s.cfg, s.versions, p.insts, s.nextId, s.node)
  BY Zenon DEF Reported, WithInsts, Tables
<1> HIDE DEF p
<1>3. \A k \in DOMAIN s.insts :
        /\ p.insts[k] \in Instance /\ p.insts[k].version = s.insts[k].version
        /\ p.insts[k].state = s.insts[k].state /\ s.insts[k].state \in Targets
  <2> TAKE k \in DOMAIN s.insts
  <2>1. s.insts[k] \in Instance
    BY <1>1, Zenon DEF TablesOK
  <2>2. p.insts[k] = IF k = n THEN [s.insts[k] EXCEPT !.status = st] ELSE s.insts[k]
    BY <1>2, Zenon
  <2> QED
    BY <2>1, <2>2, Zenon DEF Instance
<1>4. Moved(s, p)
  BY <1>2, <1>3, RankFacts DEF Moved
<1>5. Struct(p) /\ Forward(s, p)
  BY <1>1, <1>4, MovedStruct, Zenon
<1>6. /\ p.cfg = s.cfg /\ p.versions = s.versions /\ p.nextId = s.nextId
      /\ p.node = s.node /\ DOMAIN p.insts = DOMAIN s.insts
  BY <1>1, <1>4, MovedFields, Zenon
<1>7. /\ Serving(p) = Serving(s) /\ Draining(p) = Draining(s) /\ Exact(p) = Exact(s)
  BY <1>3, <1>6, Zenon DEF Serving, Draining, Exact, Live
<1>8. OneServing(p) /\ Succeeded(p) /\ Gapless(s, p)
  <2>1. OneServing(s) /\ Succeeded(s)
    BY Zenon DEF TablesInv
  <2>2. OneServing(p)
    BY <1>7, <2>1, Zenon DEF OneServing
  <2>3. Succeeded(p)
    BY <1>7, <2>1, Zenon DEF Succeeded
  <2>4. Gapless(s, p)
    BY <1>7, Zenon DEF Gapless, Covered
  <2> QED
    BY <2>2, <2>3, <2>4, Zenon
<1>9. CurrentWanted(p)
  BY <1>3, <1>6, <1>7, ZenonT(30) DEF TablesInv, CurrentWanted, Placing, DeploymentRunning
<1> QED
  BY <1>5, <1>8, <1>9, Zenon DEF TablesInv, Struct, Reaches, p

\* The record eviction writes.
LEMMA EvictedRecord ==
  ASSUME NEW v \in Nat, NEW sq \in Nat, NEW t \in Nat
  PROVE  LET r == [version |-> v, state |-> "FINALIZED", seq |-> sq, time |-> t, status |-> "NONE"] IN
         r \in Instance /\ r.version = v /\ r.state = "FINALIZED"
BY Zenon DEF Instance, Targets, Statuses

\* Eviction finalizes everything, and the node is not placed on again.
LEMMA EvictedInv ==
  ASSUME NEW s, TablesInv(s), NEW sq \in Nat, NEW t \in Nat
  PROVE  Reaches(s, Evicted(s, sq, t))
<1> DEFINE f == [k \in DOMAIN s.insts |->
                  IF k \in Live(s)
                  THEN [version |-> s.insts[k].version, state |-> "FINALIZED",
                        seq |-> sq, time |-> t, status |-> "NONE"]
                  ELSE s.insts[k]]
           p == Tables(s.cfg, s.versions, f, s.nextId, "MEMBER_EVICTED")
<1>1. Evicted(s, sq, t) = retainDeployment(p)
  BY Zenon DEF Evicted
<1>2. TablesOK(s) /\ DOMAIN s.insts \subseteq Nat
  BY Zenon DEF TablesInv, TablesOK
<1>3. /\ p.cfg = s.cfg /\ p.versions = s.versions /\ p.insts = f
      /\ p.nextId = s.nextId /\ p.node = "MEMBER_EVICTED"
  BY Zenon DEF Tables
<1>4. p = Tables(p.cfg, p.versions, p.insts, p.nextId, p.node)
  BY <1>3, Zenon
<1>5. p.insts = [k \in DOMAIN p.insts |-> p.insts[k]] /\ DOMAIN p.insts = DOMAIN s.insts
  BY <1>3, Zenon
<1>6. \A k \in DOMAIN s.insts :
        /\ p.insts[k] \in Instance /\ p.insts[k].version = s.insts[k].version
        /\ p.insts[k].state = "FINALIZED" /\ s.insts[k].state \in Targets
  <2> TAKE k \in DOMAIN s.insts
  <2>1. s.insts[k] \in Instance /\ s.insts[k].version \in Nat /\ s.insts[k].state \in Targets
    BY <1>2, Zenon DEF TablesOK, Instance
  <2>2. CASE k \in Live(s)
    <3> DEFINE r == [version |-> s.insts[k].version, state |-> "FINALIZED",
                     seq |-> sq, time |-> t, status |-> "NONE"]
    <3>1. p.insts[k] = r
      BY <1>3, <2>2, Zenon
    <3>2. r \in Instance /\ r.version = s.insts[k].version /\ r.state = "FINALIZED"
      BY <2>1, EvictedRecord, Zenon
    <3> HIDE DEF r, p, f
    <3> QED
      BY <2>1, <3>1, <3>2, Zenon
  <2>3. CASE k \notin Live(s)
    BY <1>3, <2>1, <2>3, Zenon DEF Live
  <2> QED
    BY <2>2, <2>3, Zenon
<1> HIDE DEF p, f
<1>7. TablesOK(p)
  BY <1>2, <1>3, <1>4, <1>5, <1>6, Zenon DEF TablesOK, NodeStatuses
<1>8. Live(p) = {} /\ Serving(p) = {} /\ Draining(p) = {}
  BY <1>5, <1>6, Zenon DEF Live, Serving, Draining
<1>9. IdsBelow(p) /\ VersionsKnown(p) /\ Ordered(p) /\ Pins(p) /\ CurrentRetained(p)
  BY <1>3, <1>5, <1>6, SMTT(20) DEF TablesInv, IdsBelow, VersionsKnown, Ordered, Pins, CurrentRetained
<1>10. CurrentWanted(p) /\ p.nextId <= p.cfg.version + 1
  BY <1>3, Zenon DEF TablesInv, CurrentWanted, Placing
<1>11. OneServing(p) /\ Succeeded(p) /\ Alone(p)
  BY <1>8, Zenon DEF OneServing, Succeeded, Alone
<1>12. Forward(s, p)
  BY <1>2, <1>3, <1>5, <1>6, RankFacts DEF Forward, TablesOK
<1>13. Gapless(s, p)
  BY <1>3, Zenon DEF Gapless, InService
<1>14. Reaches(s, p)
  BY <1>7, <1>9, <1>10, <1>11, <1>12, <1>13, Zenon DEF TablesInv, Reaches
<1> QED
  BY <1>1, <1>14, RetainReaches, Zenon

-----------------------------------------------------------------------------
(* What the implementation of Rollout needs besides: an instance warms up only *)
(* behind one that serves and is older.  Each rule of step and each writer     *)
(* keeps that.                                                                 *)

\* An instance warms up only behind an older one that serves.
Backed(s) == /\ Standby(s) # {} => Serving(s) # {}
             /\ \A j \in Standby(s), k \in Serving(s) : k < j

\* Fewer standbys behind the same server.
LEMMA FewerBacked ==
  ASSUME NEW s, NEW r, Backed(s), Standby(r) \subseteq Standby(s), Serving(r) = Serving(s)
  PROVE  Backed(r)
BY Zenon DEF Backed

\* Retention drops only final instances.
LEMMA RetainBacked ==
  ASSUME NEW s, TablesInv(s), Backed(s)
  PROVE  Backed(retainDeployment(s))
<1> DEFINE r == retainDeployment(s)
<1>1. /\ Serving(r) = Serving(s)
      /\ \A k \in DOMAIN r.insts : k \in DOMAIN s.insts /\ r.insts[k] = s.insts[k]
  BY RetainInv, Zenon
<1> HIDE DEF r
<1>2. Standby(r) \subseteq Standby(s)
  BY <1>1, Zenon DEF Standby
<1>3. Backed(r)
  BY <1>1, <1>2, FewerBacked, Zenon
<1> QED
  BY <1>3, Zenon DEF r

\* A rebuilt table whose wanted instances are those of s, unchanged.
LEMMA SameBacked ==
  ASSUME NEW s, NEW p, Backed(s), p.insts = s.insts
  PROVE  Backed(p)
BY Zenon DEF Backed, Standby, Serving, Live

\* The server retires only with everything that warms up behind it: a standby
\* that stays is of the current version, and a RECREATE version is alone.
LEMMA RetireBacked ==
  ASSUME NEW s, TablesInv(s), Backed(s), NEW sq \in Nat, NEW t \in Nat
  PROVE  Backed(Retire(s, sq, t))
<1> DEFINE p == WithInsts(s, [k \in DOMAIN s.insts |-> RetireOne(s, s.insts[k], sq, t)])
           r == retainDeployment(p)
<1>1. Retire(s, sq, t) = r
  BY Zenon DEF Retire
<1>2. /\ p = Tables(s.cfg, s.versions, p.insts, s.nextId, s.node)
      /\ p.insts = [k \in DOMAIN s.insts |-> RetireOne(s, s.insts[k], sq, t)]
  BY Zenon DEF WithInsts, Tables
<1> HIDE DEF p
<1>3. TablesOK(s) /\ DOMAIN s.insts \subseteq Nat
  BY Zenon DEF TablesInv, TablesOK
<1>4. \A k \in DOMAIN s.insts :
        /\ s.insts[k] \in Instance /\ p.insts[k] \in Instance
        /\ p.insts[k].version = s.insts[k].version
        /\ Rank[s.insts[k].state] <= Rank[p.insts[k].state]
        /\ \/ /\ p.insts[k].state = s.insts[k].state
              /\ s.insts[k].state \in WantsRunning => ~Retired(s, s.insts[k])
           \/ /\ p.insts[k].state \in {"TERMINATE", "FINALIZED"}
              /\ s.insts[k].state \in WantsRunning => Retired(s, s.insts[k])
  <2> TAKE k \in DOMAIN s.insts
  <2>1. s.insts[k] \in Instance
    BY <1>3, Zenon DEF TablesOK
  <2>2. p.insts[k] = RetireOne(s, s.insts[k], sq, t)
    BY <1>2, Zenon
  <2>3. LET r1 == RetireOne(s, s.insts[k], sq, t) IN
        /\ r1 \in Instance /\ r1.version = s.insts[k].version /\ r1.status = s.insts[k].status
        /\ Rank[s.insts[k].state] <= Rank[r1.state]
        /\ \/ r1.state = s.insts[k].state /\ (s.insts[k].state \in WantsRunning => ~Retired(s, s.insts[k]))
           \/ /\ r1.state \in {"TERMINATE", "FINALIZED"}
              /\ s.insts[k].state \in WantsRunning => Retired(s, s.insts[k])
    BY <2>1, RetireOneFacts, Zenon
  <2> QED
    BY <2>1, <2>2, <2>3, Zenon
<1>5. Moved(s, p)
  BY <1>2, <1>4, Zenon DEF Moved
<1>6. TablesOK(p) /\ DOMAIN p.insts = DOMAIN s.insts
  BY <1>3, <1>5, MovedFields, Zenon
<1>7. /\ DOMAIN r.insts \subseteq DOMAIN s.insts
      /\ \A k \in DOMAIN r.insts : r.insts[k] = p.insts[k]
      /\ \A k \in DOMAIN s.insts \ DOMAIN r.insts : p.insts[k].state = "FINALIZED"
  BY <1>6, RetainFacts
<1> HIDE DEF r
<1>8. Standby(r) \subseteq Standby(s) /\ Serving(r) \subseteq Serving(s)
  BY <1>4, <1>7, Zenon DEF Standby, Serving, Live
<1>9. ASSUME NEW k \in Standby(r) PROVE Serving(r) # {}
  <2>1. /\ k \in DOMAIN s.insts /\ s.insts[k].state = "RUN_STANDBY"
        /\ p.insts[k].state = "RUN_STANDBY"
    BY <1>7, <1>8, Zenon DEF Standby
  <2>2. ~Retired(s, s.insts[k])
    BY <1>4, <2>1, Zenon DEF WantsRunning
  <2>3. DeploymentRunning(s) /\ s.insts[k].version = s.cfg.version
    BY <2>1, <2>2, Zenon DEF Retired
  <2>4. PICK j \in Serving(s) : j < k
    BY <1>8, Zenon DEF Backed
  <2>5. j \in DOMAIN s.insts /\ s.insts[j].state = "RUN_SERVING" /\ j \in Live(s) /\ k \in Live(s)
    BY <2>1, Zenon DEF Serving, Live
  <2>6. s.cfg.strategy = "ROLLOVER"
    <3>1. s.versions[s.insts[k].version] = "ROLLOVER"
      BY <2>4, <2>5, Zenon DEF TablesInv, Alone
    <3>2. s.versions[s.cfg.version] = s.cfg.strategy
      BY <2>3, Zenon DEF TablesInv, CurrentRetained, DeploymentRunning
    <3> QED
      BY <2>3, <3>1, <3>2, Zenon
  <2>7. ~Retired(s, s.insts[j])
    BY <2>3, <2>5, <2>6, Zenon DEF Retired
  <2>8. p.insts[j].state = "RUN_SERVING"
    BY <1>4, <2>5, <2>7, Zenon DEF WantsRunning
  <2>9. j \in Serving(r)
    BY <1>7, <2>5, <2>8, Zenon DEF Serving, Live
  <2> QED
    BY <2>9, Zenon
<1>10. Backed(r)
  BY <1>8, <1>9, Zenon DEF Backed
<1> QED
  BY <1>1, <1>10, Zenon

\* A new instance has the largest id, and is a standby only behind a server.
LEMMA NewInstanceBacked ==
  ASSUME NEW s, TablesInv(s), Backed(s), NEW sq \in Nat, NEW t \in Nat
  PROVE  Backed(newInstance(s, sq, t))
<1> DEFINE n == s.nextId
           new == [version |-> s.cfg.version,
                   state |-> IF Serving(s) = {} THEN "RUN_SERVING" ELSE "RUN_STANDBY",
                   seq |-> sq, time |-> t, status |-> "NONE"]
           f == [k \in DOMAIN s.insts \cup {n} |-> IF k = n THEN new ELSE s.insts[k]]
           p == newInstance(s, sq, t)
<1>1. p.insts = f
  BY Zenon DEF newInstance, Tables
<1>2. /\ DOMAIN s.insts \subseteq Nat /\ n \in Nat
      /\ \A k \in DOMAIN s.insts : k < n
  BY Zenon DEF TablesInv, TablesOK, IdsBelow
<1>3. /\ DOMAIN p.insts = DOMAIN s.insts \cup {n}
      /\ p.insts[n].state = IF Serving(s) = {} THEN "RUN_SERVING" ELSE "RUN_STANDBY"
      /\ \A k \in DOMAIN s.insts : p.insts[k] = s.insts[k]
  BY <1>1, <1>2
<1> HIDE DEF p, f, new
<1>4. CASE Serving(s) = {}
  <2>1. Standby(s) = {}
    BY <1>4, Zenon DEF Backed
  <2>2. Standby(p) = {} /\ Serving(p) = {n}
    BY <1>2, <1>3, <1>4, <2>1 DEF Standby, Serving, Live
  <2> QED
    BY <2>2, Zenon DEF Backed, p
<1>5. CASE Serving(s) # {}
  <2>1. Standby(p) = Standby(s) \cup {n} /\ Serving(p) = Serving(s)
    BY <1>2, <1>3, <1>5, Zenon DEF Standby, Serving, Live
  <2>2. \A k \in Serving(s) : k < n
    BY <1>2, Zenon DEF Serving, Live
  <2>3. Backed(p)
    BY <1>5, <2>1, <2>2, Zenon DEF Backed
  <2> QED
    BY <2>3, Zenon DEF p
<1> QED
  BY <1>4, <1>5, Zenon

\* After a promotion nothing warms up: everything older drains.
LEMMA PromoteBacked ==
  ASSUME NEW s, TablesInv(s), NEW e \in Exact(s), NEW sq \in Nat, NEW t \in Nat
  PROVE  Backed(promote(s, e, sq, t))
<1> DEFINE f == [k \in DOMAIN s.insts |->
                  LET i == s.insts[k] IN
                  IF k < e /\ i.state \in WantsRunning THEN set(i, "RUN_DRAINING", sq, t)
                  ELSE IF k = e THEN set(i, "RUN_SERVING", sq, t)
                  ELSE i]
           p == promote(s, e, sq, t)
<1>1. p.insts = f
  BY Zenon DEF promote, WithInsts, Tables
<1>2. /\ TablesOK(s) /\ e \in DOMAIN s.insts /\ s.insts[e].version = s.cfg.version
      /\ DOMAIN s.insts \subseteq Nat
  BY Zenon DEF TablesInv, TablesOK, Exact, Live
<1> HIDE DEF p
<1>3. \A k \in DOMAIN s.insts : k <= e
  <2> SUFFICES ASSUME NEW k \in DOMAIN s.insts, e < k PROVE FALSE
    BY <1>2
  <2>1. s.insts[e].version < s.insts[k].version /\ s.insts[k].version <= s.cfg.version
    BY <1>2, Zenon DEF TablesInv, Ordered, VersionsKnown
  <2>2. s.insts[k].version \in Nat /\ s.cfg.version \in Nat
    BY <1>2, Zenon DEF TablesOK, Instance, Deployment
  <2> QED
    BY <1>2, <2>1, <2>2
<1>4. \A k \in DOMAIN s.insts : p.insts[k].state # "RUN_STANDBY"
  <2> TAKE k \in DOMAIN s.insts
  <2>a. s.insts[k] \in Instance
    BY <1>2, Zenon DEF TablesOK
  <2>b. "RUN_DRAINING" \in Targets /\ "RUN_SERVING" \in Targets
    BY Zenon DEF Targets, WantsRunning
  <2>c. \A target \in Targets : set(s.insts[k], target, sq, t).state = target
    BY <2>a, Zenon DEF set, Instance
  <2>2. /\ set(s.insts[k], "RUN_DRAINING", sq, t).state = "RUN_DRAINING"
        /\ set(s.insts[k], "RUN_SERVING", sq, t).state = "RUN_SERVING"
    BY Zenon, <2>b, <2>c
  <2>3. p.insts[k] = LET i == s.insts[k] IN
                     IF k < e /\ i.state \in WantsRunning THEN set(i, "RUN_DRAINING", sq, t)
                     ELSE IF k = e THEN set(i, "RUN_SERVING", sq, t) ELSE i
    BY <1>1, Zenon
  <2>4. k < e \/ k = e
    BY <1>2, <1>3
  <2> QED
    BY <2>2, <2>3, <2>4, Zenon DEF WantsRunning
<1>5. Standby(p) = {}
  BY <1>1, <1>4, Zenon DEF Standby
<1>6. Backed(p)
  BY <1>5, Zenon DEF Backed
<1> QED
  BY <1>6, Zenon DEF p

\* The second part of step.
LEMMA PlaceBacked ==
  ASSUME NEW s, TablesInv(s), NoneRetired(s), Backed(s), NEW sq \in Nat, NEW t \in Nat
  PROVE  Backed(Place(s, sq, t))
<1>1. CASE ~Placing(s)
  BY <1>1, Zenon DEF Place, Placing
<1>2. CASE Placing(s) /\ Exact(s) = {}
  <2>1. CASE Blocked(s)
    BY <1>2, <2>1, Zenon DEF Place, Placing
  <2>2. CASE ~Blocked(s)
    <3>1. Backed(newInstance(s, sq, t))
      BY NewInstanceBacked, Zenon
    <3>2. Phase(s, newInstance(s, sq, t))
      BY <1>2, <2>2, NewInstanceInv, Zenon
    <3>3. Backed(retainDeployment(newInstance(s, sq, t)))
      BY <3>1, <3>2, RetainBacked, Zenon DEF Phase
    <3> QED
      BY <1>2, <2>2, <3>3, Zenon DEF Place, Placing
  <2> QED
    BY <2>1, <2>2, Zenon
<1>3. CASE Placing(s) /\ Exact(s) # {}
  <2> DEFINE e == Newest(Exact(s))
  <2>1. e \in Exact(s)
    BY <1>3, NewestExact, Zenon
  <2> HIDE DEF e
  <2>2. CASE TakesOver(s, e)
    <3>1. Backed(promote(s, e, sq, t))
      BY <2>1, PromoteBacked, Zenon
    <3>2. Phase(s, promote(s, e, sq, t))
      BY <1>3, <2>1, <2>2, PromoteInv, Zenon
    <3>3. Backed(retainDeployment(promote(s, e, sq, t)))
      BY <3>1, <3>2, RetainBacked, Zenon DEF Phase
    <3> QED
      BY <1>3, <2>2, <3>3, Zenon DEF Place, Placing, e
  <2>3. CASE ~TakesOver(s, e)
    BY <1>3, <2>3, Zenon DEF Place, Placing, e
  <2> QED
    BY <2>2, <2>3, Zenon
<1> QED
  BY <1>1, <1>2, <1>3, Zenon

\* The end of a drain touches no standby and no server.
LEMMA DrainBacked ==
  ASSUME NEW s, TablesInv(s), Backed(s), NEW sq \in Nat, NEW t \in Nat, NEW inForce
  PROVE  Backed(Drain(s, sq, t, inForce))
<1> DEFINE f == [k \in DOMAIN s.insts |->
                  LET i == s.insts[k] IN
                  IF DrainOver(i, sq, t, inForce)
                  THEN finalizeStopped(set(i, "TERMINATE", sq, t), sq, t) ELSE i]
           p == WithInsts(s, f)
           r == retainDeployment(p)
<1>1. Drain(s, sq, t, inForce) = r
  BY Zenon DEF Drain
<1>2. TablesOK(s)
  BY Zenon DEF TablesInv
<1>3. p.insts = f /\ p = Tables(s.cfg, s.versions, p.insts, s.nextId, s.node)
  BY Zenon DEF WithInsts, Tables
<1> HIDE DEF p
<1>4. \A k \in DOMAIN s.insts :
        /\ p.insts[k] \in Instance /\ p.insts[k].version = s.insts[k].version
        /\ s.insts[k].state \in Targets
        /\ \/ p.insts[k].state = s.insts[k].state
           \/ /\ s.insts[k].state = "RUN_DRAINING"
              /\ p.insts[k].state \in {"TERMINATE", "FINALIZED"}
  <2> HIDE DEF f
  <2> TAKE k \in DOMAIN s.insts
  <2> DEFINE m == set(s.insts[k], "TERMINATE", sq, t)
  <2>1. s.insts[k] \in Instance /\ s.insts[k].state \in Targets
    BY <1>2, Zenon DEF TablesOK, Instance
  <2>2. "TERMINATE" \in Targets
    BY Zenon DEF Targets
  <2>3. p.insts[k] = IF DrainOver(s.insts[k], sq, t, inForce)
                     THEN finalizeStopped(m, sq, t) ELSE s.insts[k]
    BY <1>3, Zenon DEF f
  <2>4. m \in Instance /\ m.state = "TERMINATE" /\ m.version = s.insts[k].version
    <3>1. LET x == set(s.insts[k], "TERMINATE", sq, t) IN
          x \in Instance /\ x.state = "TERMINATE" /\ x.version = s.insts[k].version
      <4> HIDE DEF m
      <4> QED
        BY <2>1, <2>2, SetFacts
    <3> QED
      BY <3>1, Zenon
  <2> HIDE DEF m
  <2>5. LET x == finalizeStopped(m, sq, t) IN
        /\ x \in Instance /\ x.version = m.version
        /\ \/ x.state = m.state
           \/ m.state = "TERMINATE" /\ x.state = "FINALIZED"
    BY <2>4, FinalizeFacts
  <2>6. DrainOver(s.insts[k], sq, t, inForce) => s.insts[k].state = "RUN_DRAINING"
    BY Zenon DEF DrainOver
  <2> QED
    BY <2>1, <2>3, <2>4, <2>5, <2>6, Zenon
<1>5. \A k \in DOMAIN s.insts : Rank[s.insts[k].state] <= Rank[p.insts[k].state]
  BY <1>4, RankFacts, SMTT(20)
<1>6. Moved(s, p)
  BY <1>3, <1>4, <1>5, Zenon DEF Moved
<1>7. DOMAIN p.insts = DOMAIN s.insts
  BY <1>2, <1>6, MovedFields, Zenon
<1>8. Serving(p) = Serving(s) /\ Standby(p) = Standby(s)
  BY <1>4, <1>7, Zenon DEF Serving, Live, Standby
<1>9. TablesOK(p)
  BY <1>2, <1>6, MovedFields, Zenon
<1>10. /\ DOMAIN r.insts \subseteq DOMAIN p.insts
       /\ \A k \in DOMAIN r.insts : r.insts[k] = p.insts[k]
       /\ \A k \in DOMAIN p.insts \ DOMAIN r.insts : p.insts[k].state = "FINALIZED"
  BY <1>9, RetainFacts, Zenon
<1> HIDE DEF r
<1>11. Serving(r) = Serving(s) /\ Standby(r) \subseteq Standby(s)
  BY <1>8, <1>10 DEF Serving, Live, Standby
<1> QED
  BY <1>1, <1>11, FewerBacked, Zenon

\* A pass keeps every standby backed, whatever the barrier answers.
LEMMA StepBacked ==
  ASSUME NEW s, TablesInv(s), Backed(s), NEW sq \in Nat, NEW t \in Nat, NEW inForce
  PROVE  Backed(step(s, sq, t, inForce))
<1> DEFINE a == Retire(s, sq, t)
           b == Place(a, sq, t)
           c == Drain(b, sq, t, inForce)
<1>1. Phase(s, a) /\ NoneRetired(a)
  BY RetireInv, Zenon
<1>2. Backed(a)
  BY RetireBacked, Zenon
<1> HIDE DEF a
<1>3. TablesInv(a)
  BY <1>1, Zenon DEF Phase
<1>4. Phase(a, b)
  BY <1>1, <1>3, PlaceInv, Zenon
<1>5. Backed(b)
  BY <1>1, <1>2, <1>3, PlaceBacked, Zenon
<1> HIDE DEF b
<1>6. TablesInv(b)
  BY <1>4, Zenon DEF Phase
<1>7. Backed(c)
  BY <1>5, <1>6, DrainBacked, Zenon
<1> HIDE DEF c
<1> QED
  BY <1>7, Zenon DEF step, a, b, c

------------------------------------------------------------------------------
(* The writers leave the targets alone, except for eviction.                *)

\* A retained table that keeps the targets of s keeps every standby backed.
LEMMA WrittenBacked ==
  ASSUME NEW s, NEW p, TablesOK(p), Backed(s), DOMAIN p.insts = DOMAIN s.insts,
         \A k \in DOMAIN s.insts : p.insts[k].state = s.insts[k].state
  PROVE  Backed(p) /\ Backed(retainDeployment(p))
<1> DEFINE r == retainDeployment(p)
<1>1. /\ DOMAIN r.insts \subseteq DOMAIN p.insts
      /\ \A k \in DOMAIN r.insts : r.insts[k] = p.insts[k]
      /\ \A k \in DOMAIN p.insts \ DOMAIN r.insts : p.insts[k].state = "FINALIZED"
  BY RetainFacts, Zenon
<1> HIDE DEF r
<1>2. Serving(p) = Serving(s) /\ Standby(p) = Standby(s)
  BY Zenon DEF Serving, Live, Standby
<1>3. Serving(r) = Serving(s) /\ Standby(r) \subseteq Standby(s)
  BY <1>1, Zenon DEF Serving, Live, Standby
<1>4. Backed(p)
  BY <1>2, FewerBacked, Zenon
<1>5. Backed(r)
  BY <1>3, FewerBacked, Zenon
<1> QED
  BY <1>4, <1>5, Zenon DEF r

\* A new document and a deletion change no target.
LEMMA DocumentsBacked ==
  ASSUME NEW s, TablesInv(s), Backed(s)
  PROVE  /\ \A running \in BOOLEAN, strategy \in Strategies :
              Backed(Document(s, running, strategy))
         /\ Backed(Deleted(s))
<1>0. TablesOK(s) /\ s.cfg \in Deployment /\ s.cfg.version \in Nat
  BY Zenon DEF TablesInv, TablesOK, Deployment
<1>1. ASSUME NEW cfg \in Deployment, NEW vs, vs = [v \in DOMAIN vs |-> vs[v]],
             DOMAIN vs \subseteq Nat, \A v \in DOMAIN vs : vs[v] \in Strategies
      PROVE  Backed(retainDeployment(Tables(cfg, vs, s.insts, s.nextId, s.node)))
  <2> DEFINE p == Tables(cfg, vs, s.insts, s.nextId, s.node)
  <2>1. /\ p.cfg = cfg /\ p.versions = vs /\ p.insts = s.insts
        /\ p.nextId = s.nextId /\ p.node = s.node
    BY Zenon DEF Tables
  <2>2. p = Tables(p.cfg, p.versions, p.insts, p.nextId, p.node)
    BY <2>1, Zenon
  <2> HIDE DEF p
  <2>3. TablesOK(p)
    BY <1>0, <1>1, <2>1, <2>2, Zenon DEF TablesOK
  <2>4. Backed(retainDeployment(p))
    BY <2>1, <2>3, WrittenBacked, Zenon
  <2> QED
    BY <2>4, Zenon DEF p
<1>2. ASSUME NEW running \in BOOLEAN, NEW strategy \in Strategies
      PROVE  Backed(Document(s, running, strategy))
  <2> DEFINE new == s.cfg.version + 1
             cfg == [live |-> TRUE, version |-> new, running |-> running, strategy |-> strategy]
             vs == [v \in DOMAIN s.versions \cup {new} |->
                      IF v = new THEN strategy ELSE s.versions[v]]
  <2>1. cfg \in Deployment
    BY <1>0 DEF Deployment
  <2>2. /\ vs = [v \in DOMAIN vs |-> vs[v]] /\ DOMAIN vs \subseteq Nat
        /\ \A v \in DOMAIN vs : vs[v] \in Strategies
    BY <1>0 DEF TablesOK
  <2>3. Document(s, running, strategy) = retainDeployment(Tables(cfg, vs, s.insts, s.nextId, s.node))
    BY Zenon DEF Document
  <2> HIDE DEF cfg, vs
  <2> QED
    BY <1>1, <2>1, <2>2, <2>3, Zenon
<1>3. Backed(Deleted(s))
  <2> DEFINE cfg == [s.cfg EXCEPT !.live = FALSE]
  <2>1. cfg \in Deployment
    BY Zenon, <1>0 DEF Deployment
  <2>2. /\ s.versions = [v \in DOMAIN s.versions |-> s.versions[v]]
        /\ DOMAIN s.versions \subseteq Nat /\ \A v \in DOMAIN s.versions : s.versions[v] \in Strategies
    BY <1>0, Zenon DEF TablesOK
  <2>3. Deleted(s) = retainDeployment(Tables(cfg, s.versions, s.insts, s.nextId, s.node))
    BY Zenon DEF Deleted
  <2> HIDE DEF cfg
  <2> QED
    BY <1>1, <2>1, <2>2, <2>3, Zenon
<1> QED
  BY <1>2, <1>3, Zenon

\* A status report changes no target.
LEMMA ReportedBacked ==
  ASSUME NEW s, TablesInv(s), Backed(s), NEW n \in DOMAIN s.insts, NEW st \in Statuses
  PROVE  Backed(Reported(s, n, st))
<1> DEFINE p == Reported(s, n, st)
<1>1. p.insts = [j \in DOMAIN s.insts |->
                  IF j = n THEN [s.insts[j] EXCEPT !.status = st] ELSE s.insts[j]]
  BY Zenon DEF Reported, WithInsts, Tables
<1>2. Reaches(s, p)
  BY ReportedInv, Zenon
<1>3. TablesOK(p)
  BY <1>2, Zenon DEF Reaches, TablesInv
<1> HIDE DEF p
<1>4. ASSUME NEW k \in DOMAIN s.insts PROVE p.insts[k].state = s.insts[k].state
  <2>1. s.insts[k] \in Instance
    BY Zenon DEF TablesInv, TablesOK
  <2>2. p.insts[k] = IF k = n THEN [s.insts[k] EXCEPT !.status = st] ELSE s.insts[k]
    BY <1>1, Zenon
  <2> QED
    BY <2>1, <2>2, Zenon DEF Instance
<1>5. DOMAIN p.insts = DOMAIN s.insts
  BY <1>1, Zenon
<1>6. Backed(p)
  BY <1>3, <1>4, <1>5, WrittenBacked, Zenon
<1> QED
  BY <1>6, Zenon DEF p

\* Eviction leaves nothing that warms up.
LEMMA EvictedBacked ==
  ASSUME NEW s, TablesInv(s), NEW sq \in Nat, NEW t \in Nat
  PROVE  Backed(Evicted(s, sq, t))
<1> DEFINE f == [k \in DOMAIN s.insts |->
                  IF k \in Live(s)
                  THEN [version |-> s.insts[k].version, state |-> "FINALIZED",
                        seq |-> sq, time |-> t, status |-> "NONE"]
                  ELSE s.insts[k]]
           p == Tables(s.cfg, s.versions, f, s.nextId, "MEMBER_EVICTED")
           kept == DOMAIN p.insts \ Pruned(p)
           r == retainDeployment(p)
<1>1. Evicted(s, sq, t) = r
  BY Zenon DEF Evicted
<1>2. p.insts = f
  BY Zenon DEF Tables
<1> HIDE DEF p
<1>3. r.insts = [k \in kept |-> p.insts[k]]
  BY Zenon DEF retainDeployment, Tables
<1> HIDE DEF r, kept
<1>4. \A k \in DOMAIN s.insts : p.insts[k].state = "FINALIZED"
  BY <1>2 DEF Live
<1>5. \A k \in DOMAIN r.insts : r.insts[k].state = "FINALIZED"
  BY <1>2, <1>3, <1>4, Zenon DEF kept
<1>6. Standby(r) = {}
  BY <1>5, Zenon DEF Standby
<1>7. Backed(r)
  BY <1>6, Zenon DEF Backed
<1> QED
  BY <1>1, <1>7, Zenon

------------------------------------------------------------------------------
(* The invariant of the system.                                             *)

\* The pass limit of reconcile is a number: a deployment has finitely many
\* instances.
LEMMA LimitNat ==
  ASSUME NEW s, TablesInv(s)
  PROVE  3 * Cardinality(Live(s)) + 8 \in Nat
<1>1. Live(s) \in SUBSET Nat /\ s.nextId \in Nat
  BY Zenon DEF Live, TablesInv, TablesOK
<1>2. \A x \in Live(s) : x <= s.nextId
  BY <1>1 DEF Live, TablesInv, IdsBelow
<1>3. IsFiniteSet(Live(s))
  BY <1>1, <1>2, FS_BoundedSetOfNaturals, Zenon
<1>4. Cardinality(Live(s)) \in Nat
  BY <1>3, FS_CardinalityType, Zenon
<1> QED
  BY <1>4, SMTT(20)

\* A transaction opened on tables the committed ones reach keeps the invariant.
LEMMA OpenInv ==
  ASSUME IInv, NEW s, Reaches(db, s), work' = s, UNCHANGED <<db, seq, now>>,
         tx' \in [open : BOOLEAN, now : Nat, pass : Nat, limit : Nat, mutated : BOOLEAN],
         up' \in BOOLEAN, bootSeq' \in Nat, bootTime' \in Nat, reports' \in Nat, boots' \in Nat
  PROVE  IInv'
<1>1. TablesInv(db)' /\ TablesInv(work)' /\ Forward(db, work)' /\ Gapless(db, work)'
  BY Zenon DEF IInv, Reaches
<1>2. TypeOK'
  BY <1>1, Zenon DEF IInv, TypeOK, TablesInv
<1> QED
  BY <1>1, <1>2, Zenon DEF IInv

\* The inductive invariant holds initially.
LEMMA InitIInv == Init => IInv
<1> SUFFICES ASSUME Init PROVE IInv
  BY Zenon
<1> DEFINE s == InitDb
<1>1. /\ s.cfg = [live |-> FALSE, version |-> 0, running |-> FALSE, strategy |-> "RECREATE"]
      /\ s.versions = [v \in {} |-> "RECREATE"] /\ s.insts = [k \in {} |-> 0]
      /\ s.nextId = 1 /\ s.node = "MEMBER_NORMAL"
  BY Zenon DEF InitDb, Tables
<1>2. s = Tables(s.cfg, s.versions, s.insts, s.nextId, s.node)
  BY <1>1, Zenon DEF InitDb
<1> HIDE DEF s
<1>3. s.cfg \in Deployment /\ ~s.cfg.live /\ s.cfg.version = 0
  BY <1>1 DEF Deployment, Strategies
<1>4. /\ DOMAIN s.insts = {} /\ DOMAIN s.versions = {}
      /\ s.insts = [k \in DOMAIN s.insts |-> s.insts[k]]
      /\ s.versions = [v \in DOMAIN s.versions |-> s.versions[v]]
  BY <1>1, Zenon
<1>5. TablesOK(s)
  BY <1>1, <1>2, <1>3, <1>4, SMTT(20) DEF TablesOK, NodeStatuses
<1>a. Live(s) = {} /\ Serving(s) = {} /\ Draining(s) = {}
  BY <1>4, Zenon DEF Live, Serving, Draining
<1>b. /\ IdsBelow(s) /\ VersionsKnown(s) /\ Ordered(s) /\ Pins(s)
      /\ OneServing(s) /\ Succeeded(s) /\ Alone(s)
  BY <1>4, <1>a, Zenon DEF IdsBelow, VersionsKnown, Ordered, Pins, OneServing, Succeeded, Alone
<1>c. CurrentRetained(s) /\ CurrentWanted(s)
  BY <1>3, Zenon DEF CurrentRetained, CurrentWanted, Placing, DeploymentRunning
<1>d. s.nextId <= s.cfg.version + 1
  BY <1>1, <1>3
<1>6. TablesInv(s)
  BY <1>5, <1>b, <1>c, <1>d, Zenon DEF TablesInv
<1>7. Reaches(s, s)
  BY <1>6, ReachesRefl, Zenon
<1>8. db = s /\ work = s
  BY Zenon DEF Init, s
<1>9. TypeOK
  BY <1>5, <1>8, Zenon DEF Init, TypeOK, Closed
<1> QED
  BY <1>6, <1>7, <1>8, <1>9, Zenon DEF IInv, Reaches

\* Every step keeps the inductive invariant.
LEMMA NextIInv == IInv /\ [Next]_vars => IInv'
<1> SUFFICES ASSUME IInv, [Next]_vars PROVE IInv'
  BY Zenon
<1>0. /\ TypeOK /\ TablesInv(db) /\ TablesInv(work) /\ Reaches(db, work)
  BY Zenon DEF IInv, Reaches
<1>a. /\ seq \in Nat /\ bootSeq \in Nat /\ bootTime \in Nat /\ now \in Nat
      /\ tx \in [open : BOOLEAN, now : Nat, pass : Nat, limit : Nat, mutated : BOOLEAN]
      /\ up \in BOOLEAN /\ reports \in Nat /\ boots \in Nat
  BY <1>0, Zenon DEF TypeOK
<1>b. Reaches(db, db)
  BY <1>0, ReachesRefl, Zenon
<1>c. ASSUME NEW s, Reaches(db, s), NEW m \in BOOLEAN, Open(s, m),
             UNCHANGED <<up, bootSeq, bootTime, boots>>, reports' \in Nat
      PROVE  IInv'
  <2>1. 3 * Cardinality(Live(s)) + 8 \in Nat
    BY <1>c, LimitNat, Zenon DEF Reaches
  <2>2. tx' \in [open : BOOLEAN, now : Nat, pass : Nat, limit : Nat, mutated : BOOLEAN]
    BY <1>a, <1>c, <2>1, Zenon DEF Open
  <2>3. work' = s /\ UNCHANGED <<db, seq, now>>
    BY <1>c, Zenon DEF Open
  <2> QED
    BY <1>a, <1>c, <2>2, <2>3, OpenInv, Zenon
<1>1. CASE Create
  <2>1. PICK running \in BOOLEAN, strategy \in Strategies :
          Open(Document(db, running, strategy), TRUE)
    BY <1>1, Zenon DEF Create
  <2>2. Reaches(db, Document(db, running, strategy))
    BY <1>0, DocumentInv, Zenon
  <2> QED
    BY <1>1, <1>a, <1>c, <2>1, <2>2, Zenon DEF Create
<1>2. CASE Update
  <2>1. PICK running \in BOOLEAN, strategy \in Strategies :
          Open(Document(db, running, strategy), TRUE)
    BY <1>2, Zenon DEF Update
  <2>2. Reaches(db, Document(db, running, strategy))
    BY <1>0, DocumentInv, Zenon
  <2> QED
    BY <1>2, <1>a, <1>c, <2>1, <2>2, Zenon DEF Update
<1>3. CASE Delete
  <2>1. Reaches(db, Deleted(db))
    BY <1>0, DeletedInv, Zenon
  <2> QED
    BY <1>3, <1>a, <1>c, <2>1, Zenon DEF Delete
<1>4. CASE WriteReplicatedStatus
  <2>1. PICK k \in DOMAIN db.insts, st \in Statuses : Open(Reported(db, k, st), TRUE)
    BY <1>4, Zenon DEF WriteReplicatedStatus
  <2>2. Reaches(db, Reported(db, k, st))
    BY <1>0, ReportedInv, Zenon
  <2>3. UNCHANGED <<up, bootSeq, bootTime, boots>> /\ reports' \in Nat
    BY <1>4, <1>a DEF WriteReplicatedStatus
  <2> QED
    BY <1>c, <2>1, <2>2, <2>3, Zenon
<1>5. CASE EvictNode
  <2>1. Reaches(db, Evicted(db, seq + 1, now))
    BY <1>0, <1>a, EvictedInv
  <2> QED
    BY <1>5, <1>a, <1>c, <2>1, Zenon DEF EvictNode
<1>6. CASE Sweep
  BY <1>6, <1>a, <1>b, <1>c, Zenon DEF Sweep
<1>7. CASE Start
  <2>1. 3 * Cardinality(Live(db)) + 8 \in Nat
    BY <1>0, LimitNat, Zenon
  <2>2. tx' \in [open : BOOLEAN, now : Nat, pass : Nat, limit : Nat, mutated : BOOLEAN]
    BY <1>7, <1>a, <2>1, Zenon DEF Start
  <2> QED
    BY <1>7, <1>a, <1>b, <2>2, OpenInv DEF Start
<1>8. CASE Crash
  <2>1. tx' \in [open : BOOLEAN, now : Nat, pass : Nat, limit : Nat, mutated : BOOLEAN]
    BY <1>8, Zenon DEF Crash, Closed
  <2> QED
    BY <1>8, <1>a, <1>b, <2>1, OpenInv, Zenon DEF Crash
<1>9. CASE Tick
  <2>1. UNCHANGED <<db, seq, work, tx, up, bootSeq, bootTime, reports, boots>> /\ now' \in Nat
    BY <1>9, <1>a DEF Tick
  <2> QED
    BY <1>0, <1>a, <2>1, Zenon DEF IInv, TypeOK, Reaches
<1>10. CASE Pass
  <2>1. PICK inForce : work' = step(work, seq + 1, tx.now, inForce)
    BY <1>10, Zenon DEF Pass
  <2>2. tx.now \in Nat /\ seq + 1 \in Nat
    BY <1>a
  <2>3. Phase(work, work')
    BY <1>0, <2>1, <2>2, StepInv, Zenon
  <2>4. /\ TablesInv(work') /\ Forward(work, work') /\ Keeps(work, work')
        /\ work'.cfg = work.cfg /\ work'.node = work.node
    BY <2>3, Zenon DEF Phase
  <2>5. Forward(db, work')
    BY <1>0, <2>4, ForwardTrans, Zenon DEF Reaches, TablesInv
  <2>6. Gapless(db, work')
    BY <1>0, <2>3, GaplessPhase, Zenon
  <2>7. /\ UNCHANGED <<db, seq, up, bootSeq, bootTime, now, reports, boots>>
        /\ tx' \in [open : BOOLEAN, now : Nat, pass : Nat, limit : Nat, mutated : BOOLEAN]
    BY <1>10, <1>a DEF Pass
  <2>8. TablesInv(db)' /\ TablesInv(work)' /\ Forward(db, work)' /\ Gapless(db, work)'
    <3>1. db' = db
      BY <2>7, Zenon
    <3> QED
      BY <1>0, <2>4, <2>5, <2>6, <3>1, Zenon
  <2>9. TypeOK'
    BY <1>a, <2>7, <2>8, Zenon DEF TypeOK, TablesInv
  <2> QED
    BY <2>8, <2>9, Zenon DEF IInv
<1>11. CASE Commit
  <2>1. /\ db' = work /\ work' = work /\ seq' \in Nat
        /\ UNCHANGED <<up, bootSeq, bootTime, now, reports, boots>>
        /\ tx' \in [open : BOOLEAN, now : Nat, pass : Nat, limit : Nat, mutated : BOOLEAN]
    BY <1>11, <1>a DEF Commit, Closed
  <2>2. Reaches(work, work)
    BY <1>0, ReachesRefl, Zenon
  <2>3. TablesInv(db)' /\ TablesInv(work)' /\ Forward(db, work)' /\ Gapless(db, work)'
    BY <1>0, <2>1, <2>2, Zenon DEF Reaches
  <2>4. TypeOK'
    BY <1>a, <2>1, <2>3, Zenon DEF TypeOK, TablesInv
  <2> QED
    BY <2>3, <2>4, Zenon DEF IInv
<1>12. CASE UNCHANGED vars
  BY <1>0, <1>12, Zenon DEF vars, IInv, TypeOK, Reaches
<1> QED
  BY <1>1, <1>2, <1>3, <1>4, <1>5, <1>6, <1>7, <1>8, <1>9, <1>10, <1>11, <1>12, Zenon DEF Next

\* The inductive invariant holds in every reachable state.
THEOREM Invariance == Spec => []IInv
BY InitIInv, NextIInv, PTL DEF Spec

------------------------------------------------------------------------------
(* The theorems.                                                            *)

\* TypeOK: the tables, committed or not, hold the records the queries scan.
THEOREM TypeCorrect == Spec => []TypeOK
<1>1. IInv => TypeOK
  BY Zenon DEF IInv
<1> QED
  BY <1>1, Invariance, PTL

\* Of one deployment at most one instance serves, whatever is written, reported
\* and acknowledged in whatever order, across restarts of the primary.
THEOREM ServingUnique == Spec => []AtMostOneServing
<1>1. IInv => AtMostOneServing
  BY Zenon DEF IInv, TablesInv, AtMostOneServing
<1> QED
  BY <1>1, Invariance, PTL

\* An instance of a RECREATE version never coexists with an older instance
\* that is not final.
THEOREM RecreateExclusive == Spec => []RecreateAlone
<1>1. IInv => RecreateAlone
  BY ZenonT(30) DEF IInv, TablesInv, RecreateAlone
<1> QED
  BY <1>1, Invariance, PTL

\* Every draining instance has a newer one serving.
THEOREM DrainSafe == Spec => []DrainingHasSuccessor
<1>1. IInv => DrainingHasSuccessor
  BY ZenonT(30) DEF IInv, TablesInv, DrainingHasSuccessor
<1> QED
  BY <1>1, Invariance, PTL

\* retainDeployment never prunes a document an instance pins.
THEOREM PinsRetained == Spec => []PinnedVersionRetained
<1>1. IInv => PinnedVersionRetained
  BY ZenonT(30) DEF IInv, TablesInv, PinnedVersionRetained
<1> QED
  BY <1>1, Invariance, PTL

\* The scheduler places each version at most once, in the order of versions.
THEOREM VersionsPlacedOnce == Spec => []PlacedOnce
<1>1. IInv => PlacedOnce
  BY ZenonT(30) DEF IInv, TablesInv, PlacedOnce
<1> QED
  BY <1>1, Invariance, PTL

\* Only a commit changes the committed tables, and what it publishes are the
\* transaction's.
LEMMA CommitsOnly == [Next]_vars => db' = db \/ db' = work
<1> SUFFICES ASSUME [Next]_vars PROVE db' = db \/ db' = work
  BY Zenon
<1>1. CASE Create \/ Update \/ Delete \/ WriteReplicatedStatus \/ EvictNode \/ Sweep
  BY <1>1, Zenon DEF Create, Update, Delete, WriteReplicatedStatus, EvictNode, Sweep, Open
<1>2. CASE Start \/ Crash \/ Tick \/ Pass \/ Commit \/ UNCHANGED vars
  BY <1>2, Zenon DEF Start, Crash, Tick, Pass, Commit, vars
<1> QED
  BY <1>1, <1>2, Zenon DEF Next

\* No commit moves an instance backwards or reuses an id.
THEOREM MovesForward == Spec => ForwardOnly
<1>1. IInv /\ [Next]_vars => [Forward(db, db')]_db
  BY CommitsOnly, Zenon DEF IInv
<1> QED
  BY <1>1, Invariance, PTL DEF Spec, ForwardOnly

\* No commit of a rollover leaves the deployment without a serving instance.
THEOREM RolloverGapless == Spec => NoServingGap
<1>1. IInv /\ [Next]_vars => [Gapless(db, db')]_db
  BY CommitsOnly, Zenon DEF IInv
<1> QED
  BY <1>1, Invariance, PTL DEF Spec, NoServingGap

------------------------------------------------------------------------------
(* The scheduler implements Rollout: every commit is a step of it.          *)

BackedInv == IInv /\ Backed(db) /\ Backed(work)

\* Nothing warms up initially.
LEMMA InitBacked == Init => BackedInv
<1> SUFFICES ASSUME Init PROVE BackedInv
  BY Zenon
<1>1. db.insts = [k \in {} |-> 0] /\ work.insts = [k \in {} |-> 0]
  BY Zenon DEF Init, InitDb, Tables
<1>2. Standby(db) = {} /\ Standby(work) = {}
  BY <1>1, Zenon DEF Standby
<1> QED
  BY <1>2, InitIInv, Zenon DEF BackedInv, Backed

\* Every step keeps every standby backed, in the committed tables and in the
\* open transaction.
LEMMA NextBacked == BackedInv /\ [Next]_vars => BackedInv'
<1> SUFFICES ASSUME BackedInv, [Next]_vars PROVE BackedInv'
  BY Zenon
<1>1. IInv'
  BY NextIInv, Zenon DEF BackedInv
<1>2. /\ TablesInv(db) /\ TablesInv(work) /\ Backed(db) /\ Backed(work)
      /\ seq \in Nat /\ now \in Nat /\ tx.now \in Nat
  BY Zenon DEF BackedInv, IInv, TypeOK
<1>3. CASE Create \/ Update \/ Delete \/ WriteReplicatedStatus \/ EvictNode \/ Sweep
  <2>1. PICK s, m : Open(s, m) /\ Backed(s)
    <3>1. CASE Create
      BY <1>2, <3>1, DocumentsBacked, Zenon DEF Create
    <3>2. CASE Update
      BY <1>2, <3>2, DocumentsBacked, Zenon DEF Update
    <3>3. CASE Delete
      BY <1>2, <3>3, DocumentsBacked, Zenon DEF Delete
    <3>4. CASE WriteReplicatedStatus
      <4>1. PICK k \in DOMAIN db.insts, st \in Statuses : Open(Reported(db, k, st), TRUE)
        BY <3>4, Zenon DEF WriteReplicatedStatus
      <4>2. Backed(Reported(db, k, st))
        BY <1>2, ReportedBacked, Zenon
      <4> QED
        BY Zenon, <4>1, <4>2
    <3>5. CASE EvictNode
      <4>1. Open(Evicted(db, seq + 1, now), TRUE)
        BY Zenon, <3>5 DEF EvictNode
      <4>2. Backed(Evicted(db, seq + 1, now))
        BY <1>2, EvictedBacked
      <4> QED
        BY Zenon, <4>1, <4>2
    <3>6. CASE Sweep
      BY <1>2, <3>6, Zenon DEF Sweep
    <3> QED
      BY <1>3, <3>1, <3>2, <3>3, <3>4, <3>5, <3>6, Zenon
  <2>2. work' = s /\ db' = db
    BY <2>1, Zenon DEF Open
  <2> QED
    BY <1>1, <1>2, <2>1, <2>2, Zenon DEF BackedInv
<1>4. CASE Start \/ Crash
  <2>1. work' = db /\ db' = db
    BY <1>4, Zenon DEF Start, Crash
  <2> QED
    BY <1>1, <1>2, <2>1, Zenon DEF BackedInv
<1>5. CASE Tick \/ UNCHANGED vars
  <2>1. work' = work /\ db' = db
    BY <1>5, Zenon DEF Tick, vars
  <2> QED
    BY <1>1, <1>2, <2>1, Zenon DEF BackedInv
<1>6. CASE Pass
  <2>1. PICK inForce : work' = step(work, seq + 1, tx.now, inForce) /\ db' = db
    BY <1>6, Zenon DEF Pass
  <2>2. Backed(work')
    BY <1>2, <2>1, StepBacked
  <2> QED
    BY <1>1, <1>2, <2>1, <2>2, Zenon DEF BackedInv
<1>7. CASE Commit
  <2>1. work' = work /\ db' = work
    BY <1>7, Zenon DEF Commit
  <2> QED
    BY <1>1, <1>2, <2>1, Zenon DEF BackedInv
<1> QED
  BY <1>3, <1>4, <1>5, <1>6, <1>7, Zenon DEF Next

\* What a commit does to the instances is a step of Rollout.
LEMMA CommitStep ==
  ASSUME NEW s, NEW r, TablesInv(s), TablesInv(r), Forward(s, r), Backed(s), Backed(r)
  PROVE  LET fresh == s.nextId .. (r.nextId - 1) IN
         /\ r.nextId >= s.nextId
         /\ \/ \E k \in Standby(s) \cup fresh :
                 /\ Serving(r) = {k}
                 /\ Draining(r) \subseteq
                      {j \in Standby(s) \cup Serving(s) \cup Draining(s) \cup fresh : j < k}
                 /\ Standby(r) \subseteq (Standby(s) \cup fresh) \ {k}
            \/ /\ Serving(s) # {} /\ Serving(r) = Serving(s)
               /\ Draining(r) \subseteq Draining(s)
               /\ Standby(r) \subseteq Standby(s) \cup fresh
            \/ Serving(r) = {} /\ Draining(r) = {} /\ Standby(r) = {}
<1> DEFINE fresh == s.nextId .. (r.nextId - 1)
<1>1. /\ s.nextId \in Nat /\ r.nextId \in Nat
      /\ DOMAIN s.insts \subseteq Nat /\ DOMAIN r.insts \subseteq Nat
      /\ \A k \in DOMAIN s.insts : s.insts[k].state \in Targets /\ k < s.nextId
      /\ \A k \in DOMAIN r.insts : r.insts[k].state \in Targets /\ k < r.nextId
  BY Zenon DEF TablesInv, TablesOK, Instance, IdsBelow
<1>2. /\ r.nextId >= s.nextId
      /\ \A k \in DOMAIN r.insts \ DOMAIN s.insts : k \in fresh
      /\ \A k \in DOMAIN s.insts \cap DOMAIN r.insts :
           Rank[s.insts[k].state] <= Rank[r.insts[k].state]
  BY <1>1 DEF Forward
<1> HIDE DEF fresh
<1>3. Standby(r) \subseteq Standby(s) \cup fresh
  BY <1>1, <1>2, RankFacts DEF Standby, Targets, WantsRunning
<1>4. Serving(r) \subseteq Serving(s) \cup Standby(s) \cup fresh
  BY <1>1, <1>2, RankFacts DEF Standby, Serving, Live, Targets, WantsRunning
<1>5. Draining(r) \subseteq Draining(s) \cup Serving(s) \cup Standby(s) \cup fresh
  BY <1>1, <1>2, RankFacts DEF Standby, Serving, Draining, Live, Targets, WantsRunning
<1>6. Standby(r) \cap Serving(r) = {} /\ Draining(r) \cap Serving(r) = {}
  BY Zenon DEF Standby, Serving, Draining, Live
<1>7. CASE Serving(r) = {}
  <2>1. Draining(r) = {} /\ Standby(r) = {}
    BY <1>7, Zenon DEF TablesInv, Succeeded, Backed
  <2> QED
    BY <1>2, <1>7, <2>1, Zenon
<1>8. CASE Serving(r) # {}
  <2>1. PICK k : Serving(r) = {k}
    BY <1>8, Zenon DEF TablesInv, OneServing
  <2>2. \A j \in Draining(r) : j < k
    <3>1. k \in Nat /\ Draining(r) \subseteq Nat
      BY <1>1, <2>1, Zenon DEF Serving, Live, Draining
    <3> QED
      BY <2>1, <3>1, Zenon DEF TablesInv, Succeeded
  <2>3. CASE k \in Serving(s)
    <3>1. Serving(s) = {k}
      BY <2>3, Zenon DEF TablesInv, OneServing
    <3>2. k \in Nat /\ k < s.nextId
      BY <1>1, <2>3, Zenon DEF Serving, Live
    <3>3. Draining(r) \subseteq Draining(s)
      <4> SUFFICES ASSUME NEW j \in Draining(r) PROVE j \in Draining(s)
        BY Zenon
      <4>1. j < k /\ j # k /\ j \in Nat
        BY <1>1, <1>6, <2>1, <2>2, Zenon DEF Draining
      <4>2. j \notin Standby(s)
        <5>1. ASSUME j \in Standby(s) PROVE FALSE
          <6>1. k < j
            BY <2>3, <5>1, Zenon DEF Backed
          <6> QED
            BY <3>2, <4>1, <6>1
        <5> QED
          BY <5>1, Zenon
      <4>3. j \notin fresh
        BY <1>1, <3>2, <4>1 DEF fresh
      <4> QED
        BY <1>5, <3>1, <4>1, <4>2, <4>3, Zenon
    <3> QED
      BY <1>2, <1>3, <2>1, <3>1, <3>3, Zenon DEF fresh
  <2>4. CASE k \notin Serving(s)
    <3>1. k \in Standby(s) \cup fresh
      BY <1>4, <2>1, <2>4, Zenon
    <3>2. Draining(r) \subseteq
            {j \in Standby(s) \cup Serving(s) \cup Draining(s) \cup fresh : j < k}
      BY <1>5, <2>2, Zenon
    <3>3. Standby(r) \subseteq (Standby(s) \cup fresh) \ {k}
      BY <1>3, <1>6, <2>1, Zenon
    <3> QED
      BY <1>2, <2>1, <3>1, <3>2, <3>3, Zenon DEF fresh
  <2> QED
    BY <2>3, <2>4, Zenon
<1> QED
  BY Zenon, <1>7, <1>8

\* The scheduler implements Rollout: the initial tables map to its initial
\* state, every commit to one of its steps and everything else to a stutter.
THEOREM Implements == Spec => Refines
<1>1. Init => Promise!Init
  <2> SUFFICES ASSUME Init PROVE Promise!Init
    BY Zenon
  <2>1. db.insts = [k \in {} |-> 0] /\ db.nextId = 1
    BY Zenon DEF Init, InitDb, Tables
  <2> QED
    BY <2>1, Zenon DEF Promise!Init, Standby, Serving, Draining, Live
<1>2. BackedInv /\ [Next]_vars => [Promise!Next]_Promise!vars
  <2> SUFFICES ASSUME BackedInv, [Next]_vars PROVE [Promise!Next]_Promise!vars
    BY Zenon
  <2>1. CASE db' = db
    BY <2>1, Zenon DEF Promise!vars, Standby, Serving, Draining, Live
  <2>2. CASE db' = work
    <3>1. /\ TablesInv(db) /\ TablesInv(work) /\ Forward(db, work)
          /\ Backed(db) /\ Backed(work)
      BY Zenon DEF BackedInv, IInv
    <3>2. Promise!Next
      BY <2>2, <3>1, CommitStep, Zenon
      DEF Promise!Next, Promise!TakeOver, Promise!Keep, Promise!Withdraw, Promise!Issued
    <3> QED
      BY <3>2, Zenon
  <2> QED
    BY <2>1, <2>2, CommitsOnly, Zenon
<1>3. Spec => []BackedInv
  BY InitBacked, NextBacked, PTL DEF Spec
<1> QED
  BY <1>1, <1>2, <1>3, PTL DEF Spec, Refines, Promise!Spec

------------------------------------------------------------------------------
(* How long a transaction takes.                                            *)

\* Retention has nothing to drop.
Normal(s) == retainDeployment(s) = s

\* The instances the first loop of step would change.
Retiring(s) ==
  {k \in DOMAIN s.insts :
     \/ s.insts[k].state \in WantsRunning /\ Retired(s, s.insts[k])
     \/ s.insts[k].state = "TERMINATE" /\ terminalRunnerStatus(s.insts[k])}

\* The instances promote would change.
Replaced(s) ==
  {k \in DOMAIN s.insts :
     \/ k \in Exact(s) /\ s.insts[k].state = "RUN_STANDBY"
     \/ /\ \E e \in Exact(s) : k < e
        /\ s.insts[k].state \in {"RUN_STANDBY", "RUN_SERVING"}}

\* How often the second part of step may still change the tables: it places an
\* instance, which it promotes.
Stage(s) ==
  IF ~Placing(s) THEN 0
  ELSE IF Exact(s) = {} THEN 2
  ELSE IF Replaced(s) # {} THEN 1 ELSE 0

\* The drains a transaction with number sq may end; not those it has started.
OldDrains(s, sq) == {k \in Draining(s) : s.insts[k].seq < sq}

\* The passes that are left, at most.
Left(s, sq) ==
  (IF Retiring(s) = {} THEN 0 ELSE 1) + Stage(s) + Cardinality(OldDrains(s, sq))

\* r is no further from rest than s.
Nearer(s, r, sq) ==
  /\ r.cfg = s.cfg /\ r.node = s.node
  /\ Stage(r) <= Stage(s) /\ OldDrains(r, sq) \subseteq OldDrains(s, sq)

\* Retaining twice is retaining once.
LEMMA RetainTwice ==
  ASSUME NEW s
  PROVE  Normal(retainDeployment(s))
<1> DEFINE kept == DOMAIN s.insts \ Pruned(s)
           pinned == {s.insts[k].version : k \in kept}
           current == IF s.cfg.live THEN {s.cfg.version} ELSE {}
           vs == DOMAIN s.versions \cap (pinned \cup current)
           r == retainDeployment(s)
<1>1. r = Tables(s.cfg, [v \in vs |-> s.versions[v]], [k \in kept |-> s.insts[k]], s.nextId, s.node)
  BY Zenon DEF retainDeployment
<1> HIDE DEF r
<1>2. /\ r.cfg = s.cfg /\ r.nextId = s.nextId /\ r.node = s.node
      /\ r.insts = [k \in kept |-> s.insts[k]] /\ r.versions = [v \in vs |-> s.versions[v]]
  BY <1>1, Zenon DEF Tables
<1>3. DOMAIN r.insts = kept /\ \A k \in kept : r.insts[k] = s.insts[k]
  BY <1>2, Zenon
<1>4. DOMAIN r.versions = vs /\ \A v \in vs : r.versions[v] = s.versions[v]
  BY <1>2
<1>5. Pruned(r) = {}
  <2>1. Finals(r) \subseteq Finals(s) /\ Finals(r) \cap Pruned(s) = {}
    BY <1>3, Zenon DEF Finals
  <2>2. Live(r) \subseteq Live(s)
    BY <1>3, Zenon DEF Live
  <2> QED
    BY <1>2, <2>1, <2>2, Zenon DEF Pruned
<1>6. {r.insts[k].version : k \in DOMAIN r.insts} = pinned
  BY <1>3, Zenon
<1>7. DOMAIN r.insts \ Pruned(r) = kept
  BY <1>3, <1>5, Zenon
<1>8. DOMAIN r.versions \cap ({r.insts[k].version : k \in kept} \cup current) = vs
  BY <1>3, <1>4, <1>6, Zenon
<1>9. [k \in kept |-> r.insts[k]] = r.insts /\ [v \in vs |-> r.versions[v]] = r.versions
  BY <1>2, <1>3, <1>4, Zenon
<1>10. retainDeployment(r) = Tables(r.cfg, [v \in vs |-> r.versions[v]], [k \in kept |-> r.insts[k]], r.nextId, r.node)
  <2>1. current = IF r.cfg.live THEN {r.cfg.version} ELSE {}
    BY <1>2, Zenon
  <2> HIDE DEF kept, vs, current, pinned
  <2> QED
    BY <1>7, <1>8, <2>1, Zenon DEF retainDeployment
<1>11. retainDeployment(r) = r
  BY <1>1, <1>2, <1>9, <1>10, Zenon
<1> QED
  BY <1>11, Zenon DEF Normal, r

\* What retention drops counts for nothing here.
LEMMA RetainNearer ==
  ASSUME NEW p, TablesOK(p), NEW sq
  PROVE  LET r == retainDeployment(p) IN
         /\ Normal(r) /\ Nearer(p, r, sq) /\ Retiring(r) \subseteq Retiring(p)
<1> DEFINE r == retainDeployment(p)
<1>1. /\ r.cfg = p.cfg /\ r.node = p.node /\ DOMAIN r.insts \subseteq DOMAIN p.insts
      /\ \A k \in DOMAIN r.insts : r.insts[k] = p.insts[k]
      /\ \A k \in DOMAIN p.insts \ DOMAIN r.insts : p.insts[k].state = "FINALIZED"
  BY RetainFacts, Zenon
<1>2. Normal(r)
  BY RetainTwice, Zenon
<1> HIDE DEF r
<1>3. Exact(r) = Exact(p)
  BY <1>1, Zenon DEF Exact, Live
<1>4. Replaced(r) \subseteq Replaced(p)
  BY <1>1, <1>3, Zenon DEF Replaced
<1>5. Placing(r) <=> Placing(p)
  BY <1>1, Zenon DEF Placing, DeploymentRunning
<1>6. Stage(r) <= Stage(p)
  BY <1>3, <1>4, <1>5 DEF Stage
<1>7. OldDrains(r, sq) \subseteq OldDrains(p, sq)
  BY <1>1, Zenon DEF OldDrains, Draining
<1>8. Retiring(r) \subseteq Retiring(p)
  BY <1>1, Zenon DEF Retiring, Retired, DeploymentRunning
<1> QED
  BY <1>1, <1>2, <1>6, <1>7, <1>8, Zenon DEF Nearer, r

\* The first loop on one instance: it is left alone, or goes.
LEMMA RetireOneSettles ==
  ASSUME NEW s, NEW i \in Instance, NEW sq \in Nat, NEW t \in Nat
  PROVE  LET r == RetireOne(s, i, sq, t)
             retiring == \/ i.state \in WantsRunning /\ Retired(s, i)
                         \/ i.state = "TERMINATE" /\ terminalRunnerStatus(i)
         IN  /\ ~retiring => r = i
             /\ retiring => r.state \in {"TERMINATE", "FINALIZED"}
             /\ ~(r.state = "TERMINATE" /\ terminalRunnerStatus(r))
<1> DEFINE m == IF Retired(s, i) /\ i.state \in WantsRunning
                THEN set(i, "TERMINATE", sq, t) ELSE i
           r == finalizeStopped(m, sq, t)
<1>1. "TERMINATE" \in Targets /\ "FINALIZED" \in Targets /\ "TERMINATE" \notin WantsRunning
  BY Zenon DEF Targets, WantsRunning
<1>2. LET x == set(i, "TERMINATE", sq, t) IN
      x \in Instance /\ x.state = "TERMINATE" /\ x.status = i.status
  BY <1>1, SetFacts
<1>3. /\ m \in Instance /\ m.status = i.status
      /\ Retired(s, i) /\ i.state \in WantsRunning => m.state = "TERMINATE"
      /\ ~(Retired(s, i) /\ i.state \in WantsRunning) => m = i
  BY <1>2, Zenon
<1> HIDE DEF m
<1>4. LET x == set(m, "FINALIZED", sq, t) IN x.state = "FINALIZED"
  BY <1>1, <1>3, SetFacts
<1>5. /\ m.state = "TERMINATE" /\ terminalRunnerStatus(m) => r.state = "FINALIZED"
      /\ ~(m.state = "TERMINATE" /\ terminalRunnerStatus(m)) => r = m
  BY <1>4, Zenon DEF finalizeStopped
<1> HIDE DEF r
<1>6. RetireOne(s, i, sq, t) = r
  BY Zenon DEF RetireOne, r, m
<1> QED
  BY <1>1, <1>3, <1>5, <1>6, Zenon

\* Instances that are left as they are leave normal tables as they are.
LEMMA SameInsts ==
  ASSUME NEW s, TablesOK(s), Normal(s), NEW f, f = [k \in DOMAIN s.insts |-> s.insts[k]]
  PROVE  retainDeployment(WithInsts(s, f)) = s
<1>1. f = s.insts
  BY Zenon DEF TablesOK
<1>2. WithInsts(s, f) = s
  BY <1>1, Zenon DEF WithInsts, TablesOK
<1> QED
  BY <1>2, Zenon DEF Normal

\* The first loop: nothing retires twice, and without a retirement nothing changes.
LEMMA RetireSettles ==
  ASSUME NEW s, TablesInv(s), Normal(s), NEW sq \in Nat, NEW t \in Nat
  PROVE  LET r == Retire(s, sq, t) IN
         /\ Normal(r) /\ Nearer(s, r, sq) /\ Retiring(r) = {}
         /\ Retiring(s) = {} => r = s
<1> DEFINE f == [k \in DOMAIN s.insts |-> RetireOne(s, s.insts[k], sq, t)]
           p == WithInsts(s, f)
           r == Retire(s, sq, t)
<1>0. TablesOK(s) /\ \A k \in DOMAIN s.insts : s.insts[k] \in Instance
  BY Zenon DEF TablesInv, TablesOK
<1>1. p.insts = f /\ p = Tables(s.cfg, s.versions, p.insts, s.nextId, s.node)
  BY Zenon DEF WithInsts, Tables
<1>2. r = retainDeployment(p)
  BY Zenon DEF Retire
<1> HIDE DEF p, r
<1>3. /\ p.cfg = s.cfg /\ p.node = s.node /\ p.versions = s.versions /\ p.nextId = s.nextId
      /\ DOMAIN p.insts = DOMAIN s.insts
      /\ \A k \in DOMAIN s.insts : p.insts[k] = RetireOne(s, s.insts[k], sq, t)
  <2>1. /\ p.cfg = s.cfg /\ p.node = s.node /\ p.versions = s.versions /\ p.nextId = s.nextId
    BY <1>1, SMTT(20) DEF Tables
  <2> QED
    BY <1>1, <2>1, Zenon
<1>4. \A k \in DOMAIN s.insts :
        /\ p.insts[k] \in Instance /\ p.insts[k].version = s.insts[k].version
        /\ k \notin Retiring(s) => p.insts[k] = s.insts[k]
        /\ k \in Retiring(s) => p.insts[k].state \in {"TERMINATE", "FINALIZED"}
        /\ ~(p.insts[k].state = "TERMINATE" /\ terminalRunnerStatus(p.insts[k]))
  <2> TAKE k \in DOMAIN s.insts
  <2>1. p.insts[k] = RetireOne(s, s.insts[k], sq, t) /\ s.insts[k] \in Instance
    BY <1>0, <1>3, Zenon
  <2> HIDE DEF f
  <2>2. p.insts[k] \in Instance /\ p.insts[k].version = s.insts[k].version
    <3>1. LET x == RetireOne(s, s.insts[k], sq, t) IN
          /\ x \in Instance /\ x.version = s.insts[k].version /\ x.status = s.insts[k].status
          /\ Rank[s.insts[k].state] <= Rank[x.state]
          /\ \/ x.state = s.insts[k].state /\ (s.insts[k].state \in WantsRunning => ~Retired(s, s.insts[k]))
             \/ /\ x.state \in {"TERMINATE", "FINALIZED"}
                /\ s.insts[k].state \in WantsRunning => Retired(s, s.insts[k])
      BY <2>1, RetireOneFacts, Zenon
    <3> QED
      BY <2>1, <3>1, Zenon
  <2>3. k \in Retiring(s) <=> \/ s.insts[k].state \in WantsRunning /\ Retired(s, s.insts[k])
                              \/ s.insts[k].state = "TERMINATE" /\ terminalRunnerStatus(s.insts[k])
    BY Zenon DEF Retiring
  <2> QED
    BY <2>1, <2>2, <2>3, RetireOneSettles, SMTT(20)
<1>5. TablesOK(p)
  <2>1. p.insts = [k \in DOMAIN p.insts |-> p.insts[k]]
    BY <1>1, Zenon
  <2> QED
    BY <1>0, <1>1, <1>3, <1>4, <2>1, Zenon DEF TablesOK
<1>6. Retiring(p) = {}
  <2> SUFFICES ASSUME NEW k \in Retiring(p) PROVE FALSE
    BY Zenon
  <2>1. k \in DOMAIN s.insts /\ p.insts[k].state \in WantsRunning /\ Retired(p, p.insts[k])
    BY <1>3, <1>4, Zenon DEF Retiring
  <2>2. k \notin Retiring(s) /\ p.insts[k] = s.insts[k]
    BY <1>4, <2>1, Zenon DEF WantsRunning
  <2>3. Retired(s, s.insts[k])
    BY <1>3, <2>1, <2>2, Zenon DEF Retired, DeploymentRunning
  <2> QED
    BY <2>1, <2>2, <2>3, Zenon DEF Retiring
<1>7. Placing(p) <=> Placing(s)
  BY <1>3, Zenon DEF Placing, DeploymentRunning
<1>8. ASSUME Placing(s) PROVE Exact(p) = Exact(s)
  <2>1. \A k \in Exact(s) : k \notin Retiring(s)
    BY <1>8, Zenon DEF Exact, Live, Retiring, Retired, Placing, WantsRunning
  <2>2. \A k \in Exact(p) : k \in DOMAIN s.insts /\ p.insts[k] = s.insts[k]
    BY <1>3, <1>4, Zenon DEF Exact, Live, WantsRunning
  <2> QED
    BY <1>3, <1>4, <2>1, <2>2, Zenon DEF Exact, Live
<1>9. ASSUME Placing(s) PROVE Replaced(p) \subseteq Replaced(s)
  <2>1. \A k \in Replaced(p) : k \in DOMAIN s.insts /\ p.insts[k] = s.insts[k]
    BY <1>3, <1>4, Zenon DEF Replaced
  <2> QED
    BY <1>8, <1>9, <2>1, Zenon DEF Replaced
<1>10. Stage(p) <= Stage(s)
  BY <1>7, <1>8, <1>9 DEF Stage
<1>11. OldDrains(p, sq) \subseteq OldDrains(s, sq)
  <2>1. \A k \in Draining(p) : k \in DOMAIN s.insts /\ p.insts[k] = s.insts[k]
    BY <1>3, <1>4, Zenon DEF Draining
  <2> QED
    BY <2>1, Zenon DEF OldDrains, Draining
<1>12. Normal(r) /\ Nearer(p, r, sq) /\ Retiring(r) \subseteq Retiring(p)
  BY <1>2, <1>5, RetainNearer, Zenon
<1>13. Stage(p) \in Nat /\ Stage(s) \in Nat /\ Stage(r) \in Nat
  BY Zenon DEF Stage
<1>14. Nearer(s, r, sq)
  BY <1>3, <1>10, <1>11, <1>12, <1>13 DEF Nearer
<1>15. ASSUME Retiring(s) = {} PROVE r = s
  <2>1. f = [k \in DOMAIN s.insts |-> s.insts[k]]
    BY <1>3, <1>4, <1>15, Zenon
  <2> QED
    BY <1>0, <1>2, <2>1, SameInsts, Zenon DEF p
<1> QED
  BY <1>6, <1>12, <1>14, <1>15, Zenon DEF r

\* The second part of step has nothing to do, now or at any later time.
PlaceIdle(s) ==
  Placing(s) => IF Exact(s) = {} THEN Blocked(s)
                ELSE TakesOver(s, Newest(Exact(s))) => Replaced(s) = {}

\* There is one instance of the current version at most.
LEMMA ExactOne ==
  ASSUME NEW s, TablesInv(s), NEW e \in Exact(s)
  PROVE  Exact(s) = {e} /\ Newest(Exact(s)) = e
<1>1. \A k \in Exact(s) : k = e
  <2> TAKE k \in Exact(s)
  <2>1. /\ e \in DOMAIN s.insts /\ k \in DOMAIN s.insts /\ DOMAIN s.insts \subseteq Nat
        /\ s.insts[e].version = s.insts[k].version /\ s.insts[k].version \in Nat
    BY Zenon DEF Exact, Live, TablesInv, TablesOK, Instance
  <2> QED
    BY <2>1 DEF TablesInv, Ordered
<1>2. Newest(Exact(s)) \in Exact(s)
  BY NewestExact, Zenon
<1> QED
  BY <1>1, <1>2, Zenon

\* set leaves an instance that is there already, and stamps one that is not.
LEMMA SetSettles ==
  ASSUME NEW i \in Instance, NEW target \in Targets, NEW sq \in Nat, NEW t \in Nat
  PROVE  LET r == set(i, target, sq, t) IN
         /\ r \in Instance /\ r.state = target /\ r.version = i.version /\ r.status = i.status
         /\ i.state = target => r = i
         /\ i.state # target => r.seq = sq
<1>1. LET r == set(i, target, sq, t) IN
      r \in Instance /\ r.state = target /\ r.version = i.version /\ r.status = i.status
  BY SetFacts
<1>2. i.state = target => set(i, target, sq, t) = i
  BY Zenon DEF set
<1>3. i.state # target => set(i, target, sq, t).seq = sq
  BY Zenon DEF set, Instance
<1> QED
  BY <1>1, <1>2, <1>3, Zenon

\* Placing an instance: the next change can only be its promotion.
LEMMA NewInstanceSettles ==
  ASSUME NEW s, TablesInv(s), Retiring(s) = {}, Placing(s), Exact(s) = {}, ~Blocked(s),
         NEW sq \in Nat, NEW t \in Nat
  PROVE  LET p == newInstance(s, sq, t) IN
         /\ TablesOK(p) /\ p.cfg = s.cfg /\ p.node = s.node /\ Retiring(p) = {} /\ Exact(p) # {}
         /\ OldDrains(p, sq) \subseteq OldDrains(s, sq)
<1> DEFINE p == newInstance(s, sq, t)
           n == s.nextId
           new == [version |-> s.cfg.version,
                   state |-> IF Serving(s) = {} THEN "RUN_SERVING" ELSE "RUN_STANDBY",
                   seq |-> sq, time |-> t, status |-> "NONE"]
           f == [k \in DOMAIN s.insts \cup {n} |-> IF k = n THEN new ELSE s.insts[k]]
<1>1. NoneRetired(s)
  BY Zenon DEF NoneRetired, Retiring
<1>2. TablesInv(p)
  BY <1>1, NewInstanceInv, Zenon DEF Phase
<1>3. p = Tables(s.cfg, s.versions, f, n + 1, s.node)
  BY Zenon DEF newInstance
<1> HIDE DEF p
<1>4. p.cfg = s.cfg /\ p.node = s.node /\ p.insts = f
  BY <1>3, Zenon DEF Tables
<1>5. n \notin DOMAIN s.insts
  <2>1. n \in Nat
    BY Zenon DEF TablesInv, TablesOK
  <2>2. \A k \in DOMAIN s.insts : k < n
    BY Zenon DEF TablesInv, IdsBelow
  <2> QED
    BY <2>1, <2>2
<1>6. /\ DOMAIN p.insts = DOMAIN s.insts \cup {n} /\ p.insts[n] = new
      /\ \A k \in DOMAIN s.insts : p.insts[k] = s.insts[k]
  BY <1>4, <1>5, Zenon
<1>7. /\ new.version = p.cfg.version /\ new.state \in {"RUN_SERVING", "RUN_STANDBY"}
  BY <1>4, Zenon
<1> HIDE DEF new, f
<1>8. Exact(p) # {}
  <2>1. n \in Exact(p)
    BY <1>6, <1>7, Zenon DEF Exact, Live, WantsRunning
  <2> QED
    BY <2>1, Zenon
<1>9. OldDrains(p, sq) \subseteq OldDrains(s, sq)
  BY <1>6, <1>7, Zenon DEF OldDrains, Draining
<1>10. Retiring(p) = {}
  <2> SUFFICES ASSUME NEW k \in Retiring(p) PROVE FALSE
    BY Zenon
  <2>1. CASE k = n
    <3>1. ~Retired(p, new)
      BY <1>4, <1>7, Zenon DEF Retired, Placing, DeploymentRunning
    <3> QED
      BY <1>6, <1>7, <2>1, <3>1, Zenon DEF Retiring
  <2>2. CASE k \in DOMAIN s.insts
    <3>1. Retired(p, p.insts[k]) <=> Retired(s, s.insts[k])
      BY <1>4, <1>6, <2>2, Zenon DEF Retired, DeploymentRunning
    <3>2. k \in Retiring(s)
      BY <1>6, <2>2, <3>1, Zenon DEF Retiring
    <3> QED
      BY <3>2, Zenon
  <2> QED
    BY <1>6, <2>1, <2>2, Zenon DEF Retiring
<1>11. TablesOK(p)
  BY <1>2, Zenon DEF TablesInv
<1> QED
  BY <1>4, <1>8, <1>9, <1>10, <1>11, Zenon DEF p

\* What promote makes of an instance.
Promoted(s, p, e, k, sq) ==
  /\ k < e /\ s.insts[k].state \in WantsRunning =>
       /\ p.insts[k].state = "RUN_DRAINING" /\ p.insts[k].version = s.insts[k].version
       /\ s.insts[k].state = "RUN_DRAINING" => p.insts[k] = s.insts[k]
       /\ s.insts[k].state # "RUN_DRAINING" => p.insts[k].seq = sq
  /\ k = e => p.insts[k].state = "RUN_SERVING" /\ p.insts[k].version = s.insts[k].version
  /\ k # e /\ ~(k < e /\ s.insts[k].state \in WantsRunning) => p.insts[k] = s.insts[k]

\* What promote makes of the tables.
LEMMA PromoteOne ==
  ASSUME NEW s, TablesInv(s), NEW e \in DOMAIN s.insts, NEW sq \in Nat, NEW t \in Nat
  PROVE  LET p == promote(s, e, sq, t) IN
         /\ p.cfg = s.cfg /\ p.node = s.node /\ DOMAIN p.insts = DOMAIN s.insts
         /\ \A k \in DOMAIN s.insts : Promoted(s, p, e, k, sq)
<1> DEFINE p == promote(s, e, sq, t)
           f == [k \in DOMAIN s.insts |->
                  LET i == s.insts[k] IN
                  IF k < e /\ i.state \in WantsRunning THEN set(i, "RUN_DRAINING", sq, t)
                  ELSE IF k = e THEN set(i, "RUN_SERVING", sq, t)
                  ELSE i]
<1>1. p.cfg = s.cfg /\ p.node = s.node /\ p.insts = f
  BY Zenon DEF promote, WithInsts, Tables
<1> HIDE DEF p
<1>2. DOMAIN p.insts = DOMAIN s.insts
  BY <1>1, Zenon
<1>3. ASSUME NEW k \in DOMAIN s.insts
      PROVE  Promoted(s, p, e, k, sq)
  <2> DEFINE a == set(s.insts[k], "RUN_DRAINING", sq, t)
             b == set(s.insts[k], "RUN_SERVING", sq, t)
  <2>1. p.insts[k] = IF k < e /\ s.insts[k].state \in WantsRunning THEN a
                     ELSE IF k = e THEN b ELSE s.insts[k]
    BY <1>1, Zenon
  <2> HIDE DEF a, b, f
  <2>2. s.insts[k] \in Instance /\ "RUN_DRAINING" \in Targets /\ "RUN_SERVING" \in Targets
    BY Zenon DEF TablesInv, TablesOK, Targets, WantsRunning
  <2>3. LET r == set(s.insts[k], "RUN_DRAINING", sq, t) IN
        /\ r \in Instance /\ r.state = "RUN_DRAINING"
        /\ r.version = s.insts[k].version /\ r.status = s.insts[k].status
        /\ s.insts[k].state = "RUN_DRAINING" => r = s.insts[k]
        /\ s.insts[k].state # "RUN_DRAINING" => r.seq = sq
    BY <2>2, SetSettles
  <2>4. LET r == set(s.insts[k], "RUN_SERVING", sq, t) IN
        /\ r \in Instance /\ r.state = "RUN_SERVING"
        /\ r.version = s.insts[k].version /\ r.status = s.insts[k].status
        /\ s.insts[k].state = "RUN_SERVING" => r = s.insts[k]
        /\ s.insts[k].state # "RUN_SERVING" => r.seq = sq
    BY <2>2, SetSettles
  <2>5. k = e => ~(k < e)
    BY DEF TablesInv, TablesOK
  <2> QED
    BY <2>1, <2>3, <2>4, <2>5, Zenon DEF a, b, Promoted
<1> QED
  BY <1>1, <1>2, <1>3, Zenon DEF p

\* A promotion leaves nothing to promote, and retires nothing.
LEMMA PromoteSettles ==
  ASSUME NEW s, TablesInv(s), Retiring(s) = {}, Placing(s), NEW e \in Exact(s), TakesOver(s, e),
         NEW sq \in Nat, NEW t \in Nat
  PROVE  LET p == promote(s, e, sq, t) IN
         /\ TablesOK(p) /\ p.cfg = s.cfg /\ p.node = s.node
         /\ Retiring(p) = {} /\ Exact(p) # {} /\ Replaced(p) = {}
         /\ OldDrains(p, sq) \subseteq OldDrains(s, sq)
<1> DEFINE p == promote(s, e, sq, t)
<1>0. e \in DOMAIN s.insts /\ s.insts[e].version = s.cfg.version
  BY Zenon DEF Exact, Live
<1>1. TablesOK(p)
  BY PromoteInv, Zenon DEF Phase, TablesInv
<1>a. /\ p.cfg = s.cfg /\ p.node = s.node /\ DOMAIN p.insts = DOMAIN s.insts
      /\ \A k \in DOMAIN s.insts : Promoted(s, p, e, k, sq)
  BY <1>0, PromoteOne, Zenon
<1> HIDE DEF p
<1>2. /\ p.cfg = s.cfg /\ p.node = s.node /\ DOMAIN p.insts = DOMAIN s.insts
      /\ \A k \in DOMAIN s.insts :
           /\ k < e /\ s.insts[k].state \in WantsRunning =>
                /\ p.insts[k].state = "RUN_DRAINING" /\ p.insts[k].version = s.insts[k].version
                /\ s.insts[k].state = "RUN_DRAINING" => p.insts[k] = s.insts[k]
                /\ s.insts[k].state # "RUN_DRAINING" => p.insts[k].seq = sq
           /\ k = e => p.insts[k].state = "RUN_SERVING" /\ p.insts[k].version = s.insts[k].version
           /\ k # e /\ ~(k < e /\ s.insts[k].state \in WantsRunning) => p.insts[k] = s.insts[k]
  BY <1>a, Zenon DEF Promoted
<1>3. \A k \in Exact(s) : k = e
  BY ExactOne, Zenon
<1>4. \A k \in Exact(p) : k = e
  <2> SUFFICES ASSUME NEW k \in Exact(p), k # e PROVE FALSE
    BY Zenon
  <2>1. k \in DOMAIN s.insts /\ p.insts[k].version = s.cfg.version /\ p.insts[k].state \in WantsRunning
    BY <1>2, Zenon DEF Exact, Live
  <2>2. s.insts[k].version = s.cfg.version /\ s.insts[k].state \in WantsRunning
    BY <1>2, <2>1, Zenon
  <2>3. k \in Exact(s)
    BY <2>1, <2>2, Zenon DEF Exact, Live, WantsRunning
  <2> QED
    BY <1>3, <2>3, Zenon
<1>5. e \in Exact(p)
  BY <1>0, <1>2, Zenon DEF Exact, Live, WantsRunning
<1>6. Replaced(p) = {}
  <2> SUFFICES ASSUME NEW k \in Replaced(p) PROVE FALSE
    BY Zenon
  <2>1. k \in DOMAIN s.insts /\ (k = e \/ k < e) /\ p.insts[k].state \in {"RUN_STANDBY", "RUN_SERVING"}
    BY <1>2, <1>4, Zenon DEF Replaced
  <2>2. k # e
    <3>1. ~(e < e)
      BY <1>0 DEF TablesInv, TablesOK
    <3> QED
      BY <1>2, <1>4, <3>1, Zenon DEF Replaced
  <2> QED
    BY <1>2, <2>1, <2>2, Zenon DEF WantsRunning
<1>7. \A k \in DOMAIN s.insts :
        /\ p.insts[k].version = s.insts[k].version
        /\ p.insts[k].state \in WantsRunning => s.insts[k].state \in WantsRunning
        /\ p.insts[k].state = "TERMINATE" => p.insts[k] = s.insts[k]
        /\ p.insts[k].state = "RUN_STANDBY" => p.insts[k] = s.insts[k]
  <2>1. s.insts[e].state \in WantsRunning
    BY Zenon DEF Exact
  <2> QED
    BY <1>2, <2>1, Zenon
<1>8. Retiring(p) = {}
  <2> SUFFICES ASSUME NEW k \in Retiring(p) PROVE k \in Retiring(s)
    BY Zenon
  <2>1. k \in DOMAIN s.insts
    BY <1>2, Zenon DEF Retiring
  <2>2. CASE p.insts[k].state \in WantsRunning /\ Retired(p, p.insts[k])
    <3>1. Retired(s, s.insts[k])
      BY <1>2, <1>7, <2>1, <2>2, Zenon DEF Retired, DeploymentRunning
    <3> QED
      BY <1>7, <2>1, <2>2, <3>1, Zenon DEF Retiring
  <2>3. CASE p.insts[k].state = "TERMINATE" /\ terminalRunnerStatus(p.insts[k])
    BY <1>7, <2>1, <2>3, Zenon DEF Retiring
  <2> QED
    BY <2>2, <2>3, Zenon DEF Retiring
<1>9. OldDrains(p, sq) \subseteq OldDrains(s, sq)
  <2> SUFFICES ASSUME NEW k \in OldDrains(p, sq) PROVE k \in OldDrains(s, sq)
    BY Zenon
  <2>1. k \in DOMAIN s.insts /\ p.insts[k].state = "RUN_DRAINING" /\ p.insts[k].seq < sq
    BY <1>2, Zenon DEF OldDrains, Draining
  <2>2. p.insts[k] = s.insts[k]
    BY <1>2, <2>1
  <2> QED
    BY <2>1, <2>2, Zenon DEF OldDrains, Draining
<1> QED
  BY <1>1, <1>2, <1>5, <1>6, <1>8, <1>9, Zenon DEF p

\* Where there is nothing to replace a promotion changes nothing.
LEMMA PromoteIdle ==
  ASSUME NEW s, TablesInv(s), Normal(s), NEW e \in Exact(s), TakesOver(s, e), Replaced(s) = {},
         NEW sq \in Nat, NEW t \in Nat
  PROVE  retainDeployment(promote(s, e, sq, t)) = s
<1> DEFINE f == [k \in DOMAIN s.insts |->
                  LET i == s.insts[k] IN
                  IF k < e /\ i.state \in WantsRunning THEN set(i, "RUN_DRAINING", sq, t)
                  ELSE IF k = e THEN set(i, "RUN_SERVING", sq, t)
                  ELSE i]
<1>1. promote(s, e, sq, t) = WithInsts(s, f)
  BY Zenon DEF promote
<1>2. s.insts[e].state = "RUN_SERVING"
  BY Zenon DEF TakesOver, Replaced, Exact, Live
<1>3. \A k \in DOMAIN s.insts : k < e /\ s.insts[k].state \in WantsRunning => s.insts[k].state = "RUN_DRAINING"
  BY Zenon DEF Replaced, WantsRunning
<1>4. f = [k \in DOMAIN s.insts |-> s.insts[k]]
  <2>1. ASSUME NEW k \in DOMAIN s.insts PROVE f[k] = s.insts[k]
    BY <1>2, <1>3, Zenon DEF set
  <2> QED
    BY <2>1, Zenon
<1> HIDE DEF f
<1> QED
  BY <1>1, <1>4, SameInsts, Zenon DEF TablesInv

\* The second part of step: whenever it changes the tables a stage is passed.
LEMMA PlaceSettles ==
  ASSUME NEW s, TablesInv(s), Normal(s), Retiring(s) = {}, NEW sq \in Nat, NEW t \in Nat
  PROVE  LET r == Place(s, sq, t) IN
         /\ Normal(r) /\ Nearer(s, r, sq) /\ Retiring(r) = {}
         /\ PlaceIdle(s) => r = s
         /\ ~PlaceIdle(s) => Stage(r) < Stage(s)
<1> DEFINE r == Place(s, sq, t)
<1>0. Stage(s) <= Stage(s)
  BY DEF Stage
<1>1. CASE PlaceIdle(s)
  <2>1. r = s
    <3>1. CASE Placing(s) /\ Exact(s) # {} /\ TakesOver(s, Newest(Exact(s)))
      <4>1. Newest(Exact(s)) \in Exact(s) /\ Replaced(s) = {}
        BY <1>1, <3>1, NewestExact, Zenon DEF PlaceIdle
      <4>2. retainDeployment(promote(s, Newest(Exact(s)), sq, t)) = s
        BY <3>1, <4>1, PromoteIdle, Zenon
      <4> QED
        BY <3>1, <4>2, Zenon DEF Place, Placing
    <3>2. CASE ~Placing(s)
      BY <3>2, Zenon DEF Place, Placing
    <3>3. CASE Placing(s) /\ Exact(s) = {}
      BY <1>1, <3>3, Zenon DEF Place, Placing, PlaceIdle
    <3>4. CASE Placing(s) /\ Exact(s) # {} /\ ~TakesOver(s, Newest(Exact(s)))
      BY <3>4, Zenon DEF Place, Placing
    <3> QED
      BY <3>1, <3>2, <3>3, <3>4, Zenon
  <2> QED
    BY <1>0, <1>1, <2>1, Zenon DEF Nearer
<1>2. CASE ~PlaceIdle(s)
  <2>1. Placing(s)
    BY <1>2, Zenon DEF PlaceIdle
  <2>2. PICK p : /\ r = retainDeployment(p) /\ TablesOK(p)
                 /\ p.cfg = s.cfg /\ p.node = s.node /\ Retiring(p) = {}
                 /\ OldDrains(p, sq) \subseteq OldDrains(s, sq)
                 /\ Exact(p) # {} /\ (Exact(s) # {} => Replaced(s) # {} /\ Replaced(p) = {})
    <3>1. CASE Exact(s) = {}
      <4>1. ~Blocked(s)
        BY <1>2, <3>1, Zenon DEF PlaceIdle
      <4>2. r = retainDeployment(newInstance(s, sq, t))
        BY <2>1, <3>1, <4>1, Zenon DEF Place, Placing
      <4>3. LET p == newInstance(s, sq, t) IN
            /\ TablesOK(p) /\ p.cfg = s.cfg /\ p.node = s.node /\ Retiring(p) = {} /\ Exact(p) # {}
            /\ OldDrains(p, sq) \subseteq OldDrains(s, sq)
        BY <2>1, <3>1, <4>1, NewInstanceSettles, Zenon
      <4> QED
        BY <3>1, <4>2, <4>3, Zenon
    <3>2. CASE Exact(s) # {}
      <4> DEFINE e == Newest(Exact(s))
      <4>1. e \in Exact(s) /\ TakesOver(s, e) /\ Replaced(s) # {}
        BY <1>2, <3>2, NewestExact, Zenon DEF PlaceIdle
      <4>2. r = retainDeployment(promote(s, e, sq, t))
        BY <2>1, <3>2, <4>1, Zenon DEF Place, Placing
      <4> HIDE DEF e
      <4>3. LET p == promote(s, e, sq, t) IN
            /\ TablesOK(p) /\ p.cfg = s.cfg /\ p.node = s.node
            /\ Retiring(p) = {} /\ Exact(p) # {} /\ Replaced(p) = {}
            /\ OldDrains(p, sq) \subseteq OldDrains(s, sq)
        BY <2>1, <4>1, PromoteSettles, Zenon
      <4> QED
        BY <4>1, <4>2, <4>3, Zenon
    <3> QED
      BY <3>1, <3>2, Zenon
  <2> HIDE DEF r
  <2>3. Normal(r) /\ Nearer(p, r, sq) /\ Retiring(r) \subseteq Retiring(p)
    BY <2>2, RetainNearer, Zenon
  <2>4. Placing(p)
    BY <2>1, <2>2, Zenon DEF Placing, DeploymentRunning
  <2>5. Stage(p) < Stage(s) /\ Stage(p) \in Nat /\ Stage(s) \in Nat
    BY <2>1, <2>2, <2>4 DEF Stage
  <2>6. Stage(r) <= Stage(p) /\ Stage(r) \in Nat
    BY <2>3, Zenon DEF Nearer, Stage
  <2>7. Stage(r) < Stage(s) /\ Stage(r) <= Stage(s)
    BY <2>5, <2>6
  <2>8. Nearer(s, r, sq)
    BY <2>2, <2>3, <2>7, Zenon DEF Nearer
  <2> QED
    BY <1>2, <2>2, <2>3, <2>7, <2>8, Zenon DEF r
<1> QED
  BY <1>1, <1>2, Zenon

\* The last loop on one instance: it is left alone, or its drain ends.
LEMMA DrainOneSettles ==
  ASSUME NEW i \in Instance, NEW sq \in Nat, NEW t \in Nat
  PROVE  LET r == finalizeStopped(set(i, "TERMINATE", sq, t), sq, t) IN
         /\ r \in Instance /\ r.version = i.version /\ r.state \in {"TERMINATE", "FINALIZED"}
         /\ ~(r.state = "TERMINATE" /\ terminalRunnerStatus(r))
<1> DEFINE m == set(i, "TERMINATE", sq, t)
           r == finalizeStopped(m, sq, t)
<1>1. "TERMINATE" \in Targets /\ "FINALIZED" \in Targets
  BY Zenon DEF Targets
<1>2. m \in Instance /\ m.state = "TERMINATE" /\ m.version = i.version
  BY <1>1, SetFacts
<1> HIDE DEF m
<1>3. LET x == set(m, "FINALIZED", sq, t) IN
      x \in Instance /\ x.state = "FINALIZED" /\ x.version = m.version
  BY <1>1, <1>2, SetFacts
<1>4. r = IF terminalRunnerStatus(m) THEN set(m, "FINALIZED", sq, t) ELSE m
  BY <1>2, Zenon DEF finalizeStopped
<1> HIDE DEF r
<1> QED
  BY <1>2, <1>3, <1>4, Zenon DEF r, m

\* No drain is of the current version: its successor is of a newer one.
LEMMA DrainsOlder ==
  ASSUME NEW s, TablesInv(s), NEW k \in Draining(s)
  PROVE  s.insts[k].version # s.cfg.version
<1>1. PICK j \in Serving(s) : j > k
  BY Zenon DEF TablesInv, Succeeded
<1>2. /\ j \in DOMAIN s.insts /\ k \in DOMAIN s.insts /\ j \in Nat /\ k \in Nat
      /\ s.insts[j].version \in Nat /\ s.insts[k].version \in Nat /\ s.cfg.version \in Nat
  BY Zenon DEF Serving, Live, Draining, TablesInv, TablesOK, Instance, Deployment
<1> QED
  BY <1>1, <1>2 DEF TablesInv, Ordered, VersionsKnown

\* The last loop of step: whenever it changes the tables a drain is over.
LEMMA DrainSettles ==
  ASSUME NEW s, TablesInv(s), Normal(s), Retiring(s) = {}, NEW sq \in Nat, NEW t \in Nat, NEW inForce
  PROVE  LET r == Drain(s, sq, t, inForce) IN
         /\ Normal(r) /\ Nearer(s, r, sq) /\ Retiring(r) = {}
         /\ r # s => OldDrains(r, sq) # OldDrains(s, sq)
<1> DEFINE f == [k \in DOMAIN s.insts |->
                  LET i == s.insts[k] IN
                  IF DrainOver(i, sq, t, inForce)
                  THEN finalizeStopped(set(i, "TERMINATE", sq, t), sq, t) ELSE i]
           p == WithInsts(s, f)
           r == Drain(s, sq, t, inForce)
           over == {k \in DOMAIN s.insts : DrainOver(s.insts[k], sq, t, inForce)}
<1>0. TablesOK(s) /\ \A k \in DOMAIN s.insts : s.insts[k] \in Instance
  BY Zenon DEF TablesInv, TablesOK
<1>1. p.insts = f /\ p = Tables(s.cfg, s.versions, p.insts, s.nextId, s.node)
  BY Zenon DEF WithInsts, Tables
<1>2. r = retainDeployment(p)
  BY Zenon DEF Drain
<1> HIDE DEF p, r
<1>3. /\ p.cfg = s.cfg /\ p.node = s.node /\ p.versions = s.versions /\ p.nextId = s.nextId
      /\ DOMAIN p.insts = DOMAIN s.insts
  <2>1. p.cfg = s.cfg /\ p.node = s.node /\ p.versions = s.versions /\ p.nextId = s.nextId
    BY <1>1 DEF Tables
  <2> QED
    BY <1>1, <2>1, Zenon
<1>4. \A k \in DOMAIN s.insts :
        /\ p.insts[k] \in Instance /\ p.insts[k].version = s.insts[k].version
        /\ k \notin over => p.insts[k] = s.insts[k]
        /\ k \in over => /\ p.insts[k].state \in {"TERMINATE", "FINALIZED"}
                         /\ ~(p.insts[k].state = "TERMINATE" /\ terminalRunnerStatus(p.insts[k]))
  <2> TAKE k \in DOMAIN s.insts
  <2> DEFINE x == finalizeStopped(set(s.insts[k], "TERMINATE", sq, t), sq, t)
  <2>1. p.insts[k] = IF k \in over THEN x ELSE s.insts[k]
    BY <1>1, Zenon
  <2>2. /\ x \in Instance /\ x.version = s.insts[k].version /\ x.state \in {"TERMINATE", "FINALIZED"}
        /\ ~(x.state = "TERMINATE" /\ terminalRunnerStatus(x))
    <3>1. s.insts[k] \in Instance
      BY <1>0, Zenon
    <3> HIDE DEF f
    <3> QED
      BY <3>1, DrainOneSettles, Zenon
  <2> HIDE DEF x, over
  <2> QED
    BY <1>0, <2>1, <2>2, Zenon
<1>5. over \subseteq OldDrains(s, sq)
  BY Zenon DEF DrainOver, OldDrains, Draining
<1>6. over \subseteq Draining(s)
  BY <1>5, Zenon DEF OldDrains
<1> HIDE DEF over, f
<1>7. TablesOK(p)
  <2>1. p.insts = [k \in DOMAIN p.insts |-> p.insts[k]]
    BY <1>1, Zenon DEF f
  <2> QED
    BY <1>0, <1>1, <1>3, <1>4, <2>1, Zenon DEF TablesOK
<1>8. Retiring(p) = {}
  <2> SUFFICES ASSUME NEW k \in Retiring(p) PROVE k \in Retiring(s)
    BY Zenon
  <2>1. k \in DOMAIN s.insts /\ k \notin over /\ p.insts[k] = s.insts[k]
    BY <1>3, <1>4, Zenon DEF Retiring, WantsRunning
  <2>2. Retired(p, p.insts[k]) <=> Retired(s, s.insts[k])
    BY <1>3, <2>1, Zenon DEF Retired, DeploymentRunning
  <2> QED
    BY <2>1, <2>2, Zenon DEF Retiring
<1>9. Exact(p) = Exact(s)
  <2>1. \A k \in over : s.insts[k].version # s.cfg.version
    BY <1>6, DrainsOlder, Zenon
  <2> QED
    BY <1>3, <1>4, <2>1 DEF Exact, Live
<1>10. Replaced(p) \subseteq Replaced(s)
  BY <1>3, <1>4, <1>9, Zenon DEF Replaced
<1>11. Placing(p) <=> Placing(s)
  BY <1>3, Zenon DEF Placing, DeploymentRunning
<1>12. Stage(p) <= Stage(s)
  BY <1>9, <1>10, <1>11 DEF Stage
<1>13. OldDrains(p, sq) \subseteq OldDrains(s, sq) \ over
  BY <1>3, <1>4, Zenon DEF OldDrains, Draining
<1>14. Normal(r) /\ Nearer(p, r, sq) /\ Retiring(r) \subseteq Retiring(p)
  BY <1>2, <1>7, RetainNearer, Zenon
<1>15. Stage(p) \in Nat /\ Stage(s) \in Nat /\ Stage(r) \in Nat
  BY Zenon DEF Stage
<1>16. Nearer(s, r, sq)
  BY <1>3, <1>12, <1>13, <1>14, <1>15 DEF Nearer
<1>17. ASSUME OldDrains(r, sq) = OldDrains(s, sq) PROVE r = s
  <2>1. over = {}
    BY <1>5, <1>13, <1>14, <1>17, Zenon DEF Nearer
  <2>2. p.insts = [k \in DOMAIN s.insts |-> s.insts[k]]
    <3>1. p.insts = [k \in DOMAIN s.insts |-> p.insts[k]]
      BY <1>1, Zenon DEF f
    <3> QED
      BY <1>4, <2>1, <3>1, Zenon
  <2>3. p = WithInsts(s, p.insts)
    BY <1>1, Zenon DEF WithInsts
  <2> QED
    BY <1>0, <1>2, <2>2, <2>3, SameInsts, Zenon
<1> QED
  BY <1>8, <1>14, <1>16, <1>17, Zenon DEF r

\* Nothing is left to do, now or later, except for drains.
Idle(s) == Retiring(s) = {} /\ PlaceIdle(s)

\* The drains are instances, of which there are finitely many.
LEMMA DrainsFinite ==
  ASSUME NEW s, TablesInv(s), NEW sq
  PROVE  /\ IsFiniteSet(OldDrains(s, sq)) /\ Cardinality(OldDrains(s, sq)) \in Nat
         /\ Cardinality(OldDrains(s, sq)) <= Cardinality(Live(s)) /\ Cardinality(Live(s)) \in Nat
<1>1. Live(s) \in SUBSET Nat /\ s.nextId \in Nat
  BY Zenon DEF Live, TablesInv, TablesOK
<1>2. \A x \in Live(s) : x <= s.nextId
  BY <1>1 DEF Live, TablesInv, IdsBelow
<1>3. IsFiniteSet(Live(s))
  BY <1>1, <1>2, FS_BoundedSetOfNaturals, Zenon
<1>4. OldDrains(s, sq) \in SUBSET Live(s)
  BY Zenon DEF OldDrains, Draining, Live
<1>5. IsFiniteSet(OldDrains(s, sq)) /\ Cardinality(OldDrains(s, sq)) <= Cardinality(Live(s))
  BY <1>3, <1>4, FS_Subset, Zenon
<1> QED
  BY <1>3, <1>5, FS_CardinalityType, Zenon

\* A pass that changes the tables is one of those that were left; one that does
\* not leaves nothing to do.
LEMMA StepSettles ==
  ASSUME NEW s, TablesInv(s), Normal(s), NEW sq \in Nat, NEW t \in Nat, NEW inForce
  PROVE  LET r == step(s, sq, t, inForce) IN
         /\ Normal(r)
         /\ r # s => Left(r, sq) < Left(s, sq)
         /\ r = s => Idle(s)
<1> DEFINE a == Retire(s, sq, t)
           b == Place(a, sq, t)
           c == Drain(b, sq, t, inForce)
<1>1. /\ Normal(a) /\ Nearer(s, a, sq) /\ Retiring(a) = {}
      /\ Retiring(s) = {} => a = s
  BY RetireSettles, Zenon
<1>2. TablesInv(a) /\ NoneRetired(a)
  BY RetireInv, Zenon DEF Phase
<1> HIDE DEF a
<1>3. /\ Normal(b) /\ Nearer(a, b, sq) /\ Retiring(b) = {}
      /\ PlaceIdle(a) => b = a
      /\ ~PlaceIdle(a) => Stage(b) < Stage(a)
  BY <1>1, <1>2, PlaceSettles, Zenon
<1>4. TablesInv(b)
  BY <1>2, PlaceInv, Zenon DEF Phase
<1> HIDE DEF b
<1>5. /\ Normal(c) /\ Nearer(b, c, sq) /\ Retiring(c) = {}
      /\ c # b => OldDrains(c, sq) # OldDrains(b, sq)
  BY <1>3, <1>4, DrainSettles, Zenon
<1>6. TablesInv(c)
  BY <1>4, DrainInv, Zenon DEF Phase
<1> HIDE DEF c
<1>7. step(s, sq, t, inForce) = c
  BY Zenon DEF step, a, b, c
<1>8. /\ Stage(s) \in Nat /\ Stage(a) \in Nat /\ Stage(b) \in Nat /\ Stage(c) \in Nat
  BY Zenon DEF Stage
<1>9. /\ Stage(a) <= Stage(s) /\ Stage(b) <= Stage(a) /\ Stage(c) <= Stage(b)
      /\ OldDrains(a, sq) \subseteq OldDrains(s, sq) /\ OldDrains(b, sq) \subseteq OldDrains(a, sq)
      /\ OldDrains(c, sq) \subseteq OldDrains(b, sq)
  BY <1>1, <1>3, <1>5, Zenon DEF Nearer
<1> DEFINE S == OldDrains(s, sq)
           C == OldDrains(c, sq)
<1>10. /\ IsFiniteSet(S) /\ Cardinality(S) \in Nat /\ IsFiniteSet(C) /\ Cardinality(C) \in Nat
  BY <1>6, DrainsFinite, Zenon
<1>11. C \in SUBSET S
  BY <1>9, Zenon
<1>12. Cardinality(C) <= Cardinality(S) /\ (Cardinality(C) = Cardinality(S) => C = S)
  BY <1>10, <1>11, FS_Subset, Zenon
<1>13. Stage(c) <= Stage(s)
  BY <1>8, <1>9
<1>14. CASE Retiring(s) # {}
  <2>1. c # s
    BY <1>5, <1>14, Zenon
  <2>2. Left(c, sq) < Left(s, sq)
    BY <1>5, <1>8, <1>10, <1>12, <1>13, <1>14, SMTT(20) DEF Left
  <2> QED
    BY <1>5, <1>7, <2>1, <2>2, Zenon
<1>15. CASE Retiring(s) = {}
  <2>1. a = s
    BY <1>1, <1>15, Zenon
  <2>2. CASE ~PlaceIdle(s)
    <3>1. Stage(c) < Stage(s)
      BY <1>3, <1>8, <1>9, <2>1, <2>2
    <3>2. c # s
      BY <1>8, <3>1
    <3>3. Left(c, sq) < Left(s, sq)
      BY <1>5, <1>8, <1>10, <1>12, <1>15, <3>1 DEF Left
    <3> QED
      BY <1>5, <1>7, <3>2, <3>3, Zenon
  <2>3. CASE PlaceIdle(s)
    <3>1. b = s
      BY <1>3, <2>1, <2>3, Zenon
    <3>2. ASSUME c # s PROVE Left(c, sq) < Left(s, sq)
      <4>1. C # S
        BY <1>5, <3>1, <3>2, Zenon
      <4>2. Cardinality(C) < Cardinality(S)
        BY <1>10, <1>12, <4>1
      <4> HIDE DEF C, S
      <4>3. Cardinality(C) < Cardinality(S) => Left(c, sq) < Left(s, sq)
        BY <1>5, <1>8, <1>10, <1>13, <1>15 DEF Left, C, S
      <4> QED
        BY <4>2, <4>3, Zenon
    <3> QED
      BY <1>5, <1>7, <1>15, <2>3, <3>2, Zenon DEF Idle
  <2> QED
    BY <2>2, <2>3, Zenon
<1> QED
  BY <1>14, <1>15, Zenon

\* A status report gives retention nothing to drop.
LEMMA ReportedNormal ==
  ASSUME NEW s, TablesInv(s), Normal(s), NEW n \in DOMAIN s.insts, NEW st \in Statuses
  PROVE  Normal(Reported(s, n, st))
<1> DEFINE f == [j \in DOMAIN s.insts |->
                  IF j = n THEN [s.insts[j] EXCEPT !.status = st] ELSE s.insts[j]]
           p == Reported(s, n, st)
           kept == DOMAIN s.insts \ Pruned(s)
           pinned == {s.insts[k].version : k \in kept}
           current == IF s.cfg.live THEN {s.cfg.version} ELSE {}
           vs == DOMAIN s.versions \cap (pinned \cup current)
<1>1. p = Tables(s.cfg, s.versions, f, s.nextId, s.node)
  BY Zenon DEF Reported, WithInsts
<1> HIDE DEF p
<1>2. p.cfg = s.cfg /\ p.versions = s.versions /\ p.insts = f /\ p.nextId = s.nextId /\ p.node = s.node
  BY <1>1, Zenon DEF Tables
<1>3. s = Tables(s.cfg, [v \in vs |-> s.versions[v]], [k \in kept |-> s.insts[k]], s.nextId, s.node)
  BY Zenon DEF Normal, retainDeployment
<1>4. s.versions = [v \in vs |-> s.versions[v]] /\ s.insts = [k \in kept |-> s.insts[k]]
  BY <1>3 DEF Tables
<1>5. DOMAIN s.versions = vs /\ DOMAIN s.insts = kept
  BY <1>4, Zenon
<1>6. /\ DOMAIN p.insts = DOMAIN s.insts
      /\ \A k \in DOMAIN s.insts : /\ p.insts[k].state = s.insts[k].state
                                   /\ p.insts[k].version = s.insts[k].version
  <2>1. DOMAIN p.insts = DOMAIN s.insts
    BY <1>2, Zenon
  <2>2. ASSUME NEW k \in DOMAIN s.insts
        PROVE  p.insts[k].state = s.insts[k].state /\ p.insts[k].version = s.insts[k].version
    <3>1. s.insts[k] \in Instance
      BY Zenon DEF TablesInv, TablesOK
    <3>2. p.insts[k] = IF k = n THEN [s.insts[k] EXCEPT !.status = st] ELSE s.insts[k]
      BY <1>2, Zenon
    <3> QED
      BY <3>1, <3>2, Zenon DEF Instance
  <2> QED
    BY <2>1, <2>2, Zenon
<1>7. Finals(p) = Finals(s) /\ Live(p) = Live(s)
  BY <1>6, Zenon DEF Finals, Live
<1>8. Pruned(p) = Pruned(s)
  BY <1>2, <1>7, Zenon DEF Pruned
<1>9. DOMAIN p.insts \ Pruned(p) = kept
  BY <1>6, <1>8, Zenon
<1>10. {p.insts[k].version : k \in kept} = pinned
  BY <1>5, <1>6, Zenon
<1>11. p.insts = [k \in kept |-> p.insts[k]]
  <2>1. p.insts = [k \in DOMAIN s.insts |-> p.insts[k]]
    BY <1>2, Zenon
  <2> QED
    BY <1>5, <2>1, Zenon
<1>12. retainDeployment(p) = Tables(p.cfg, [v \in vs |-> p.versions[v]], [k \in kept |-> p.insts[k]], p.nextId, p.node)
  <2>1. current = IF p.cfg.live THEN {p.cfg.version} ELSE {}
    BY <1>2, Zenon
  <2>2. DOMAIN p.versions \cap (pinned \cup current) = vs
    BY <1>2, Zenon
  <2> HIDE DEF kept, vs, current, pinned, f
  <2> QED
    BY <1>9, <1>10, <2>1, <2>2, Zenon DEF retainDeployment
<1>13. retainDeployment(p) = Tables(s.cfg, s.versions, p.insts, s.nextId, s.node)
  <2> HIDE DEF kept, vs, f
  <2>1. [v \in vs |-> p.versions[v]] = s.versions
    BY <1>2, <1>4, Zenon
  <2> QED
    BY <1>2, <1>11, <1>12, <2>1, Zenon
<1>14. retainDeployment(p) = p
  BY <1>1, <1>2, <1>13, Zenon
<1> QED
  BY <1>14, Zenon DEF Normal, p

\* The committed tables are at rest, and an open transaction has enough passes
\* left to come to rest.
SettleInv ==
  /\ IInv /\ Normal(db) /\ Normal(work) /\ Idle(db)
  /\ tx.open => tx.pass + Left(work, seq + 1) <= tx.limit
  /\ ~tx.open => tx.pass <= tx.limit

\* A transaction starts with enough passes.
LEMMA LeftBound ==
  ASSUME NEW s, TablesInv(s), NEW sq
  PROVE  Left(s, sq) \in Nat /\ Left(s, sq) <= 3 * Cardinality(Live(s)) + 8
<1> DEFINE n == Cardinality(OldDrains(s, sq))
           l == Cardinality(Live(s))
<1>1. n \in Nat /\ l \in Nat /\ n <= l
  BY DrainsFinite, Zenon
<1>2. Stage(s) \in {0, 1, 2}
  BY Zenon DEF Stage
<1>3. Left(s, sq) = (IF Retiring(s) = {} THEN 0 ELSE 1) + Stage(s) + n
  BY Zenon DEF Left
<1> HIDE DEF n, l
<1>4. Left(s, sq) \in Nat /\ Left(s, sq) <= 3 * l + 8
  BY <1>1, <1>2, <1>3
<1> QED
  BY <1>4, Zenon DEF l

\* The empty tables are at rest.
LEMMA InitSettle == Init => SettleInv
<1> SUFFICES ASSUME Init PROVE SettleInv
  BY Zenon
<1> DEFINE s == InitDb
<1>1. /\ s.cfg = [live |-> FALSE, version |-> 0, running |-> FALSE, strategy |-> "RECREATE"]
      /\ s.versions = [v \in {} |-> "RECREATE"] /\ s.insts = [k \in {} |-> 0]
  BY Zenon DEF InitDb, Tables
<1>2. s = Tables(s.cfg, s.versions, s.insts, s.nextId, s.node)
  BY <1>1, Zenon DEF InitDb, Tables
<1> HIDE DEF s
<1>3. DOMAIN s.insts = {} /\ DOMAIN s.versions = {}
  BY <1>1, Zenon
<1>4. Normal(s)
  <2> DEFINE kept == DOMAIN s.insts \ Pruned(s)
             pinned == {s.insts[k].version : k \in kept}
             current == IF s.cfg.live THEN {s.cfg.version} ELSE {}
             vs == DOMAIN s.versions \cap (pinned \cup current)
  <2>1. kept = {} /\ vs = {}
    BY <1>3, Zenon
  <2>2. retainDeployment(s) = Tables(s.cfg, [v \in vs |-> s.versions[v]], [k \in kept |-> s.insts[k]], s.nextId, s.node)
    BY Zenon DEF retainDeployment
  <2> HIDE DEF kept, vs
  <2>3. [v \in vs |-> s.versions[v]] = s.versions /\ [k \in kept |-> s.insts[k]] = s.insts
    BY <1>1, <2>1, Zenon
  <2> QED
    BY <1>2, <2>2, <2>3, Zenon DEF Normal
<1>5. Idle(s)
  BY <1>1, <1>3 DEF Idle, Retiring, PlaceIdle, Placing, DeploymentRunning
<1>6. db = s /\ work = s /\ tx = Closed
  BY Zenon DEF Init, s
<1>7. tx.open = FALSE /\ tx.pass = 0 /\ tx.limit = 0
  BY <1>6, Zenon DEF Closed
<1> QED
  BY <1>4, <1>5, <1>6, <1>7, InitIInv DEF SettleInv

\* Every step keeps the committed tables at rest and the passes within the limit.
LEMMA NextSettle == SettleInv /\ [Next]_vars => SettleInv'
<1> SUFFICES ASSUME SettleInv, [Next]_vars PROVE SettleInv'
  BY Zenon
<1>0. /\ IInv /\ Normal(db) /\ Normal(work) /\ Idle(db) /\ TablesInv(db) /\ TablesInv(work)
      /\ seq \in Nat /\ tx.now \in Nat /\ tx.pass \in Nat /\ tx.limit \in Nat
  BY Zenon DEF SettleInv, IInv, TypeOK
<1>i. IInv'
  BY <1>0, NextIInv, Zenon
<1>a. TablesInv(work)'
  BY <1>i, Zenon DEF IInv
<1>b. ASSUME NEW s, Normal(s), work' = s, UNCHANGED <<db, seq>>,
             tx'.open = TRUE, tx'.pass = 0, tx'.limit = 3 * Cardinality(Live(s)) + 8
      PROVE  SettleInv'
  <2>1. TablesInv(s)
    BY <1>a, <1>b, Zenon
  <2>2. Left(s, seq + 1) \in Nat /\ Left(s, seq + 1) <= 3 * Cardinality(Live(s)) + 8
    BY <2>1, LeftBound, Zenon
  <2>3. /\ db' = db /\ seq' = seq
    BY <1>b, Zenon
  <2>4. /\ Normal(db)' /\ Normal(work)' /\ Idle(db)'
    BY <1>0, <1>b, <2>3, Zenon
  <2>5. (tx.pass + Left(work, seq + 1) <= tx.limit)'
    BY <1>b, <2>2, <2>3
  <2> QED
    BY <1>b, <1>i, <2>4, <2>5, Zenon DEF SettleInv
<1>c. ASSUME NEW s, NEW m, Open(s, m), Normal(s) PROVE SettleInv'
  <2>1. work' = s /\ UNCHANGED <<db, seq>> /\ tx'.open = TRUE /\ tx'.pass = 0
        /\ tx'.limit = 3 * Cardinality(Live(s)) + 8
    BY <1>c, Zenon DEF Open
  <2> QED
    BY <1>b, <1>c, <2>1, Zenon
<1>d. ASSUME UNCHANGED <<db, work, seq, tx>> PROVE SettleInv'
  BY <1>d, <1>i, Zenon DEF SettleInv
<1>1. CASE Create \/ Update
  <2>1. PICK running \in BOOLEAN, strategy \in Strategies :
          Open(Document(db, running, strategy), TRUE)
    BY <1>1, Zenon DEF Create, Update
  <2>2. Normal(Document(db, running, strategy))
    BY RetainTwice, Zenon DEF Document
  <2> QED
    BY <1>c, <2>1, <2>2, Zenon
<1>2. CASE Delete
  <2>1. Normal(Deleted(db))
    BY RetainTwice, Zenon DEF Deleted
  <2> QED
    BY <1>2, <1>c, <2>1, Zenon DEF Delete
<1>3. CASE WriteReplicatedStatus
  <2>1. PICK k \in DOMAIN db.insts, st \in Statuses : Open(Reported(db, k, st), TRUE)
    BY <1>3, Zenon DEF WriteReplicatedStatus
  <2>2. Normal(Reported(db, k, st))
    BY <1>0, ReportedNormal, Zenon
  <2> QED
    BY <1>c, <2>1, <2>2, Zenon
<1>4. CASE EvictNode
  <2>1. Normal(Evicted(db, seq + 1, now))
    BY RetainTwice, Zenon DEF Evicted
  <2> QED
    BY <1>4, <1>c, <2>1, Zenon DEF EvictNode
<1>5. CASE Sweep
  BY <1>0, <1>5, <1>c, Zenon DEF Sweep
<1>6. CASE Start
  <2>1. work' = db /\ UNCHANGED <<db, seq>> /\ tx'.open = TRUE /\ tx'.pass = 0
        /\ tx'.limit = 3 * Cardinality(Live(db)) + 8
    BY <1>6, Zenon DEF Start
  <2> QED
    BY <1>0, <1>b, <2>1, Zenon
<1>7. CASE Crash
  <2>1. work' = db /\ db' = db /\ seq' = seq /\ tx' = Closed
    BY <1>7, Zenon DEF Crash
  <2>2. tx'.open = FALSE /\ tx'.pass = 0 /\ tx'.limit = 0
    BY <2>1, Zenon DEF Closed
  <2> QED
    BY <1>0, <1>i, <2>1, <2>2 DEF SettleInv
<1>8. CASE Tick
  BY <1>8, <1>d, Zenon DEF Tick
<1>9. CASE Pass
  <2>1. PICK inForce : ~Settles(inForce) /\ work' = step(work, seq + 1, tx.now, inForce)
    BY <1>9, Zenon DEF Pass
  <2>2. /\ db' = db /\ seq' = seq /\ tx.open /\ tx'.open = TRUE
        /\ tx'.pass = tx.pass + 1 /\ tx'.limit = tx.limit
    BY <1>9, Zenon DEF Pass
  <2>3. work' # work
    BY <2>1, Zenon DEF Settles
  <2>4. seq + 1 \in Nat
    BY <1>0
  <2>5. Normal(work') /\ Left(work', seq + 1) < Left(work, seq + 1)
    BY <1>0, <2>1, <2>3, <2>4, StepSettles, Zenon
  <2>6. Left(work, seq + 1) \in Nat /\ Left(work', seq + 1) \in Nat
    BY <1>0, <1>a, LeftBound, Zenon
  <2>7. tx.pass + Left(work, seq + 1) <= tx.limit
    BY <2>2, Zenon DEF SettleInv
  <2>8. tx.pass + 1 + Left(work', seq + 1) <= tx.limit
    BY <1>0, <2>5, <2>6, <2>7
  <2>9. (tx.pass + Left(work, seq + 1) <= tx.limit)'
    BY <2>2, <2>8, Zenon
  <2> QED
    BY <1>0, <1>i, <2>2, <2>5, <2>9, Zenon DEF SettleInv
<1>10. CASE Commit
  <2>1. PICK inForce : step(work, seq + 1, tx.now, inForce) = work
    BY <1>10, Zenon DEF Commit, Settles
  <2>2. db' = work /\ work' = work /\ tx' = Closed
    BY <1>10, Zenon DEF Commit
  <2>3. tx'.open = FALSE /\ tx'.pass = 0 /\ tx'.limit = 0
    BY <2>2, Zenon DEF Closed
  <2>4. seq + 1 \in Nat
    BY <1>0
  <2>5. Idle(work)
    BY <1>0, <2>1, <2>4, StepSettles, Zenon
  <2> QED
    BY <1>0, <1>i, <2>2, <2>3, <2>5 DEF SettleInv
<1>11. CASE UNCHANGED vars
  BY <1>11, <1>d, Zenon DEF vars
<1> QED
  BY <1>1, <1>2, <1>3, <1>4, <1>5, <1>6, <1>7, <1>8, <1>9, <1>10, <1>11, Zenon DEF Next

\* Every transaction comes to rest within the passes reconcile allows, so no writer
\* gets "scheduler did not stabilize deployment" back.
THEOREM AlwaysStabilizes == Spec => []Stabilizes
<1>1. SettleInv => Stabilizes
  <2> SUFFICES ASSUME SettleInv PROVE tx.pass <= tx.limit
    BY Zenon DEF Stabilizes
  <2>1. TablesInv(work) /\ tx.pass \in Nat /\ tx.limit \in Nat /\ tx.open \in BOOLEAN
    BY Zenon DEF SettleInv, IInv, TypeOK
  <2>2. Left(work, seq + 1) \in Nat
    BY <2>1, LeftBound, Zenon
  <2> QED
    BY <2>1, <2>2 DEF SettleInv
<1> QED
  BY <1>1, InitSettle, NextSettle, PTL DEF Spec

\* Between commits no rule of the scheduler but the drain's has anything to do:
\* reconcile ends a transaction only with the pass that changes nothing.
THEOREM AlwaysSettled == Spec => []Settled
<1>1. SettleInv => Settled
  <2> SUFFICES ASSUME SettleInv
               PROVE  Retire(db, seq + 1, now) = db /\ Place(db, seq + 1, now) = db
    BY Zenon DEF Settled
  <2>1. /\ TablesInv(db) /\ Normal(db) /\ Retiring(db) = {} /\ PlaceIdle(db)
        /\ seq \in Nat /\ now \in Nat
    BY Zenon DEF SettleInv, IInv, TypeOK, Idle
  <2>2. seq + 1 \in Nat
    BY <2>1
  <2>3. Retire(db, seq + 1, now) = db
    BY <2>1, <2>2, RetireSettles, Zenon
  <2>4. Place(db, seq + 1, now) = db
    BY <2>1, <2>2, PlaceSettles, Zenon
  <2> QED
    BY <2>3, <2>4, Zenon
<1> QED
  BY <1>1, InitSettle, NextSettle, PTL DEF Spec

=============================================================================
