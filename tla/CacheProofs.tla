---------------------------- MODULE CacheProofs ----------------------------
(***************************************************************************)
(* The publisher's cache, for every cluster and every run of commits: what *)
(* applyLocked has folded is what seedLocked would load from the tables.   *)
(*                                                                         *)
(* The invariant (Tables) says that versions are numbered without gaps,    *)
(* that what is current or placed is a version of the document table, and  *)
(* that a cached version counts its instances.  Every action is a commit   *)
(* of one of four kinds, and every commit keeps the invariant.             *)
(***************************************************************************)
EXTENDS Rendering, FiniteSetTheorems, TLAPS

------------------------------------------------------------------------------
(* The inductive invariant.                                                 *)

\* The provers do not know that "netproxy" is a string.
Name == STRING \cup {"netproxy"}
Version ==
  [space : Nat, node : Nodes, name : Name, virtual : BOOLEAN, listen : SUBSET Addresses,
   strategy : {"ROLLOVER", "RECREATE", "STOPPED"}, version : Nat]
LiveState == WantsRunning \cup {"TERMINATE"}
Instance == [dep : Nat, version : Nat, node : Nodes, space : Nat, state : LiveState]
Policy == [source : Peer, destination : Peer]

\* The versions of deployment d in a table of documents.
VersionsOf(t, d) == {key \in DOMAIN t : key[1] = d}

\* A table of documents: versions count up from 1 (Service.Create, Update).
Numbered(t, key) ==
  /\ key \in (Nat \ {0}) \X Nat /\ t[key] \in Version /\ t[key].version = key[2]
  /\ key[2] <= Cardinality(VersionsOf(t, key[1]))
DocsOK(t) == IsFiniteSet(DOMAIN t) /\ \A key \in DOMAIN t : Numbered(t, key)

\* r is in the table as a version of d.
Written(t, d, r) == <<d, r.version>> \in DOMAIN t /\ t[<<d, r.version>>] = r

\* The cached tables: what is current or placed is a version of the document table.
InstanceOK(t, c, x) ==
  /\ x \in Instance /\ x.node \in DOMAIN c.nodes
  /\ Key(x) \in DOMAIN t /\ x.space = t[Key(x)].space
IsTable(f) == f = [x \in DOMAIN f |-> f[x]]
RowsOK(t, c, ids) ==
  /\ IsTable(c) /\ IsTable(c.nodes) /\ IsTable(c.current) /\ IsTable(c.instances) /\ IsTable(c.policies)
  /\ DOMAIN c = {"nodes", "current", "versions", "instances", "policies"}
  /\ DOMAIN c.nodes \subseteq Nodes /\ \A n \in DOMAIN c.nodes : c.nodes[n] \in NodeRow
  /\ \A k \in DOMAIN c.policies : c.policies[k] \in Policy
  /\ \A d \in DOMAIN c.current : Written(t, d, c.current[d])
  /\ ids \in Nat
  /\ \A i \in DOMAIN c.instances : i \in 1 .. ids /\ InstanceOK(t, c, c.instances[i])

\* seedVersions over the table t: what is current or pinned, with the number of pins.
CurrentKeys(c) == {<<d, c.current[d].version>> : d \in DOMAIN c.current}
PinnedKeys(c) == {Key(c.instances[i]) : i \in DOMAIN c.instances}
Pinning(c, key) == {i \in DOMAIN c.instances : Key(c.instances[i]) = key}
Entry(t, c, key) == [doc |-> t[key], pins |-> Cardinality(Pinning(c, key))]
Seed(t, c) == [key \in CurrentKeys(c) \cup PinnedKeys(c) |-> Entry(t, c, key)]

------------------------------------------------------------------------------
(* Finite sets of numbers.                                                  *)

\* Min finds the least of a set of numbers (Service).
LEMMA MinOf ==
  ASSUME NEW S \in SUBSET Nat, S # {}
  PROVE  Min(S) \in S /\ \A y \in S : Min(S) <= y
<1>1. PICK x \in S : \A y \in S : ~ (<<y, x>> \in OpToRel(<, Nat))
  BY WFMin, NatLessThanWellFounded, Zenon
<1>2. \A y \in S : ~ (y < x)
  BY <1>1, Zenon DEF OpToRel
<1>3. \E z \in S : \A y \in S : z =< y
  BY <1>2
<1> QED
  BY <1>3, Zenon DEF Min

\* Max finds the greatest of a bounded one (nextInstanceID).
LEMMA MaxOf ==
  ASSUME NEW S \in SUBSET Nat, S # {}, NEW b \in Nat, \A x \in S : x <= b
  PROVE  Max(S) \in S /\ \A y \in S : y <= Max(S)
<1> DEFINE T == {b - x : x \in S}
<1>1. T \in SUBSET Nat /\ T # {}
  <2>1. \A x \in S : b - x \in Nat
    OBVIOUS
  <2> QED
    BY <2>1, Zenon
<1>2. Min(T) \in T /\ \A y \in T : Min(T) <= y
  BY <1>1, MinOf, Zenon
<1>3. PICK x \in S : Min(T) = b - x
  BY <1>2, Zenon
<1>4. \A y \in S : b - x <= b - y
  BY <1>2, <1>3, Zenon
<1>5. \A y \in S : x >= y
  BY <1>4
<1> QED
  BY <1>5, Zenon DEF Max

\* Pins: instances that are added and instances that go.
LEMMA PinCount ==
  ASSUME NEW A, NEW C, NEW F, IsFiniteSet(A), IsFiniteSet(C), F \subseteq A, A \cap C = {}
  PROVE  /\ Cardinality((A \ F) \cup C) = Cardinality(A) + Cardinality(C) - Cardinality(F)
         /\ IsFiniteSet((A \ F) \cup C)
         /\ Cardinality(A) \in Nat /\ Cardinality(C) \in Nat /\ Cardinality(F) \in Nat
<1>1. IsFiniteSet(F) /\ A \cap F = F /\ (A \ F) \cap C = {}
  BY FS_Subset, Zenon
<1>2. IsFiniteSet(A \ F) /\ Cardinality(A \ F) = Cardinality(A) - Cardinality(F)
  BY <1>1, FS_Difference, SMTT(20)
<1>3. /\ IsFiniteSet((A \ F) \cup C)
      /\ Cardinality((A \ F) \cup C) = Cardinality(A \ F) + Cardinality(C) - Cardinality((A \ F) \cap C)
  BY <1>2, FS_Union, Zenon
<1>4. Cardinality((A \ F) \cap C) = 0
  BY <1>1, FS_EmptySet, Zenon
<1>5. /\ Cardinality(A) \in Nat /\ Cardinality(C) \in Nat /\ Cardinality(F) \in Nat
      /\ Cardinality(A \ F) \in Nat
  BY <1>1, <1>2, FS_CardinalityType, Zenon
<1> QED
  BY <1>2, <1>3, <1>4, <1>5

------------------------------------------------------------------------------
(* The fold.                                                                *)

\* The table of documents with the rows D written.
NewKeys(D) == {<<d, D[d].version>> : d \in {d \in DOMAIN D : D[d] # Gone}}
Table(t, D) == Over([key \in NewKeys(D) |-> D[key[1]]], t)

\* The document rows of a commit: deletions and at most one new version.
DocRows(t, D) ==
  /\ \A d \in DOMAIN D :
       /\ d \in Nat \ {0}
       /\ D[d] # Gone => D[d] \in Version /\ D[d].version = 1 + Cardinality(VersionsOf(t, d))
  /\ \A d, e \in DOMAIN D : D[d] # Gone /\ D[e] # Gone => d = e

\* A deployment has finitely many versions.
LEMMA VersionsFinite ==
  ASSUME NEW t, DocsOK(t), NEW d
  PROVE  IsFiniteSet(VersionsOf(t, d)) /\ Cardinality(VersionsOf(t, d)) \in Nat
<1>1. IsFiniteSet(DOMAIN t)
  BY Zenon DEF DocsOK
<1>2. VersionsOf(t, d) \in SUBSET DOMAIN t
  BY Zenon DEF VersionsOf
<1>3. IsFiniteSet(VersionsOf(t, d))
  BY <1>1, <1>2, FS_Subset, Zenon
<1> QED
  BY <1>3, FS_CardinalityType, Zenon

\* A new version has a number of its own.
LEMMA FreshVersion ==
  ASSUME NEW t, NEW D, DocsOK(t), DocRows(t, D), NEW d \in DOMAIN D, D[d] # Gone
  PROVE  <<d, D[d].version>> \notin DOMAIN t
<1>1. SUFFICES ASSUME <<d, D[d].version>> \in DOMAIN t PROVE FALSE
  BY Zenon
<1>2. Numbered(t, <<d, D[d].version>>)
  BY <1>1, Zenon DEF DocsOK
<1>3. D[d].version <= Cardinality(VersionsOf(t, d))
  BY <1>2, Zenon DEF Numbered
<1>4. D[d].version = 1 + Cardinality(VersionsOf(t, d))
  BY Zenon DEF DocRows
<1> QED
  BY <1>3, <1>4, VersionsFinite

\* The table keeps its versions and gains the new one.
LEMMA TableFacts ==
  ASSUME NEW t, NEW D, DocsOK(t), DocRows(t, D)
  PROVE  /\ DOMAIN Table(t, D) = DOMAIN t \cup NewKeys(D)
         /\ \A key \in DOMAIN t : Table(t, D)[key] = t[key]
         /\ \A d \in DOMAIN D : D[d] # Gone => Written(Table(t, D), d, D[d])
<1> DEFINE keys == NewKeys(D)
           added == [key \in keys |-> D[key[1]]]
<1>1. Table(t, D) = Over(added, t) /\ DOMAIN added = keys
  BY Zenon DEF Table
<1>2. keys \cap DOMAIN t = {}
  BY FreshVersion, Zenon DEF NewKeys
<1>3. \A d \in DOMAIN D : D[d] # Gone => <<d, D[d].version>> \in keys /\ added[<<d, D[d].version>>] = D[d]
  BY Zenon DEF NewKeys
<1> HIDE DEF added, keys
<1>4. /\ DOMAIN Over(added, t) = keys \cup DOMAIN t
      /\ \A key \in keys : Over(added, t)[key] = added[key]
      /\ \A key \in DOMAIN t \ keys : Over(added, t)[key] = t[key]
  BY <1>1, Zenon DEF Over
<1>5. DOMAIN Table(t, D) = DOMAIN t \cup keys
  BY <1>1, <1>4, Zenon
<1>6. \A key \in DOMAIN t : Table(t, D)[key] = t[key]
  BY <1>1, <1>2, <1>4, Zenon
<1>7. \A d \in DOMAIN D : D[d] # Gone => Written(Table(t, D), d, D[d])
  BY <1>1, <1>3, <1>4, Zenon DEF Written
<1> QED
  BY <1>5, <1>6, <1>7, Zenon DEF keys

\* Versions still count up from 1.
LEMMA TableOK ==
  ASSUME NEW t, NEW D, DocsOK(t), DocRows(t, D)
  PROVE  DocsOK(Table(t, D))
<1> DEFINE T == Table(t, D)
<1>1. CASE \A d \in DOMAIN D : D[d] = Gone
  <2>1. NewKeys(D) = {}
    BY <1>1, Zenon DEF NewKeys
  <2>4. DOMAIN T = DOMAIN t /\ \A key \in DOMAIN t : T[key] = t[key]
    BY <2>1, TableFacts, Zenon
  <2>2. \A d : VersionsOf(T, d) = VersionsOf(t, d)
    BY <2>4, Zenon DEF VersionsOf
  <2> HIDE DEF T
  <2>3. DocsOK(T)
    BY <2>2, <2>4, Zenon DEF DocsOK, Numbered
  <2> QED
    BY <2>3, Zenon DEF T
<1>2. ASSUME NEW d \in DOMAIN D, D[d] # Gone
      PROVE  DocsOK(T)
  <2> DEFINE new == <<d, D[d].version>>
  <2>1. NewKeys(D) = {new}
    BY <1>2, Zenon DEF DocRows, NewKeys
  <2>12. DOMAIN T = DOMAIN t \cup {new} /\ \A key \in DOMAIN t : T[key] = t[key]
    BY <2>1, TableFacts, Zenon
  <2>11. Written(T, d, D[d])
    BY <1>2, TableFacts, Zenon
  <2>2. /\ DOMAIN T = DOMAIN t \cup {new} /\ \A key \in DOMAIN t : T[key] = t[key]
        /\ T[new] = D[d]
    BY <2>11, <2>12, Zenon DEF Written
  <2>3. new \notin DOMAIN t
    BY <1>2, FreshVersion, Zenon
  <2>4. IsFiniteSet(DOMAIN T)
    BY <2>2, FS_AddElement, Zenon DEF DocsOK
  <2>5. IsFiniteSet(VersionsOf(t, d)) /\ Cardinality(VersionsOf(t, d)) \in Nat
    BY VersionsFinite, Zenon
  <2>6. VersionsOf(T, d) = VersionsOf(t, d) \cup {new} /\ new \notin VersionsOf(t, d)
    BY <2>2, <2>3 DEF VersionsOf
  <2>7. Cardinality(VersionsOf(T, d)) = Cardinality(VersionsOf(t, d)) + 1
    BY <2>5, <2>6, FS_AddElement, Zenon
  <2>8. \A e : e # d => VersionsOf(T, e) = VersionsOf(t, e)
    BY <2>2 DEF VersionsOf
  <2>9. /\ d \in Nat \ {0} /\ D[d] \in Version /\ D[d].version = 1 + Cardinality(VersionsOf(t, d))
    BY <1>2, Zenon DEF DocRows
  <2> HIDE DEF T
  <2>10. ASSUME NEW key \in DOMAIN T
         PROVE  Numbered(T, key)
    <3>1. CASE key = new
      <4>1. key[1] = d /\ key[2] = D[d].version /\ T[key] = D[d] /\ key \in (Nat \ {0}) \X Nat
        BY <2>2, <2>5, <2>9, <3>1
      <4>2. key[2] <= Cardinality(VersionsOf(T, d))
        BY <2>5, <2>7, <2>9, <4>1
      <4> QED
        BY <2>9, <4>1, <4>2, Zenon DEF Numbered
    <3>2. CASE key \in DOMAIN t
      <4>1. Numbered(t, key) /\ T[key] = t[key]
        BY <2>2, <3>2, Zenon DEF DocsOK
      <4>2. CASE key[1] = d
        <5>1. key[2] <= Cardinality(VersionsOf(t, d)) /\ key[2] \in Nat
          BY <4>1, <4>2, Zenon DEF Numbered
        <5>2. key[2] <= Cardinality(VersionsOf(T, d))
          BY <2>5, <2>7, <5>1
        <5> QED
          BY <4>1, <4>2, <5>2, Zenon DEF Numbered
      <4> QED
        BY <2>8, <4>1, <4>2, Zenon DEF Numbered
    <3> QED
      BY <2>2, <3>1, <3>2, Zenon
  <2> QED
    BY <2>4, <2>10, Zenon DEF DocsOK
<1> QED
  BY <1>1, <1>2, Zenon

\* A fold holds the rows written that are not deletions, and the others.
LEMMA FoldFacts ==
  ASSUME NEW old, NEW new
  PROVE  /\ \A x : x \in DOMAIN Fold(old, new)
               <=> IF x \in DOMAIN new THEN new[x] # Gone ELSE x \in DOMAIN old
         /\ \A x \in DOMAIN Fold(old, new) :
              Fold(old, new)[x] = IF x \in DOMAIN new THEN new[x] ELSE old[x]
<1> DEFINE deleted == {x \in DOMAIN new : new[x] = Gone}
           f == Without(new, deleted)
           g == Without(old, deleted)
<1>1. Fold(old, new) = Over(f, g)
  BY Zenon DEF Fold
<1>2. /\ DOMAIN f = DOMAIN new \ deleted /\ \A x \in DOMAIN new \ deleted : f[x] = new[x]
      /\ DOMAIN g = DOMAIN old \ deleted /\ \A x \in DOMAIN old \ deleted : g[x] = old[x]
  BY Zenon DEF Without, Restrict
<1> HIDE DEF f, g
<1>3. /\ DOMAIN Over(f, g) = DOMAIN f \cup DOMAIN g
      /\ \A x \in DOMAIN f \cup DOMAIN g : Over(f, g)[x] = IF x \in DOMAIN f THEN f[x] ELSE g[x]
  BY Zenon DEF Over
<1> QED
  BY <1>1, <1>2, <1>3, Zenon

\* What a commit makes of a table is a table, and without rows it is the same.
LEMMA TablesMade ==
  ASSUME NEW f, NEW g
  PROVE  IsTable(Over(f, g)) /\ IsTable(Fold(f, g)) /\ (IsTable(f) => Fold(f, Nothing) = f)
<1>1. \A x, y : IsTable(Over(x, y))
  BY Zenon DEF IsTable, Over
<1>2. \A x, y : IsTable(Fold(x, y))
  BY <1>1, Zenon DEF Fold
<1>3. ASSUME IsTable(f) PROVE Fold(f, Nothing) = f
  <2>1. DOMAIN Fold(f, Nothing) = DOMAIN f /\ \A x \in DOMAIN f : Fold(f, Nothing)[x] = f[x]
    BY FoldFacts DEF Nothing
  <2> QED
    BY <1>2, <1>3, <2>1, Zenon DEF IsTable
<1> QED
  BY <1>1, <1>2, <1>3, Zenon

\* What is current after a commit is in the table.
LEMMA CurrentWritten ==
  ASSUME NEW t, NEW c, NEW ids, NEW D, DocsOK(t), RowsOK(t, c, ids), DocRows(t, D),
         NEW d \in DOMAIN Fold(c.current, D)
  PROVE  Written(Table(t, D), d, Fold(c.current, D)[d])
<1> DEFINE r == Fold(c.current, D)[d]
<1>1. CASE d \in DOMAIN D
  <2>1. D[d] # Gone /\ r = D[d]
    BY <1>1, FoldFacts
  <2> QED
    BY <1>1, <2>1, TableFacts, Zenon
<1>2. CASE d \notin DOMAIN D
  <2>1. d \in DOMAIN c.current /\ r = c.current[d]
    BY <1>2, FoldFacts, Zenon
  <2>2. Written(t, d, r)
    BY <2>1, Zenon DEF RowsOK
  <2>3. /\ DOMAIN t \subseteq DOMAIN Table(t, D)
        /\ \A key \in DOMAIN t : Table(t, D)[key] = t[key]
    BY TableFacts, Zenon
  <2> QED
    BY <2>2, <2>3, Zenon DEF Written
<1> QED
  BY <1>1, <1>2, Zenon

\* A finite number of instances pins a version.
LEMMA PinningFinite ==
  ASSUME NEW c, NEW ids \in Nat, DOMAIN c.instances \subseteq 1 .. ids, NEW key
  PROVE  /\ IsFiniteSet(Pinning(c, key)) /\ Cardinality(Pinning(c, key)) \in Nat
         /\ Cardinality(Pinning(c, key)) <= 0 <=> key \notin PinnedKeys(c)
<1>1. Pinning(c, key) \in SUBSET (1 .. ids)
  BY Zenon DEF Pinning
<1>2. IsFiniteSet(1 .. ids)
  BY FS_Interval
<1>3. IsFiniteSet(Pinning(c, key))
  BY <1>1, <1>2, FS_Subset, Zenon
<1>4. Cardinality(Pinning(c, key)) \in Nat
  BY <1>3, FS_CardinalityType, Zenon
<1>5. Cardinality(Pinning(c, key)) = 0 <=> Pinning(c, key) = {}
  BY <1>3, FS_EmptySet, Zenon
<1>6. Pinning(c, key) = {} <=> key \notin PinnedKeys(c)
  BY Zenon DEF Pinning, PinnedKeys
<1> QED
  BY <1>3, <1>4, <1>5, <1>6

\* Documents: the cache keeps the versions that are current now or pinned.
LEMMA DocsFolded ==
  ASSUME NEW t, NEW c, NEW ids, NEW D, DocsOK(t), RowsOK(t, c, ids), DocRows(t, D),
         c.versions = Seed(t, c), NEW c1, c1 = applyDeployment(c, D)
  PROVE  /\ DOMAIN c1 = DOMAIN c /\ c1.current = Fold(c.current, D)
         /\ c1.nodes = c.nodes /\ c1.policies = c.policies /\ c1.instances = c.instances
         /\ c1.versions = Seed(Table(t, D), c1)
<1> DEFINE T == Table(t, D)
           cur == Fold(c.current, D)
           keys == {<<d, cur[d].version>> : d \in DOMAIN D \cap DOMAIN cur}
           added == [key \in keys |-> [doc |-> cur[key[1]], pins |-> 0]]
           dropped == {key \in DOMAIN c.versions :
                         /\ key[1] \in DOMAIN D /\ c.versions[key].pins <= 0
                         /\ D[key[1]] = Gone \/ Row(c.current, key[1]) = {c.versions[key].doc}}
           kept == Without(c.versions, dropped)
<1>1. DOMAIN c = {"nodes", "current", "versions", "instances", "policies"} /\ ids \in Nat
      /\ DOMAIN c.instances \subseteq 1 .. ids
  BY Zenon DEF RowsOK
<1>2. c1 = [c EXCEPT !.current = cur, !.versions = Over(added, kept)]
  BY Zenon DEF applyDeployment
<1> HIDE DEF cur, added, kept, dropped, keys, T
<1>3. /\ DOMAIN c1 = DOMAIN c /\ c1.current = cur /\ c1.versions = Over(added, kept)
      /\ c1.nodes = c.nodes /\ c1.policies = c.policies /\ c1.instances = c.instances
  BY <1>1, <1>2, Zenon
<1>4. /\ PinnedKeys(c1) = PinnedKeys(c) /\ \A key : Pinning(c1, key) = Pinning(c, key)
  BY <1>3, Zenon DEF PinnedKeys, Pinning
<1>5. \A key : /\ Cardinality(Pinning(c, key)) \in Nat
               /\ Cardinality(Pinning(c, key)) <= 0 <=> key \notin PinnedKeys(c)
  BY <1>1, PinningFinite, Zenon
<1>6. \A key \in CurrentKeys(c) \cup PinnedKeys(c) :
        c.versions[key].doc = t[key] /\ c.versions[key].pins = Cardinality(Pinning(c, key))
  BY DEF Seed, Entry
<1>7. DOMAIN c.versions = CurrentKeys(c) \cup PinnedKeys(c)
  BY Zenon DEF Seed
<1>8. \A d : d \in DOMAIN cur <=> IF d \in DOMAIN D THEN D[d] # Gone ELSE d \in DOMAIN c.current
  BY FoldFacts, Zenon DEF cur
<1>9. \A d \in DOMAIN cur : cur[d] = IF d \in DOMAIN D THEN D[d] ELSE c.current[d]
  BY FoldFacts, Zenon DEF cur
<1>10. \A d \in DOMAIN cur : Written(T, d, cur[d])
  BY CurrentWritten, Zenon DEF T, cur
<1>11. \A d \in DOMAIN c.current : Written(t, d, c.current[d])
  BY Zenon DEF RowsOK
<1>12. \A key \in PinnedKeys(c) : key \in DOMAIN t
  BY Zenon DEF RowsOK, PinnedKeys, InstanceOK
<1>13. keys \cap DOMAIN t = {}
  <2>1. ASSUME NEW d \in DOMAIN D \cap DOMAIN cur PROVE <<d, cur[d].version>> \notin DOMAIN t
    BY <1>8, <1>9, FreshVersion, Zenon
  <2> QED
    BY <2>1, Zenon DEF keys
<1>14. DOMAIN kept = DOMAIN c.versions \ dropped /\ \A key \in DOMAIN kept : kept[key] = c.versions[key]
  BY Zenon DEF kept, Without, Restrict
<1>15. /\ DOMAIN added = keys
       /\ \A key \in keys : added[key] = [doc |-> cur[key[1]], pins |-> 0]
  BY Zenon DEF added
<1>16. ASSUME NEW key \in CurrentKeys(c), key \notin PinnedKeys(c), key[1] \in DOMAIN D
       PROVE  key \in dropped
  <2>1. PICK d \in DOMAIN c.current : key = <<d, c.current[d].version>>
    BY Zenon DEF CurrentKeys
  <2>2. c.versions[key].doc = c.current[d]
    BY <1>6, <1>11, <2>1, Zenon DEF Written
  <2>3. Row(c.current, key[1]) = {c.versions[key].doc}
    BY <2>1, <2>2, Zenon DEF Row
  <2>4. c.versions[key].pins <= 0
    BY <1>5, <1>6, <1>16, Zenon
  <2> QED
    BY <1>7, <1>16, <2>3, <2>4, Zenon DEF dropped
<1>17. ASSUME NEW key \in dropped PROVE key \notin PinnedKeys(c) /\ key[1] \in DOMAIN D
  BY <1>5, <1>6, <1>7, Zenon DEF dropped
<1>18. keys \cup (DOMAIN c.versions \ dropped) = CurrentKeys(c1) \cup PinnedKeys(c1)
  <2>1. CurrentKeys(c1) = {<<d, cur[d].version>> : d \in DOMAIN cur}
    BY <1>3, Zenon DEF CurrentKeys
  <2>2. keys \subseteq CurrentKeys(c1)
    BY <2>1, Zenon DEF keys
  <2>3. ASSUME NEW key \in DOMAIN c.versions \ dropped
        PROVE  key \in CurrentKeys(c1) \cup PinnedKeys(c1)
    <3>1. SUFFICES ASSUME key \notin PinnedKeys(c) PROVE key \in CurrentKeys(c1)
      BY <1>4, Zenon
    <3>2. PICK d \in DOMAIN c.current : key = <<d, c.current[d].version>> /\ d \notin DOMAIN D
      BY <1>7, <1>16, <2>3, <3>1, Zenon DEF CurrentKeys
    <3> QED
      BY <1>8, <1>9, <2>1, <3>2, Zenon
  <2>4. ASSUME NEW key \in PinnedKeys(c1) PROVE key \in DOMAIN c.versions \ dropped
    BY <1>4, <1>7, <1>17, <2>4, Zenon
  <2>5. ASSUME NEW d \in DOMAIN cur, d \notin DOMAIN D
        PROVE  <<d, cur[d].version>> \in DOMAIN c.versions \ dropped
    <3>1. <<d, cur[d].version>> \in CurrentKeys(c)
      BY <1>8, <1>9, <2>5, Zenon DEF CurrentKeys
    <3> QED
      BY <1>7, <1>17, <2>5, <3>1, Zenon
  <2> QED
    BY <2>1, <2>2, <2>3, <2>4, <2>5, Zenon DEF keys
<1>19. ASSUME NEW key \in keys PROVE added[key] = Entry(T, c1, key)
  <2>1. PICK d \in DOMAIN cur : key = <<d, cur[d].version>>
    BY Zenon DEF keys
  <2>2. T[key] = cur[key[1]]
    BY <1>10, <2>1, Zenon DEF Written
  <2>3. Cardinality(Pinning(c1, key)) = 0
    BY <1>4, <1>5, <1>12, <1>13
  <2> QED
    BY <1>15, <2>2, <2>3, Zenon DEF Entry
<1>20. ASSUME NEW key \in DOMAIN kept PROVE kept[key] = Entry(T, c1, key)
  <2>1. kept[key] = Entry(t, c, key)
    BY <1>7, <1>14, Zenon DEF Seed
  <2>2. key \in DOMAIN t
    BY <1>7, <1>11, <1>12, <1>14, Zenon DEF CurrentKeys, Written
  <2>3. T[key] = t[key]
    BY <2>2, TableFacts, Zenon DEF T
  <2> QED
    BY <1>4, <2>1, <2>3, Zenon DEF Entry
<1>21. Over(added, kept) = Seed(T, c1)
  <2>1. Over(added, kept) = [key \in CurrentKeys(c1) \cup PinnedKeys(c1) |->
                               IF key \in keys THEN added[key] ELSE kept[key]]
    BY <1>14, <1>15, <1>18, Zenon DEF Over
  <2>2. \A key \in CurrentKeys(c1) \cup PinnedKeys(c1) :
          (IF key \in keys THEN added[key] ELSE kept[key]) = Entry(T, c1, key)
    BY <1>14, <1>18, <1>19, <1>20, Zenon
  <2> QED
    BY <2>1, <2>2, Zenon DEF Seed
<1> QED
  BY <1>3, <1>21, Zenon DEF T, cur

\* Instances: the rows W of a commit rewrite instances under their own version
\* and place new ones on the current version (Rescheduled).
Pins(c, W) ==
  \A i \in DOMAIN W :
    /\ i \in DOMAIN c.instances => Key(W[i]) = Key(c.instances[i])
    /\ i \notin DOMAIN c.instances => W[i].state # "FINALIZED" /\ Key(W[i]) \in CurrentKeys(c)

Final(W) == {i \in DOMAIN W : W[i].state = "FINALIZED"}
Created(c, W) == DOMAIN W \ (DOMAIN c.instances \cup Final(W))
With(W, S, key) == {i \in S : Key(W[i]) = key}
Counted(c, c3, W, key) ==
  Cardinality(Pinning(c, key)) + Cardinality(With(W, Created(c, W), key))
    - Cardinality(With(W, Final(W), key)) = Cardinality(Pinning(c3, key))

\* The instances after a commit.
LEMMA InstancesAfter ==
  ASSUME NEW insts, NEW W, NEW new, new = Over(Without(W, Final(W)), Without(insts, Final(W)))
  PROVE  /\ \A i : i \in DOMAIN new <=> i \in (DOMAIN W \cup DOMAIN insts) \ Final(W)
         /\ \A i \in DOMAIN new : new[i] = IF i \in DOMAIN W THEN W[i] ELSE insts[i]
<1> DEFINE f == Without(W, Final(W))
           g == Without(insts, Final(W))
<1>1. /\ DOMAIN f = DOMAIN W \ Final(W) /\ \A x \in DOMAIN W \ Final(W) : f[x] = W[x]
      /\ DOMAIN g = DOMAIN insts \ Final(W) /\ \A x \in DOMAIN insts \ Final(W) : g[x] = insts[x]
  BY Zenon DEF Without, Restrict
<1> HIDE DEF f, g
<1>2. /\ DOMAIN Over(f, g) = DOMAIN f \cup DOMAIN g
      /\ \A x \in DOMAIN f \cup DOMAIN g : Over(f, g)[x] = IF x \in DOMAIN f THEN f[x] ELSE g[x]
  BY Zenon DEF Over
<1>3. /\ \A i : i \in DOMAIN Over(f, g) <=> i \in (DOMAIN W \cup DOMAIN insts) \ Final(W)
      /\ \A i \in DOMAIN Over(f, g) : Over(f, g)[i] = IF i \in DOMAIN W THEN W[i] ELSE insts[i]
  BY <1>1, <1>2, Zenon DEF Final
<1> QED
  BY <1>3, Zenon DEF f, g

\* The pins that applyInstance counts are the instances that pin the version.
LEMMA PinsCounted ==
  ASSUME NEW c, NEW c3, NEW W, NEW b \in Nat, NEW key, Pins(c, W),
         DOMAIN c.instances \subseteq 1 .. b, DOMAIN W \subseteq 1 .. b,
         c3.instances = Over(Without(W, Final(W)), Without(c.instances, Final(W)))
  PROVE  Counted(c, c3, W, key)
<1> DEFINE A == Pinning(c, key)
           C == With(W, Created(c, W), key)
           F == With(W, Final(W), key)
<1>1. /\ \A i : i \in DOMAIN c3.instances <=> i \in (DOMAIN W \cup DOMAIN c.instances) \ Final(W)
      /\ \A i \in DOMAIN c3.instances : c3.instances[i] = IF i \in DOMAIN W THEN W[i] ELSE c.instances[i]
  BY InstancesAfter, Zenon
<1>2. Final(W) \subseteq DOMAIN W /\ Final(W) \subseteq DOMAIN c.instances
  BY Zenon DEF Final, Pins
<1>3. \A i \in DOMAIN W \cap DOMAIN c.instances : Key(W[i]) = Key(c.instances[i])
  BY Zenon DEF Pins
<1>4. F \subseteq A /\ A \cap C = {}
  BY <1>2, <1>3, Zenon DEF Pinning, With, Created
<1>5. Pinning(c3, key) = (A \ F) \cup C
  <2>1. ASSUME NEW i \in Pinning(c3, key) PROVE i \in (A \ F) \cup C
    BY <1>1, <1>3, Zenon DEF Pinning, With, Created
  <2>2. ASSUME NEW i \in (A \ F) \cup C PROVE i \in Pinning(c3, key)
    BY <1>1, <1>2, <1>3, Zenon DEF Pinning, With, Created
  <2> QED
    BY <2>1, <2>2, Zenon
<1>6. IsFiniteSet(1 .. b)
  BY FS_Interval
<1>7. A \in SUBSET (1 .. b) /\ C \in SUBSET (1 .. b)
  BY Zenon DEF Pinning, With, Created
<1>8. IsFiniteSet(A) /\ IsFiniteSet(C)
  BY <1>6, <1>7, FS_Subset, Zenon
<1> HIDE DEF A, C, F
<1>9. Cardinality(Pinning(c3, key)) = Cardinality(A) + Cardinality(C) - Cardinality(F)
  <2>1. Cardinality((A \ F) \cup C) = Cardinality(A) + Cardinality(C) - Cardinality(F)
    BY <1>4, <1>8, PinCount
  <2> QED
    BY <1>5, <2>1, Zenon
<1> QED
  BY <1>9, Zenon DEF A, C, F, Counted

\* Instances: the cache keeps the versions that are current or pinned now.
InstanceCommit(t, c, W, b) ==
  /\ Pins(c, W) /\ c.versions = Seed(t, c)
  /\ DOMAIN c = {"nodes", "current", "versions", "instances", "policies"}
  /\ b \in Nat /\ DOMAIN c.instances \subseteq 1 .. b /\ DOMAIN W \subseteq 1 .. b
  /\ \A d \in DOMAIN c.current : Written(t, d, c.current[d])
  /\ \A key \in PinnedKeys(c) : key = <<key[1], t[key].version>>

InstancesApplied(t, c, W, c3) ==
  /\ IsTable(c3) /\ DOMAIN c3 = DOMAIN c /\ c3.current = c.current
  /\ c3.nodes = c.nodes /\ c3.policies = c.policies
  /\ c3.instances = Over(Without(W, Final(W)), Without(c.instances, Final(W)))
  /\ c3.versions = Seed(t, c3)

\* applyInstance keeps the version table in step with the instances it writes.
LEMMA InstancesFolded ==
  ASSUME NEW t, NEW c, NEW W, NEW b, InstanceCommit(t, c, W, b), NEW c3, c3 = applyInstance(c, W)
  PROVE  InstancesApplied(t, c, W, c3)
<1>0. /\ Pins(c, W) /\ c.versions = Seed(t, c)
      /\ DOMAIN c = {"nodes", "current", "versions", "instances", "policies"}
      /\ b \in Nat /\ DOMAIN c.instances \subseteq 1 .. b /\ DOMAIN W \subseteq 1 .. b
      /\ \A d \in DOMAIN c.current : Written(t, d, c.current[d])
      /\ \A key \in PinnedKeys(c) : key = <<key[1], t[key].version>>
  BY Zenon DEF InstanceCommit
<1> USE <1>0
<1> DEFINE pins(key) == c.versions[key].pins + Cardinality(With(W, Created(c, W), key))
                          - Cardinality(With(W, Final(W), key))
           unpinned == {key \in DOMAIN c.versions :
                          /\ \E i \in Final(W) : Key(W[i]) = key
                          /\ pins(key) <= 0
                          /\ Row(c.current, key[1]) # {c.versions[key].doc}}
           insts == Over(Without(W, Final(W)), Without(c.instances, Final(W)))
           versions == [key \in DOMAIN c.versions \ unpinned |->
                          [doc |-> c.versions[key].doc, pins |-> pins(key)]]
<1>1. c3 = [c EXCEPT !.instances = insts, !.versions = versions]
  BY Zenon DEF applyInstance, Final, Created, With
<1> HIDE DEF insts, versions
<1>2. /\ IsTable(c3) /\ DOMAIN c3 = DOMAIN c /\ c3.current = c.current
      /\ c3.nodes = c.nodes /\ c3.policies = c.policies
      /\ c3.instances = insts /\ c3.versions = versions
  BY <1>1, Zenon DEF IsTable
<1>3. /\ \A i : i \in DOMAIN insts <=> i \in (DOMAIN W \cup DOMAIN c.instances) \ Final(W)
      /\ \A i \in DOMAIN insts : insts[i] = IF i \in DOMAIN W THEN W[i] ELSE c.instances[i]
  <2>1. insts = Over(Without(W, Final(W)), Without(c.instances, Final(W)))
    BY Zenon DEF insts
  <2> QED
    BY <2>1, InstancesAfter
<1>4. DOMAIN c.versions = CurrentKeys(c) \cup PinnedKeys(c)
  BY Zenon DEF Seed
<1>5. \A key \in DOMAIN c.versions :
        c.versions[key].doc = t[key] /\ c.versions[key].pins = Cardinality(Pinning(c, key))
  BY DEF Seed, Entry
<1>6. /\ \A key \in DOMAIN c.versions : pins(key) = Cardinality(Pinning(c3, key))
      /\ DOMAIN insts \subseteq 1 .. b
  <2>1. \A key : Counted(c, c3, W, key)
    <3>1. c3.instances = Over(Without(W, Final(W)), Without(c.instances, Final(W)))
      BY <1>2, Zenon DEF insts
    <3> QED
      BY <3>1, PinsCounted, Zenon
  <2> QED
    BY <1>3, <1>5, <2>1, Zenon DEF Counted
<1>7. \A key : /\ Cardinality(Pinning(c3, key)) \in Nat
               /\ Cardinality(Pinning(c3, key)) <= 0 <=> key \notin PinnedKeys(c3)
  BY <1>2, <1>6, PinningFinite, Zenon
<1> HIDE DEF pins
<1>8. CurrentKeys(c3) = CurrentKeys(c)
  BY <1>2, Zenon DEF CurrentKeys
<1>9. ASSUME NEW key \in CurrentKeys(c) PROVE key \in DOMAIN c.versions \ unpinned
  <2>1. PICK d \in DOMAIN c.current : key = <<d, c.current[d].version>>
    BY Zenon DEF CurrentKeys
  <2>2. key \in DOMAIN c.versions /\ c.versions[key].doc = c.current[d]
    BY <1>4, <1>5, <2>1, Zenon DEF Written
  <2>3. Row(c.current, key[1]) = {c.versions[key].doc}
    BY <2>1, <2>2, Zenon DEF Row
  <2> QED
    BY <2>2, <2>3, Zenon
<1>10. ASSUME NEW key \in PinnedKeys(c3) PROVE key \in DOMAIN c.versions \ unpinned
  <2>1. PICK i \in DOMAIN insts : key = Key(insts[i])
    BY <1>2, Zenon DEF PinnedKeys
  <2>2. key \in CurrentKeys(c) \cup PinnedKeys(c)
    BY <1>3, <2>1, Zenon DEF Pins, PinnedKeys
  <2>3. ~(pins(key) <= 0)
    BY <1>4, <1>6, <1>7, <1>10, <2>2, Zenon
  <2> QED
    BY <1>4, <2>2, <2>3, Zenon
<1>11. ASSUME NEW key \in DOMAIN c.versions \ unpinned
       PROVE  key \in CurrentKeys(c) \cup PinnedKeys(c3)
  <2>1. SUFFICES ASSUME key \notin CurrentKeys(c), key \notin PinnedKeys(c3) PROVE FALSE
    BY Zenon
  <2>2. key \in PinnedKeys(c) /\ pins(key) <= 0
    BY <1>4, <1>6, <1>7, <1>11, <2>1
  <2>3. PICK i \in DOMAIN c.instances : key = Key(c.instances[i])
    BY <2>2, Zenon DEF PinnedKeys
  <2>4. i \in Final(W)
    <3>1. SUFFICES ASSUME i \notin Final(W) PROVE FALSE
      BY Zenon
    <3>2. i \in DOMAIN insts /\ Key(insts[i]) = key
      BY <1>3, <2>3, <3>1, Zenon DEF Pins
    <3> QED
      BY <1>2, <2>1, <3>2, Zenon DEF PinnedKeys
  <2>5. Key(W[i]) = key
    BY <2>3, <2>4, Zenon DEF Final, Pins
  <2>6. Row(c.current, key[1]) = {t[key]}
    BY <1>5, <1>11, <2>2, <2>4, <2>5, Zenon
  <2>7. key[1] \in DOMAIN c.current /\ c.current[key[1]] = t[key]
    BY <2>6, Zenon DEF Row
  <2>8. key = <<key[1], t[key].version>>
    BY <2>2, Zenon
  <2> QED
    BY <2>1, <2>7, <2>8, Zenon DEF CurrentKeys
<1>12. DOMAIN c.versions \ unpinned = CurrentKeys(c3) \cup PinnedKeys(c3)
  BY <1>8, <1>9, <1>10, <1>11, Zenon
<1>13. \A key \in DOMAIN c.versions \ unpinned :
         [doc |-> c.versions[key].doc, pins |-> pins(key)] = Entry(t, c3, key)
  BY <1>5, <1>6, Zenon DEF Entry
<1> HIDE DEF unpinned
<1>14. versions = Seed(t, c3)
  BY <1>12, <1>13, Zenon DEF Seed, versions
<1> QED
  BY <1>2, <1>14, Zenon DEF insts, InstancesApplied

------------------------------------------------------------------------------
(* A commit.                                                                *)

\* The cache after the rows of an update, and the rows a commit may hold.
After(c, u) ==
  LET c1 == applyDeployment(c, u.docs)
      c2 == [c1 EXCEPT !.nodes = Fold(@, u.nodes), !.policies = Fold(@, u.policies)]
  IN applyInstance(c2, u.insts)

InstanceRow == [dep : Nat, version : Nat, node : Nodes, space : Nat, state : LiveState \cup {"FINALIZED"}]

\* x is the row y in another state.
SamePlace(x, y) == x.dep = y.dep /\ x.version = y.version /\ x.node = y.node /\ x.space = y.space

\* The row x is placed on the current version of its deployment.
PlacedOn(x, current, members) ==
  /\ x.dep \in DOMAIN current /\ x.node \in members /\ x.state # "FINALIZED"
  /\ x.version = current[x.dep].version /\ x.space = current[x.dep].space

\* The instance rows of a commit rewrite instances and place new ones, with new ids.
Scheduled(c, u, ids) ==
  \A i \in DOMAIN u.insts :
    /\ u.insts[i] \in InstanceRow
    /\ i \in DOMAIN c.instances => SamePlace(u.insts[i], c.instances[i])
    /\ i \notin DOMAIN c.instances
         => /\ i \in Nat /\ i > ids
            /\ PlacedOn(u.insts[i], Fold(c.current, u.docs), DOMAIN Fold(c.nodes, u.nodes))

\* The rows of a commit: no instance stays on a node that goes.
CommitOK(t, c, u, ids) ==
  /\ DocRows(t, u.docs) /\ Scheduled(c, u, ids)
  /\ \A n \in DOMAIN u.nodes : n \in Nodes /\ (u.nodes[n] # Gone => u.nodes[n] \in NodeRow)
  /\ \A k \in DOMAIN u.policies : u.policies[k] # Gone => u.policies[k] \in Policy
  /\ \A i \in DOMAIN c.instances :
       c.instances[i].node \in DOMAIN Fold(c.nodes, u.nodes) \/ i \in Final(u.insts)

\* What a commit makes of the cache, when no id above b has been handed out.
Committed(t, c, u, b) ==
  /\ After(c, u).current = Fold(c.current, u.docs)
  /\ After(c, u).nodes = Fold(c.nodes, u.nodes)
  /\ After(c, u).policies = Fold(c.policies, u.policies)
  /\ After(c, u).instances
       = Over(Without(u.insts, Final(u.insts)), Without(c.instances, Final(u.insts)))
  /\ RowsOK(Table(t, u.docs), After(c, u), b)
  /\ After(c, u).versions = Seed(Table(t, u.docs), After(c, u))

\* After a commit the cache is what a restart would load.
LEMMA CommitFolds ==
  ASSUME NEW t, NEW c, NEW ids, NEW u, NEW b \in Nat, DocsOK(t), RowsOK(t, c, ids),
         c.versions = Seed(t, c), CommitOK(t, c, u, ids),
         ids <= b, \A i \in DOMAIN u.insts : i <= b
  PROVE  Committed(t, c, u, b)
<1> DEFINE T == Table(t, u.docs)
           W == u.insts
           c1 == applyDeployment(c, u.docs)
           c2 == [c1 EXCEPT !.nodes = Fold(@, u.nodes), !.policies = Fold(@, u.policies)]
           c3 == applyInstance(c2, W)
<1>1. DocRows(t, u.docs) /\ Scheduled(c, u, ids)
  BY Zenon DEF CommitOK
<1>2. /\ DOMAIN c = {"nodes", "current", "versions", "instances", "policies"} /\ ids \in Nat
      /\ \A i \in DOMAIN c.instances : i \in 1 .. ids /\ InstanceOK(t, c, c.instances[i])
  BY Zenon DEF RowsOK
<1>3. /\ DOMAIN c1 = DOMAIN c /\ c1.current = Fold(c.current, u.docs)
      /\ c1.nodes = c.nodes /\ c1.policies = c.policies /\ c1.instances = c.instances
      /\ c1.versions = Seed(T, c1)
  BY <1>1, DocsFolded
<1>4. After(c, u) = c3
  BY Zenon DEF After
<1> HIDE DEF c1, T
<1>5. /\ DOMAIN c2 = DOMAIN c /\ c2.current = c1.current /\ c2.instances = c.instances
      /\ c2.nodes = Fold(c.nodes, u.nodes) /\ c2.policies = Fold(c.policies, u.policies)
      /\ c2.versions = c1.versions
  BY <1>2, <1>3, Zenon
<1> HIDE DEF c2
<1>6. c2.versions = Seed(T, c2)
  <2>1. /\ CurrentKeys(c2) = CurrentKeys(c1) /\ PinnedKeys(c2) = PinnedKeys(c1)
        /\ \A key : Pinning(c2, key) = Pinning(c1, key)
    BY <1>3, <1>5, Zenon DEF CurrentKeys, PinnedKeys, Pinning
  <2>2. \A key : Entry(T, c2, key) = Entry(T, c1, key)
    BY <2>1, Zenon DEF Entry
  <2> QED
    BY <1>3, <1>5, <2>1, <2>2, Zenon DEF Seed
<1>7. \A d \in DOMAIN c2.current : Written(T, d, c2.current[d])
  BY <1>1, <1>3, <1>5, CurrentWritten, Zenon DEF T
<1>8. /\ DOMAIN t \subseteq DOMAIN T /\ \A key \in DOMAIN t : T[key] = t[key]
  <2>1. DOMAIN Table(t, u.docs) = DOMAIN t \cup NewKeys(u.docs)
    BY <1>1, TableFacts, Zenon
  <2>2. \A key \in DOMAIN t : Table(t, u.docs)[key] = t[key]
    BY <1>1, TableFacts, Zenon
  <2> QED
    BY <2>1, <2>2, Zenon DEF T
<1>9. ASSUME NEW key \in PinnedKeys(c2) PROVE key = <<key[1], T[key].version>>
  <2>1. key \in DOMAIN t
    BY <1>2, <1>5, Zenon DEF PinnedKeys, InstanceOK
  <2>2. Numbered(t, key)
    BY <2>1, Zenon DEF DocsOK
  <2> QED
    BY <1>8, <2>1, <2>2 DEF Numbered
<1>10. ASSUME NEW i \in DOMAIN W
       PROVE  /\ i \in 1 .. b
              /\ i \in DOMAIN c2.instances => Key(W[i]) = Key(c2.instances[i])
              /\ i \notin DOMAIN c2.instances => W[i].state # "FINALIZED" /\ Key(W[i]) \in CurrentKeys(c2)
  BY <1>1, <1>2, <1>3, <1>5 DEF Scheduled, SamePlace, PlacedOn, Key, CurrentKeys
<1>11. Pins(c2, W) /\ DOMAIN W \subseteq 1 .. b /\ DOMAIN c2.instances \subseteq 1 .. b
  BY <1>2, <1>5, <1>10 DEF Pins
<1>12. /\ IsTable(c3) /\ DOMAIN c3 = DOMAIN c2 /\ c3.current = c2.current
       /\ c3.nodes = c2.nodes /\ c3.policies = c2.policies
       /\ c3.instances = Over(Without(W, Final(W)), Without(c2.instances, Final(W)))
       /\ c3.versions = Seed(T, c3)
  <2>1. c3 = applyInstance(c2, W)
    BY Zenon
  <2>2. DOMAIN c2 = {"nodes", "current", "versions", "instances", "policies"}
    BY <1>2, <1>5, Zenon
  <2>3. \A key \in PinnedKeys(c2) : key = <<key[1], T[key].version>>
    BY <1>9, Zenon
  <2> HIDE DEF c3, W
  <2> QED
    <3>1. InstanceCommit(T, c2, W, b)
      BY <1>6, <1>7, <1>11, <2>2, <2>3, Zenon DEF InstanceCommit
    <3>2. InstancesApplied(T, c2, W, c3)
      BY <2>1, <3>1, InstancesFolded, Zenon
    <3> QED
      BY <3>2, Zenon DEF InstancesApplied
<1> HIDE DEF c3, W
<1>13. /\ \A i : i \in DOMAIN c3.instances <=> i \in (DOMAIN W \cup DOMAIN c.instances) \ Final(W)
       /\ \A i \in DOMAIN c3.instances : c3.instances[i] = IF i \in DOMAIN W THEN W[i] ELSE c.instances[i]
  <2>1. c3.instances = Over(Without(W, Final(W)), Without(c.instances, Final(W)))
    BY <1>5, <1>12, Zenon
  <2> QED
    BY <2>1, InstancesAfter
<1>14. ASSUME NEW i \in DOMAIN c3.instances
       PROVE  i \in 1 .. b /\ InstanceOK(T, c3, c3.instances[i])
  <2> DEFINE x == c3.instances[i]
  <2>1. i \in 1 .. b
    BY <1>2, <1>10, <1>13
  <2>2. ASSUME i \in DOMAIN c.instances
        PROVE  InstanceOK(T, c3, x)
    <3>1. InstanceOK(t, c, c.instances[i])
      BY <1>2, <2>2, Zenon
    <3>2. i \notin Final(W) /\ SamePlace(x, c.instances[i]) /\ x \in Instance
      <4>1. CASE i \in DOMAIN W
        <5>1. W[i] \in InstanceRow /\ SamePlace(W[i], c.instances[i]) /\ x = W[i] /\ i \notin Final(W)
          BY <1>1, <1>13, <2>2, <4>1, Zenon DEF Scheduled, W
        <5> QED
          BY <4>1, <5>1, Zenon DEF InstanceRow, Instance, Final
      <4>2. CASE i \notin DOMAIN W
        BY <1>13, <2>2, <3>1, <4>2, Zenon DEF SamePlace, InstanceOK
      <4> QED
        BY <4>1, <4>2, Zenon
    <3>3. x.node \in DOMAIN c3.nodes
      <4>1. c.instances[i].node \in DOMAIN c3.nodes
        BY <1>5, <1>12, <2>2, <3>2, Zenon DEF CommitOK, W
      <4> QED
        BY <3>2, <4>1, Zenon DEF SamePlace
    <3>4. Key(x) = Key(c.instances[i])
      BY <3>2, Zenon DEF SamePlace, Key
    <3>5. Key(x) \in DOMAIN T /\ T[Key(x)] = t[Key(x)] /\ x.space = t[Key(x)].space
      BY <1>8, <3>1, <3>2, <3>4, Zenon DEF InstanceOK, SamePlace
    <3> QED
      BY <3>2, <3>3, <3>5, Zenon DEF InstanceOK
  <2>3. ASSUME i \notin DOMAIN c.instances
        PROVE  InstanceOK(T, c3, x)
    <3>1. i \in DOMAIN W /\ i \notin Final(W) /\ x = W[i]
      BY <1>13, <2>3, Zenon
    <3>2. W[i] \in InstanceRow /\ PlacedOn(W[i], c3.current, DOMAIN c3.nodes)
      BY <1>1, <1>3, <1>5, <1>12, <2>3, <3>1, Zenon DEF Scheduled, W
    <3>3. x \in Instance
      BY <3>1, <3>2, Zenon DEF InstanceRow, Instance, Final
    <3>4. Written(T, x.dep, c3.current[x.dep]) /\ x.node \in DOMAIN c3.nodes
      BY <1>7, <1>12, <3>1, <3>2, Zenon DEF PlacedOn
    <3> QED
      BY <3>1, <3>2, <3>3, <3>4, Zenon DEF InstanceOK, PlacedOn, Written, Key
  <2> QED
    BY <2>1, <2>2, <2>3, Zenon
<1>15. /\ DOMAIN c3.nodes \subseteq Nodes /\ \A n \in DOMAIN c3.nodes : c3.nodes[n] \in NodeRow
  <2>1. /\ DOMAIN c.nodes \subseteq Nodes /\ \A n \in DOMAIN c.nodes : c.nodes[n] \in NodeRow
    BY Zenon DEF RowsOK
  <2>2. \A n \in DOMAIN u.nodes : n \in Nodes /\ (u.nodes[n] # Gone => u.nodes[n] \in NodeRow)
    BY Zenon DEF CommitOK
  <2> QED
    BY <1>5, <1>12, <2>1, <2>2, FoldFacts
<1>16. \A k \in DOMAIN c3.policies : c3.policies[k] \in Policy
  <2>1. \A k \in DOMAIN c.policies : c.policies[k] \in Policy
    BY Zenon DEF RowsOK
  <2>2. \A k \in DOMAIN u.policies : u.policies[k] # Gone => u.policies[k] \in Policy
    BY Zenon DEF CommitOK
  <2> QED
    BY <1>5, <1>12, <2>1, <2>2, FoldFacts
<1>18. IsTable(c3.nodes) /\ IsTable(c3.current) /\ IsTable(c3.instances) /\ IsTable(c3.policies)
  <2>1. \A x, y : IsTable(Over(x, y)) /\ IsTable(Fold(x, y))
    BY TablesMade, Zenon
  <2> QED
    BY <1>3, <1>5, <1>12, <2>1, Zenon
<1>17. RowsOK(T, c3, b)
  BY <1>2, <1>18, <1>5, <1>7, <1>12, <1>14, <1>15, <1>16, Zenon DEF RowsOK
<1> QED
  BY <1>3, <1>4, <1>5, <1>12, <1>17, Zenon DEF T, W, Committed

\* The rows the scheduler writes: a new instance on the current version, and
\* instances of the deployment told to end.
Placing(current, members, d, x) ==
  /\ d \in DOMAIN current /\ current[d].node \in members
  /\ \E state \in WantsRunning : x = instance(d, current[d], state)

Ending(insts, i, x) ==
  /\ i \in DOMAIN insts
  /\ \E state \in {"TERMINATE", "FINALIZED"} : x = [insts[i] EXCEPT !.state = state]

\* What the scheduler writes for a deployment: one new placement, and instances that end.
LEMMA RescheduledRows ==
  ASSUME NEW current, NEW members, NEW insts, NEW d, NEW stopped, NEW id,
         NEW W, W = Rescheduled(current, members, insts, d, stopped, id), NEW i \in DOMAIN W
  PROVE  \/ i = id /\ Placing(current, members, d, W[i])
         \/ Ending(insts, i, W[i])
<1> DEFINE r == Row(current, d)
           runs == \E x \in r : x.strategy # "STOPPED"
           obsolete(j) == {insts[j].version} # {x.version : x \in r}
           recreate == \E x \in r : x.strategy = "RECREATE"
           ends == {j \in Mine(insts, d) :
                      \/ insts[j].state = "TERMINATE"
                      \/ ~runs
                      \/ obsolete(j) /\ (recreate \/ insts[j].state = "RUN_STANDBY")}
           state(j) == IF j \in ends THEN IF j \in stopped THEN "FINALIZED" ELSE "TERMINATE"
                       ELSE insts[j].state
           moved == {j \in Mine(insts, d) : state(j) # insts[j].state}
           old == [j \in moved |-> [insts[j] EXCEPT !.state = state(j)]]
           places == /\ runs /\ \A x \in r : x.node \in members
                     /\ \A j \in Mine(insts, d) \ ends : obsolete(j)
                     /\ ~(recreate /\ \E j \in ends : j \notin stopped)
           target == IF \E j \in Mine(insts, d) \ ends : insts[j].state = "RUN_SERVING"
                     THEN "RUN_STANDBY" ELSE "RUN_SERVING"
           new == Only(id, instance(d, current[d], target))
<1>1. W = IF places THEN Over(new, old) ELSE old
  BY Zenon DEF Rescheduled
<1>2. places => d \in DOMAIN current /\ current[d].node \in members
  BY Zenon DEF Row
<1>3. target \in WantsRunning
  BY Zenon DEF WantsRunning
<1>4. DOMAIN new = {id} /\ new[id] = instance(d, current[d], target)
  BY Zenon DEF Only
<1>5. ASSUME NEW j \in moved PROVE Ending(insts, j, old[j])
  <2>1. j \in DOMAIN insts /\ state(j) \in {"TERMINATE", "FINALIZED"}
    BY Zenon DEF Mine
  <2>2. old[j] = [insts[j] EXCEPT !.state = state(j)]
    BY Zenon
  <2> HIDE DEF old, state
  <2> QED
    BY <2>1, <2>2, Zenon DEF Ending
<1>6. DOMAIN old = moved
  BY Zenon
<1> HIDE DEF new, old, places, target, moved
<1>7. Placing(current, members, d, new[id]) \/ ~places
  BY <1>2, <1>3, <1>4, Zenon DEF Placing
<1>8. CASE ~places
  BY <1>1, <1>5, <1>6, <1>8, Zenon
<1>9. CASE places
  <2>1. /\ W = Over(new, old) /\ DOMAIN Over(new, old) = {id} \cup moved
        /\ i = id => Over(new, old)[i] = new[id]
        /\ i # id => Over(new, old)[i] = old[i]
    BY <1>1, <1>4, <1>6, <1>9, Zenon DEF Over
  <2> QED
    BY <1>5, <1>7, <1>9, <2>1, Zenon
<1> QED
  BY <1>8, <1>9, Zenon

\* A row told to end is the row of the instance in another state.
LEMMA StateOnly ==
  ASSUME NEW x \in Instance, NEW state \in LiveState \cup {"FINALIZED"}, NEW y,
         y = [x EXCEPT !.state = state]
  PROVE  y \in InstanceRow /\ SamePlace(y, x) /\ y.state = state
BY Zenon DEF Instance, InstanceRow, SamePlace

\* What the scheduler writes for one deployment, after the documents of the commit.
LEMMA ScheduledRows ==
  ASSUME NEW t, NEW c, NEW u, NEW ids, DocsOK(t), RowsOK(t, c, ids), DocRows(t, u.docs),
         \A i \in DOMAIN u.insts :
           \/ /\ i \notin DOMAIN c.instances /\ i \in Nat /\ i > ids
              /\ \E d : Placing(Fold(c.current, u.docs), DOMAIN Fold(c.nodes, u.nodes), d, u.insts[i])
           \/ \E state \in LiveState \cup {"FINALIZED"} :
                i \in DOMAIN c.instances /\ u.insts[i] = [c.instances[i] EXCEPT !.state = state]
  PROVE  Scheduled(c, u, ids)
<1> DEFINE cur == Fold(c.current, u.docs)
           members == DOMAIN Fold(c.nodes, u.nodes)
<1>1. SUFFICES ASSUME NEW i \in DOMAIN u.insts
               PROVE  /\ u.insts[i] \in InstanceRow
                      /\ i \in DOMAIN c.instances => SamePlace(u.insts[i], c.instances[i])
                      /\ i \notin DOMAIN c.instances
                           => i \in Nat /\ i > ids /\ PlacedOn(u.insts[i], cur, members)
  BY Zenon DEF Scheduled
<1>2. ASSUME i \notin DOMAIN c.instances, i \in Nat, i > ids,
             NEW d, Placing(cur, members, d, u.insts[i])
      PROVE  u.insts[i] \in InstanceRow /\ PlacedOn(u.insts[i], cur, members)
  <2>1. d \in DOMAIN cur /\ cur[d].node \in members
    BY <1>2, Zenon DEF Placing
  <2>2. PICK state \in WantsRunning : u.insts[i] = instance(d, cur[d], state)
    BY <1>2, Zenon DEF Placing
  <2>3. Written(Table(t, u.docs), d, cur[d])
    BY <2>1, CurrentWritten, Zenon
  <2>4. DocsOK(Table(t, u.docs))
    BY TableOK, Zenon
  <2>5. Numbered(Table(t, u.docs), <<d, cur[d].version>>)
    BY <2>3, <2>4, Zenon DEF Written, DocsOK
  <2>6. d \in Nat /\ cur[d] \in Version
    BY <2>3, <2>5, Zenon DEF Numbered, Written
  <2> HIDE DEF cur, members
  <2>7. u.insts[i] \in InstanceRow
    BY <2>2, <2>6 DEF instance, InstanceRow, Version, LiveState, WantsRunning
  <2>8. state # "FINALIZED"
    BY Zenon DEF WantsRunning
  <2> QED
    BY <2>1, <2>2, <2>7, <2>8 DEF instance, PlacedOn
<1>3. ASSUME i \in DOMAIN c.instances, NEW state \in LiveState \cup {"FINALIZED"},
             u.insts[i] = [c.instances[i] EXCEPT !.state = state]
      PROVE  u.insts[i] \in InstanceRow /\ SamePlace(u.insts[i], c.instances[i])
  <2>1. c.instances[i] \in Instance
    BY <1>3, Zenon DEF RowsOK, InstanceOK
  <2> QED
    BY <1>3, <2>1, StateOnly, Zenon
<1> HIDE DEF cur, members
<1>4. CASE i \in DOMAIN c.instances
  BY <1>3, <1>4, Zenon DEF cur, members
<1>5. CASE i \notin DOMAIN c.instances
  BY <1>2, <1>5, Zenon DEF cur, members
<1> QED
  BY <1>4, <1>5, Zenon

------------------------------------------------------------------------------
(* The steps.                                                               *)

\* The tables and the cache of them.
Tables ==
  /\ scope \in Scopes /\ DocsOK(docs) /\ RowsOK(docs, cache, issued)
  /\ cache.versions = Seed(docs, cache)

\* The documents a commit writes are those of the scope.
FromScope(u) ==
  \A d \in DOMAIN u.docs : u.docs[d] # Gone =>
    d \in DOMAIN scope.docs /\ \E new \in scope.docs[d] : u.docs[d].space = new.space

\* A commit the program makes.
Legal(u) ==
  /\ CommitOK(docs, cache, u, issued) /\ FromScope(u)
  /\ \E b \in Nat : \A i \in DOMAIN u.insts : i <= b

\* A commit folds its rows.
LEMMA CommitStep ==
  ASSUME Tables, NEW k, NEW u, Commit(k, u), Legal(u), scope' = scope
  PROVE  /\ Tables' /\ Committed(docs, cache, u, issued')
         /\ cache' = After(cache, u) /\ docs' = Table(docs, u.docs)
<1>1. cache' = After(cache, u) /\ docs' = Table(docs, u.docs)
  BY Zenon DEF Commit, applyLocked, After, Table, NewKeys
<1>2. issued' = Max({issued} \cup DOMAIN u.insts)
  BY Zenon DEF Commit
<1>3. issued \in Nat /\ \A i \in DOMAIN cache.instances : i \in 1 .. issued
  BY Zenon DEF Tables, RowsOK
<1>4. CommitOK(docs, cache, u, issued) /\ DocRows(docs, u.docs)
  BY Zenon DEF Legal, CommitOK
<1>5. \A i \in DOMAIN u.insts : i \in Nat
  <2>1. Scheduled(cache, u, issued)
    BY <1>4, Zenon DEF CommitOK
  <2> QED
    BY <1>3, <2>1 DEF Scheduled
<1>6. PICK b \in Nat : \A i \in DOMAIN u.insts : i <= b
  BY Zenon DEF Legal
<1>7. PICK e \in Nat : \A i \in {issued} \cup DOMAIN u.insts : i <= e
  <2>1. \A i \in {issued} \cup DOMAIN u.insts : i <= b + issued
    BY <1>3, <1>5, <1>6
  <2>2. b + issued \in Nat
    BY <1>3
  <2> QED
    BY <2>1, <2>2, Zenon
<1>8. ({issued} \cup DOMAIN u.insts) \in SUBSET Nat
  BY <1>3, <1>5, Zenon
<1>9. issued' \in Nat /\ issued <= issued' /\ \A i \in DOMAIN u.insts : i <= issued'
  BY <1>2, <1>7, <1>8, MaxOf, Zenon
<1>10. Committed(docs, cache, u, issued')
  BY <1>4, <1>9, CommitFolds, Zenon DEF Tables
<1>11. DocsOK(docs')
  BY <1>1, <1>4, TableOK, Zenon DEF Tables
<1> QED
  BY <1>1, <1>10, <1>11, Zenon DEF Tables, Committed

\* Only and Nothing as functions.
LEMMA OneRow ==
  ASSUME NEW x, NEW row
  PROVE  /\ DOMAIN Only(x, row) = {x} /\ Only(x, row)[x] = row /\ DOMAIN Nothing = {}
BY Zenon DEF Only, Nothing

\* Deletions only: the rows that are left.
LEMMA FoldDeletes ==
  ASSUME NEW f, NEW D, \A x \in DOMAIN D : D[x] = Gone
  PROVE  Fold(f, D) = Without(f, DOMAIN D) /\ DOMAIN Fold(f, D) = DOMAIN f \ DOMAIN D
<1>1. IsTable(Fold(f, D))
  BY TablesMade, Zenon
<1>2. /\ IsTable(Without(f, DOMAIN D)) /\ DOMAIN Without(f, DOMAIN D) = DOMAIN f \ DOMAIN D
      /\ \A x \in DOMAIN f \ DOMAIN D : Without(f, DOMAIN D)[x] = f[x]
  BY Zenon DEF IsTable, Without, Restrict
<1>3. /\ DOMAIN Fold(f, D) = DOMAIN f \ DOMAIN D
      /\ \A x \in DOMAIN f \ DOMAIN D : Fold(f, D)[x] = f[x]
  BY FoldFacts, Zenon
<1>4. Fold(f, D) = Without(f, DOMAIN D)
  BY <1>1, <1>2, <1>3, Zenon DEF IsTable
<1> QED
  BY <1>3, <1>4, Zenon

\* One row written: it lies over the others.
LEMMA FoldOne ==
  ASSUME NEW f, NEW x, NEW row, row # Gone
  PROVE  Fold(f, Only(x, row)) = Over(Only(x, row), f)
<1>1. IsTable(Fold(f, Only(x, row))) /\ IsTable(Over(Only(x, row), f))
  BY TablesMade, Zenon
<1>2. /\ DOMAIN Over(Only(x, row), f) = {x} \cup DOMAIN f
      /\ \A y \in {x} \cup DOMAIN f : Over(Only(x, row), f)[y] = IF y = x THEN row ELSE f[y]
  BY Zenon DEF Over, Only
<1>3. /\ DOMAIN Fold(f, Only(x, row)) = {x} \cup DOMAIN f
      /\ \A y \in {x} \cup DOMAIN f : Fold(f, Only(x, row))[y] = IF y = x THEN row ELSE f[y]
  <2> DEFINE D == Only(x, row)
  <2>1. DOMAIN D = {x} /\ D[x] = row
    BY OneRow, Zenon
  <2> HIDE DEF D
  <2>2. \A y : y \in DOMAIN Fold(f, D) <=> IF y \in DOMAIN D THEN D[y] # Gone ELSE y \in DOMAIN f
    BY FoldFacts, Zenon
  <2>3. \A y \in DOMAIN Fold(f, D) : Fold(f, D)[y] = IF y \in DOMAIN D THEN D[y] ELSE f[y]
    BY FoldFacts, Zenon
  <2>4. /\ DOMAIN Fold(f, D) = {x} \cup DOMAIN f
        /\ \A y \in {x} \cup DOMAIN f : Fold(f, D)[y] = IF y = x THEN row ELSE f[y]
    BY <2>1, <2>2, <2>3, Zenon
  <2> QED
    BY <2>4, Zenon DEF D
<1> QED
  BY <1>1, <1>2, <1>3, Zenon DEF IsTable

\* The instance rows of a commit: new ids for what is placed, else another state.
RowsOf(u, current, members, ids) ==
  \A i \in DOMAIN u.insts :
    \/ /\ i \notin DOMAIN cache.instances /\ i \in Nat /\ i > ids
       /\ \E d : Placing(current, members, d, u.insts[i])
    \/ \E state \in LiveState \cup {"FINALIZED"} :
         i \in DOMAIN cache.instances /\ u.insts[i] = [cache.instances[i] EXCEPT !.state = state]

\* A commit of documents and instances.
Workload(u) == u.nodes = Nothing /\ u.policies = Nothing

\* A commit of document and instance rows of this kind is one the invariant admits.
LEMMA WorkloadLegal ==
  ASSUME Tables, NEW u, Workload(u), DocRows(docs, u.docs), FromScope(u),
         RowsOf(u, Fold(cache.current, u.docs), DOMAIN cache.nodes, issued),
         \A i \in DOMAIN u.insts : i \in DOMAIN cache.instances \/ i = issued + 1
  PROVE  Legal(u)
<1>1. IsTable(cache.nodes)
  BY Zenon DEF Tables, RowsOK
<1>2. Fold(cache.nodes, u.nodes) = cache.nodes
  BY <1>1, TablesMade, Zenon DEF Workload
<1>3. Scheduled(cache, u, issued)
  BY <1>2, ScheduledRows, Zenon DEF RowsOf, Tables
<1>4. DOMAIN u.nodes = {} /\ DOMAIN u.policies = {}
  BY OneRow, Zenon DEF Workload
<1>5. \A i \in DOMAIN cache.instances : cache.instances[i].node \in DOMAIN cache.nodes
  BY Zenon DEF Tables, RowsOK, InstanceOK
<1>6. CommitOK(docs, cache, u, issued)
  BY <1>2, <1>3, <1>4, <1>5, Zenon DEF CommitOK
<1>7. issued + 1 \in Nat /\ \A i \in DOMAIN u.insts : i <= issued + 1
  <2>1. issued \in Nat /\ \A i \in DOMAIN cache.instances : i \in 1 .. issued
    BY Zenon DEF Tables, RowsOK
  <2> QED
    BY <2>1
<1> QED
  BY <1>6, <1>7, Zenon DEF Legal

\* What the scheduler writes for one deployment are such rows.
LEMMA RescheduledOf ==
  ASSUME Tables, NEW u, NEW current, NEW d, NEW stopped,
         u.insts = Rescheduled(current, DOMAIN cache.nodes, cache.instances, d, stopped, issued + 1)
  PROVE  /\ RowsOf(u, current, DOMAIN cache.nodes, issued)
         /\ \A i \in DOMAIN u.insts : i \in DOMAIN cache.instances \/ i = issued + 1
<1>1. issued \in Nat /\ \A i \in DOMAIN cache.instances : i \in 1 .. issued
  BY Zenon DEF Tables, RowsOK
<1>2. \A i \in DOMAIN u.insts :
        \/ i = issued + 1 /\ Placing(current, DOMAIN cache.nodes, d, u.insts[i])
        \/ Ending(cache.instances, i, u.insts[i])
  BY RescheduledRows, Zenon
<1>3. issued + 1 \notin DOMAIN cache.instances /\ issued + 1 \in Nat /\ issued + 1 > issued
  BY <1>1
<1>4. {"TERMINATE", "FINALIZED"} \subseteq LiveState \cup {"FINALIZED"}
  BY Zenon DEF LiveState
<1>5. \A i \in DOMAIN u.insts : i \in DOMAIN cache.instances \/ i = issued + 1
  BY <1>2, Zenon DEF Ending
<1>6. RowsOf(u, current, DOMAIN cache.nodes, issued)
  BY <1>2, <1>3, <1>4, Zenon DEF RowsOf, Ending
<1> QED
  BY <1>5, <1>6, Zenon

WorkloadCommit == \E k, u : Commit(k, u) /\ Legal(u) /\ Workload(u)

\* Service.Create and Update.
LEMMA WriteCommits ==
  ASSUME Tables, NEW d \in DOMAIN scope.docs, Write(d)
  PROVE  WorkloadCommit
<1>1. PICK new \in scope.docs[d], stopped \in SUBSET Mine(cache.instances, d) :
        LET r == Stamped(new, 1 + Cardinality({key \in DOMAIN docs : key[1] = d}))
            current == Over(Only(d, r), cache.current)
        IN /\ d \in DOMAIN cache.current \/ r.version = 1
           /\ Commit("write", Update(Only(d, r), Nothing, Nothing,
                Rescheduled(current, DOMAIN cache.nodes, cache.instances, d, stopped, issued + 1)))
  BY Zenon DEF Write
<1> DEFINE r == Stamped(new, 1 + Cardinality({key \in DOMAIN docs : key[1] = d}))
           current == Over(Only(d, r), cache.current)
           W == Rescheduled(current, DOMAIN cache.nodes, cache.instances, d, stopped, issued + 1)
           u == Update(Only(d, r), Nothing, Nothing, W)
<1>2. Commit("write", u)
  BY <1>1, Zenon
<1>3. d \in Nat \ {0} /\ new \in Document
  BY RenderingAssumption, Zenon DEF Tables
<1>4. Cardinality(VersionsOf(docs, d)) \in Nat
  BY VersionsFinite, Zenon DEF Tables
<1>5. r \in Version /\ r.version = 1 + Cardinality(VersionsOf(docs, d)) /\ r.space = new.space /\ r # Gone
  BY <1>3, <1>4 DEF Stamped, Document, Version, Name, VersionsOf, Gone
<1> HIDE DEF r
<1> HIDE DEF W
<1>6. u.docs = Only(d, r) /\ u.insts = W /\ u.nodes = Nothing /\ u.policies = Nothing
  BY Zenon DEF Update
<1> HIDE DEF u
<1>12. DOMAIN u.docs = {d} /\ u.docs[d] = r
  <2>1. DOMAIN Only(d, r) = {d} /\ Only(d, r)[d] = r
    BY OneRow, Zenon
  <2> QED
    BY <1>6, <2>1, Zenon
<1>13. Workload(u)
  BY <1>6, Zenon DEF Workload
<1>7. DocRows(docs, u.docs)
  BY <1>3, <1>5, <1>12, Zenon DEF DocRows
<1>8. FromScope(u)
  BY <1>5, <1>12, Zenon DEF FromScope
<1>9. Fold(cache.current, u.docs) = current
  BY <1>5, <1>6, FoldOne, Zenon
<1> HIDE DEF current
<1>10. /\ RowsOf(u, current, DOMAIN cache.nodes, issued)
       /\ \A i \in DOMAIN u.insts : i \in DOMAIN cache.instances \/ i = issued + 1
  BY <1>6, RescheduledOf, Zenon DEF W
<1>11. Legal(u)
  BY <1>7, <1>8, <1>9, <1>10, <1>13, WorkloadLegal, Zenon
<1> QED
  BY <1>2, <1>11, <1>13, Zenon DEF WorkloadCommit

\* Service.Delete.
LEMMA DeleteCommits ==
  ASSUME Tables, NEW d \in DOMAIN scope.docs, Delete(d)
  PROVE  WorkloadCommit
<1> DEFINE current == Without(cache.current, {d})
<1>1. PICK stopped \in SUBSET Mine(cache.instances, d) :
        Commit("change", Update(Only(d, Gone), Nothing, Nothing,
          Rescheduled(current, DOMAIN cache.nodes, cache.instances, d, stopped, issued + 1)))
  BY Zenon DEF Delete
<1> DEFINE W == Rescheduled(current, DOMAIN cache.nodes, cache.instances, d, stopped, issued + 1)
           u == Update(Only(d, Gone), Nothing, Nothing, W)
<1>2. Commit("change", u)
  BY <1>1, Zenon
<1> HIDE DEF W
<1>3. u.docs = Only(d, Gone) /\ u.insts = W /\ u.nodes = Nothing /\ u.policies = Nothing
  BY Zenon DEF Update
<1> HIDE DEF u
<1>4. DOMAIN u.docs = {d} /\ u.docs[d] = Gone
  <2>1. DOMAIN Only(d, Gone) = {d} /\ Only(d, Gone)[d] = Gone
    BY OneRow, Zenon
  <2> QED
    BY <1>3, <2>1, Zenon
<1>5. Workload(u)
  BY <1>3, Zenon DEF Workload
<1>6. d \in Nat \ {0}
  BY RenderingAssumption, Zenon DEF Tables
<1>7. DocRows(docs, u.docs) /\ FromScope(u)
  BY <1>4, <1>6, Zenon DEF DocRows, FromScope
<1>8. Fold(cache.current, u.docs) = current
  BY <1>4, FoldDeletes, Zenon
<1> HIDE DEF current
<1>9. /\ RowsOf(u, current, DOMAIN cache.nodes, issued)
      /\ \A i \in DOMAIN u.insts : i \in DOMAIN cache.instances \/ i = issued + 1
  BY <1>3, RescheduledOf, Zenon DEF W
<1>10. Legal(u)
  BY <1>5, <1>7, <1>8, <1>9, WorkloadLegal, Zenon
<1> QED
  BY <1>2, <1>5, <1>10, Zenon DEF WorkloadCommit

\* A commit of instances only.
LEMMA InstancesLegal ==
  ASSUME Tables, NEW W, NEW u, u = Update(Nothing, Nothing, Nothing, W),
         RowsOf(u, cache.current, DOMAIN cache.nodes, issued),
         \A i \in DOMAIN W : i \in DOMAIN cache.instances \/ i = issued + 1
  PROVE  Legal(u) /\ Workload(u)
<1>1. u.docs = Nothing /\ u.insts = W /\ u.nodes = Nothing /\ u.policies = Nothing
  BY Zenon DEF Update
<1>2. Workload(u)
  BY <1>1, Zenon DEF Workload
<1>3. DOMAIN u.docs = {}
  BY <1>1, OneRow, Zenon
<1>4. DocRows(docs, u.docs) /\ FromScope(u)
  BY <1>3, Zenon DEF DocRows, FromScope
<1>5. IsTable(cache.current)
  BY Zenon DEF Tables, RowsOK
<1>6. Fold(cache.current, u.docs) = cache.current
  BY <1>1, <1>5, TablesMade, Zenon
<1> QED
  BY <1>1, <1>2, <1>4, <1>6, WorkloadLegal, Zenon

\* Runners that have ended are reported.
LEMMA StoppedCommits ==
  ASSUME Tables, NEW d, Stopped(d)
  PROVE  WorkloadCommit
<1>1. PICK stopped :
        Commit("turn", Update(Nothing, Nothing, Nothing,
          Rescheduled(cache.current, DOMAIN cache.nodes, cache.instances, d, stopped, issued + 1)))
  BY Zenon DEF Stopped
<1> DEFINE W == Rescheduled(cache.current, DOMAIN cache.nodes, cache.instances, d, stopped, issued + 1)
           u == Update(Nothing, Nothing, Nothing, W)
<1>2. Commit("turn", u)
  BY <1>1, Zenon
<1>3. u.insts = W
  BY Zenon DEF Update
<1> HIDE DEF u
<1>4. /\ RowsOf(u, cache.current, DOMAIN cache.nodes, issued)
      /\ \A i \in DOMAIN u.insts : i \in DOMAIN cache.instances \/ i = issued + 1
  BY <1>3, RescheduledOf, Zenon
<1> HIDE DEF W
<1>5. Legal(u) /\ Workload(u)
  BY <1>3, <1>4, InstancesLegal, Zenon DEF u
<1> QED
  BY <1>2, <1>5, Zenon DEF WorkloadCommit

\* Rows that only change states.
OtherState(i, x) ==
  /\ i \in DOMAIN cache.instances
  /\ \E state \in LiveState \cup {"FINALIZED"} : x = [cache.instances[i] EXCEPT !.state = state]

\* So is a commit that only moves instances to other states.
LEMMA StatesLegal ==
  ASSUME Tables, NEW W, NEW k, Commit(k, Update(Nothing, Nothing, Nothing, W)),
         \A i \in DOMAIN W : OtherState(i, W[i])
  PROVE  WorkloadCommit
<1> DEFINE u == Update(Nothing, Nothing, Nothing, W)
<1>1. u.insts = W
  BY Zenon DEF Update
<1> HIDE DEF u
<1>2. RowsOf(u, cache.current, DOMAIN cache.nodes, issued)
  BY <1>1, Zenon DEF RowsOf, OtherState
<1>4. \A i \in DOMAIN W : i \in DOMAIN cache.instances
  BY Zenon DEF OtherState
<1>5. u = Update(Nothing, Nothing, Nothing, W)
  BY Zenon DEF u
<1>3. Legal(u) /\ Workload(u)
  BY <1>2, <1>4, <1>5, InstancesLegal, Zenon
<1> QED
  BY <1>3, Zenon DEF WorkloadCommit, u

\* A promotion.
LEMMA PromoteCommits ==
  ASSUME Tables, NEW d, Promote(d)
  PROVE  WorkloadCommit
<1>1. PICK e \in Mine(cache.instances, d) :
        Commit("turn", Update(Nothing, Nothing, Nothing,
          [i \in {i \in Mine(cache.instances, d) :
                    i = e \/ (i < e /\ cache.instances[i].state \in {"RUN_SERVING", "RUN_STANDBY"})} |->
             [cache.instances[i] EXCEPT !.state = IF i = e THEN "RUN_SERVING" ELSE "RUN_DRAINING"]]))
  BY Zenon DEF Promote
<1> DEFINE S == {i \in Mine(cache.instances, d) :
                   i = e \/ (i < e /\ cache.instances[i].state \in {"RUN_SERVING", "RUN_STANDBY"})}
           state(i) == IF i = e THEN "RUN_SERVING" ELSE "RUN_DRAINING"
           W == [i \in S |-> [cache.instances[i] EXCEPT !.state = state(i)]]
<1>2. Commit("turn", Update(Nothing, Nothing, Nothing, W))
  BY <1>1, Zenon
<1>3. \A i \in S : i \in DOMAIN cache.instances
  BY Zenon DEF Mine
<1>4. \A i : state(i) \in LiveState \cup {"FINALIZED"}
  BY Zenon DEF LiveState, WantsRunning
<1>5. DOMAIN W = S /\ \A i \in S : W[i] = [cache.instances[i] EXCEPT !.state = state(i)]
  BY Zenon
<1> HIDE DEF S, W, state
<1>6. \A i \in DOMAIN W : OtherState(i, W[i])
  BY <1>3, <1>4, <1>5, Zenon DEF OtherState
<1> QED
  BY <1>2, <1>6, StatesLegal, Zenon

\* The end of a drain.
LEMMA DrainedCommits ==
  ASSUME Tables, NEW i \in DOMAIN cache.instances, Drained(i)
  PROVE  WorkloadCommit
<1>1. PICK state \in {"TERMINATE", "FINALIZED"} :
        Commit("turn", Update(Nothing, Nothing, Nothing,
          Only(i, [cache.instances[i] EXCEPT !.state = state])))
  BY Zenon DEF Drained
<1> DEFINE W == Only(i, [cache.instances[i] EXCEPT !.state = state])
<1>2. DOMAIN W = {i} /\ W[i] = [cache.instances[i] EXCEPT !.state = state]
  BY OneRow, Zenon
<1>3. state \in LiveState \cup {"FINALIZED"}
  BY Zenon DEF LiveState
<1>4. Commit("turn", Update(Nothing, Nothing, Nothing, W))
  BY <1>1, Zenon
<1> HIDE DEF W
<1>5. \A j \in DOMAIN W : OtherState(j, W[j])
  BY <1>2, <1>3, Zenon DEF OtherState
<1> QED
  BY <1>4, <1>5, StatesLegal, Zenon

\* A commit of node and policy rows in which no node goes.
LEMMA RowsLegal ==
  ASSUME Tables, NEW N, NEW P, NEW u, u = Update(Nothing, N, P, Nothing),
         \A n \in DOMAIN N : n \in Nodes /\ N[n] \in NodeRow,
         \A k \in DOMAIN P : P[k] # Gone => P[k] \in Policy
  PROVE  Legal(u)
<1>1. u.docs = Nothing /\ u.insts = Nothing /\ u.nodes = N /\ u.policies = P
  BY Zenon DEF Update
<1>2. DOMAIN u.docs = {} /\ DOMAIN u.insts = {}
  BY <1>1, OneRow, Zenon
<1>3. DocRows(docs, u.docs) /\ FromScope(u) /\ Scheduled(cache, u, issued)
  BY <1>2, Zenon DEF DocRows, FromScope, Scheduled
<1>4. \A n \in DOMAIN N : N[n] # Gone
  BY Zenon DEF NodeRow, Gone
<1>5. DOMAIN cache.nodes \subseteq DOMAIN Fold(cache.nodes, u.nodes)
  BY <1>1, <1>4, FoldFacts
<1>6. \A i \in DOMAIN cache.instances : cache.instances[i].node \in DOMAIN cache.nodes
  BY Zenon DEF Tables, RowsOK, InstanceOK
<1>7. CommitOK(docs, cache, u, issued)
  BY <1>1, <1>3, <1>5, <1>6, Zenon DEF CommitOK
<1>8. 0 \in Nat /\ \A i \in DOMAIN u.insts : i <= 0
  BY <1>2, Zenon
<1> QED
  BY <1>3, <1>7, <1>8, Zenon DEF Legal

\* The keys of a node's row, one or none.
Keys(f, n) == {r.key : r \in Row(f, n)}

KeyCommit ==
  \E k, u : /\ Commit(k, u) /\ Legal(u)
            /\ \E n \in DOMAIN u.nodes : Keys(cache.nodes, n) # Keys(Fold(cache.nodes, u.nodes), n)

ReportCommit ==
  \E k, u, n, row : /\ Commit(k, u) /\ Legal(u) /\ u = Update(Nothing, Only(n, row), Nothing, Nothing)
                    /\ n \in DOMAIN cache.nodes /\ row # Gone
                    /\ row # cache.nodes[n] /\ row.key = cache.nodes[n].key

PolicyCommit ==
  \E kind, u, k, row : /\ Commit(kind, u) /\ Legal(u)
                       /\ u = Update(Nothing, Nothing, Only(k, row), Nothing)

\* The keys of a node whose row is written, and of one that goes.
LEMMA KeysFold ==
  ASSUME NEW f, NEW n, NEW row
  PROVE  /\ row # Gone => Keys(Fold(f, Only(n, row)), n) = {row.key}
         /\ row = Gone => Keys(Fold(f, Only(n, row)), n) = {}
         /\ n \in DOMAIN f => Keys(f, n) = {f[n].key}
         /\ n \notin DOMAIN f => Keys(f, n) = {}
<1> DEFINE D == Only(n, row)
<1>1. DOMAIN D = {n} /\ D[n] = row
  BY OneRow, Zenon
<1> HIDE DEF D
<1>2. n \in DOMAIN Fold(f, D) <=> IF n \in DOMAIN D THEN D[n] # Gone ELSE n \in DOMAIN f
  BY FoldFacts, Zenon
<1>3. n \in DOMAIN Fold(f, D) => Fold(f, D)[n] = IF n \in DOMAIN D THEN D[n] ELSE f[n]
  BY FoldFacts, Zenon
<1>4. /\ row # Gone => Row(Fold(f, D), n) = {row}
      /\ row = Gone => Row(Fold(f, D), n) = {}
  BY <1>1, <1>2, <1>3, Zenon DEF Row
<1>5. /\ row # Gone => Keys(Fold(f, D), n) = {row.key}
      /\ row = Gone => Keys(Fold(f, D), n) = {}
  BY <1>4, Zenon DEF Keys
<1>6. /\ n \in DOMAIN f => Keys(f, n) = {f[n].key}
      /\ n \notin DOMAIN f => Keys(f, n) = {}
  BY Zenon DEF Keys, Row
<1> QED
  BY <1>5, <1>6, Zenon DEF D

\* A hello or an address report.
LEMMA ReportCommits ==
  ASSUME Tables, NEW n \in Nodes, Report(n)
  PROVE  KeyCommit \/ ReportCommit
<1>1. PICK row \in scope.reports :
        /\ n \in DOMAIN cache.nodes /\ row # cache.nodes[n]
        /\ Commit("change", Update(Nothing, Only(n, row), Nothing, Nothing))
  BY Zenon DEF Report
<1> DEFINE u == Update(Nothing, Only(n, row), Nothing, Nothing)
<1>2. row \in NodeRow
  BY RenderingAssumption, Zenon DEF Tables
<1>3. row # Gone
  BY <1>2 DEF NodeRow, Gone
<1>4. DOMAIN Only(n, row) = {n} /\ Only(n, row)[n] = row /\ DOMAIN Nothing = {}
  BY OneRow, Zenon
<1>5. Legal(u)
  <2>1. /\ \A m \in DOMAIN Only(n, row) : m \in Nodes /\ Only(n, row)[m] \in NodeRow
        /\ \A k \in DOMAIN Nothing : Nothing[k] # Gone => Nothing[k] \in Policy
    BY <1>2, <1>4, Zenon
  <2> QED
    BY <2>1, RowsLegal, Zenon
<1>6. CASE row.key = cache.nodes[n].key
  BY <1>1, <1>3, <1>5, <1>6, Zenon DEF ReportCommit
<1>7. CASE row.key # cache.nodes[n].key
  <2>1. u.nodes = Only(n, row)
    BY Zenon DEF Update
  <2>2. Keys(cache.nodes, n) # Keys(Fold(cache.nodes, u.nodes), n)
    BY <1>1, <1>3, <1>7, <2>1, KeysFold
  <2> HIDE DEF u
  <2>3. n \in DOMAIN u.nodes
    BY <1>4, <2>1, Zenon
  <2>4. Commit("change", u)
    BY <1>1, Zenon DEF u
  <2> QED
    BY <1>5, <2>2, <2>3, <2>4, Zenon DEF KeyCommit
<1> QED
  BY <1>6, <1>7, Zenon

\* An enrollment.
LEMMA JoinCommits ==
  ASSUME Tables, NEW n \in Nodes, Join(n)
  PROVE  KeyCommit
<1> DEFINE row == [key |-> 1, addrs |-> scope.addrs]
           u == Update(Nothing, Only(n, row), Nothing, Nothing)
<1>1. n \notin DOMAIN cache.nodes /\ Commit("change", u)
  BY Zenon DEF Join
<1>2. row \in NodeRow
  BY RenderingAssumption, Zenon DEF Tables, NodeRow
<1>3. row # Gone /\ row.key = 1
  BY <1>2, Zenon DEF NodeRow, Gone
<1> HIDE DEF row
<1>4. DOMAIN Only(n, row) = {n} /\ Only(n, row)[n] = row /\ DOMAIN Nothing = {}
  BY OneRow, Zenon
<1>5. Legal(u)
  <2>1. /\ \A m \in DOMAIN Only(n, row) : m \in Nodes /\ Only(n, row)[m] \in NodeRow
        /\ \A k \in DOMAIN Nothing : Nothing[k] # Gone => Nothing[k] \in Policy
    BY <1>2, <1>4, Zenon
  <2> QED
    BY <2>1, RowsLegal, Zenon
<1>6. u.nodes = Only(n, row)
  BY Zenon DEF Update
<1> HIDE DEF u
<1>7. Keys(cache.nodes, n) # Keys(Fold(cache.nodes, u.nodes), n)
  BY <1>1, <1>3, <1>6, KeysFold
<1>8. n \in DOMAIN u.nodes
  BY <1>4, <1>6, Zenon
<1> QED
  BY <1>1, <1>5, <1>7, <1>8, Zenon DEF KeyCommit

\* A policy is written or deleted.
LEMMA PolicyCommits ==
  ASSUME Tables, NEW k, PutPolicy(k) \/ DeletePolicy(k)
  PROVE  PolicyCommit
<1>1. ASSUME NEW row, row # Gone => row \in Policy,
             Commit("change", Update(Nothing, Nothing, Only(k, row), Nothing))
      PROVE  PolicyCommit
  <2>1. DOMAIN Only(k, row) = {k} /\ Only(k, row)[k] = row /\ DOMAIN Nothing = {}
    BY OneRow, Zenon
  <2>2. /\ \A m \in DOMAIN Nothing : m \in Nodes /\ Nothing[m] \in NodeRow
        /\ \A x \in DOMAIN Only(k, row) : Only(k, row)[x] # Gone => Only(k, row)[x] \in Policy
    BY <1>1, <2>1, Zenon
  <2>3. Legal(Update(Nothing, Nothing, Only(k, row), Nothing))
    BY <2>2, RowsLegal, Zenon
  <2> QED
    BY <1>1, <2>3, Zenon DEF PolicyCommit
<1>2. CASE PutPolicy(k)
  <2>1. PICK policy \in scope.policies :
          Commit("change", Update(Nothing, Nothing, Only(k, policy), Nothing))
    BY <1>2, Zenon DEF PutPolicy
  <2>2. policy \in Policy
    BY RenderingAssumption, Zenon DEF Tables, Policy
  <2> QED
    BY <1>1, <2>1, <2>2, Zenon
<1>3. CASE DeletePolicy(k)
  BY <1>1, <1>3, Zenon DEF DeletePolicy
<1> QED
  BY <1>2, <1>3, Zenon

\* The ids EvictNode hands out: one for each deployment it touches.
LEMMA EvictIds ==
  ASSUME Tables, NEW lost \in SUBSET DOMAIN cache.instances, NEW touched,
         touched = {cache.instances[i].dep : i \in lost}
  PROVE  /\ Cardinality(touched) \in Nat
         /\ \A d \in touched : /\ Cardinality({e \in touched : e <= d}) \in 1 .. Cardinality(touched)
<1>1. /\ issued \in Nat /\ \A i \in DOMAIN cache.instances : i \in 1 .. issued
      /\ \A i \in DOMAIN cache.instances : cache.instances[i] \in Instance
  BY Zenon DEF Tables, RowsOK, InstanceOK
<1>2. lost \in SUBSET (1 .. issued) /\ IsFiniteSet(1 .. issued)
  BY <1>1, FS_Interval
<1>3. IsFiniteSet(lost)
  BY <1>2, FS_Subset, Zenon
<1>4. [i \in lost |-> cache.instances[i].dep] \in Surjection(lost, touched)
  BY Zenon DEF Surjection
<1>5. IsFiniteSet(touched)
  BY <1>3, <1>4, FS_Surjection, Zenon
<1>6. Cardinality(touched) \in Nat
  BY <1>5, FS_CardinalityType, Zenon
<1>7. touched \subseteq Nat
  BY <1>1, Zenon DEF Instance
<1>8. ASSUME NEW d \in touched
      PROVE  Cardinality({e \in touched : e <= d}) \in 1 .. Cardinality(touched)
  <2> DEFINE S == {e \in touched : e <= d}
  <2>6. d \in Nat /\ d <= d
    BY <1>7
  <2>1. S \in SUBSET touched /\ S # {}
    BY <2>6, Zenon
  <2> HIDE DEF S
  <2>2. IsFiniteSet(S) /\ Cardinality(S) <= Cardinality(touched)
    BY <1>5, <2>1, FS_Subset, Zenon
  <2>3. Cardinality(S) \in Nat
    BY <2>2, FS_CardinalityType, Zenon
  <2>4. Cardinality(S) # 0
    BY <2>1, <2>2, FS_EmptySet, Zenon
  <2>5. Cardinality(S) \in 1 .. Cardinality(touched)
    BY <1>6, <2>2, <2>3, <2>4
  <2> QED
    BY <2>5, Zenon DEF S
<1> QED
  BY <1>6, <1>8, Zenon

\* EvictNode.
LEMMA EvictCommits ==
  ASSUME Tables, NEW n \in Nodes, EvictNode(n)
  PROVE  KeyCommit
<1> DEFINE gone == {d \in DOMAIN cache.current : cache.current[d].node = n
                                                   /\ cache.current[d].space = SystemSpace}
           lost == {i \in DOMAIN cache.instances : cache.instances[i].node = n}
           touched == {cache.instances[i].dep : i \in lost}
           current == Without(cache.current, gone)
           members == DOMAIN cache.nodes \ {n}
           kept == Without(cache.instances, lost)
           id(d) == issued + Cardinality({e \in touched : e <= d})
           rows(d) == Rescheduled(current, members, kept, d, {}, id(d))
           ended(i) == [cache.instances[i] EXCEPT !.state = "FINALIZED"]
           all == lost \cup (UNION {DOMAIN rows(d) : d \in touched})
           W == [i \in all |-> IF i \in lost THEN ended(i)
                               ELSE rows(CHOOSE d \in touched : i \in DOMAIN rows(d))[i]]
           D == [x \in gone |-> Gone]
           u == Update(D, Only(n, Gone), Nothing, W)
<1>1. n \in DOMAIN cache.nodes /\ Commit("change", u)
  BY Zenon DEF EvictNode
<1>2. /\ Cardinality(touched) \in Nat
      /\ \A d \in touched : Cardinality({e \in touched : e <= d}) \in 1 .. Cardinality(touched)
  <2>1. lost \in SUBSET DOMAIN cache.instances
    BY Zenon
  <2> QED
    BY <2>1, EvictIds, Zenon
<1>3. /\ issued \in Nat /\ \A i \in DOMAIN cache.instances : i \in 1 .. issued
      /\ \A d \in DOMAIN cache.current : Written(docs, d, cache.current[d])
      /\ \A i \in DOMAIN cache.instances : cache.instances[i].node \in DOMAIN cache.nodes
  BY Zenon DEF Tables, RowsOK, InstanceOK
<1>4. /\ DOMAIN D = gone /\ \A x \in gone : D[x] = Gone
      /\ DOMAIN Only(n, Gone) = {n} /\ Only(n, Gone)[n] = Gone /\ DOMAIN Nothing = {}
  BY OneRow, Zenon
<1>5. \A d \in gone : d \in Nat \ {0}
  <2>1. \A d \in DOMAIN cache.current : Numbered(docs, <<d, cache.current[d].version>>)
    BY <1>3, Zenon DEF Tables, DocsOK, Written
  <2> QED
    BY <2>1, Zenon DEF Numbered
<1>6. /\ DOMAIN kept = DOMAIN cache.instances \ lost
      /\ \A i \in DOMAIN kept : kept[i] = cache.instances[i]
  BY Zenon DEF Without, Restrict
<1>7. DOMAIN W = all /\ \A i \in lost : W[i] = ended(i)
  BY Zenon
<1>8. \A i \in all \ lost : \E d \in touched : i \in DOMAIN rows(d) /\ W[i] = rows(d)[i]
  BY Zenon
<1>9. \A d \in touched : id(d) \in Nat /\ id(d) > issued /\ id(d) <= issued + Cardinality(touched)
  <2>1. SUFFICES ASSUME NEW d \in touched
                 PROVE  id(d) \in Nat /\ id(d) > issued /\ id(d) <= issued + Cardinality(touched)
    BY Zenon
  <2> DEFINE z == Cardinality({e \in touched : e <= d})
  <2>2. z \in 1 .. Cardinality(touched)
    BY <1>2, Zenon
  <2> HIDE DEF touched, z
  <2>3. issued + z \in Nat /\ issued + z > issued /\ issued + z <= issued + Cardinality(touched)
    BY <1>2, <1>3, <2>2
  <2> QED
    BY <2>3, Zenon DEF z
<1>10. \A d : \A i \in DOMAIN rows(d) :
         \/ i = id(d) /\ Placing(current, members, d, rows(d)[i])
         \/ Ending(kept, i, rows(d)[i])
  <2> HIDE DEF current, members, kept, id
  <2> QED
    BY RescheduledRows
<1>11. u.docs = D /\ u.insts = W /\ u.nodes = Only(n, Gone) /\ u.policies = Nothing
  <2> HIDE DEF D, W
  <2> QED
    BY Zenon DEF Update
<1> HIDE DEF u, W, rows, all
<1>12. Fold(cache.current, D) = current
  <2> HIDE DEF D, gone
  <2> QED
    BY <1>4, FoldDeletes, Zenon
<1>13. DOMAIN Fold(cache.nodes, Only(n, Gone)) = members
  <2>1. \A x \in DOMAIN Only(n, Gone) : Only(n, Gone)[x] = Gone
    BY <1>4, Zenon
  <2>2. DOMAIN Fold(cache.nodes, Only(n, Gone)) = DOMAIN cache.nodes \ DOMAIN Only(n, Gone)
    BY <2>1, FoldDeletes, Zenon
  <2> QED
    BY <1>4, <2>2, Zenon
<1>14. DocRows(docs, u.docs) /\ FromScope(u)
  BY <1>4, <1>5, <1>11, Zenon DEF DocRows, FromScope
<1> HIDE DEF D, gone, current, members, kept, lost, touched, id
<1>15. ASSUME NEW i \in DOMAIN W
       PROVE  /\ \/ /\ i \notin DOMAIN cache.instances /\ i \in Nat /\ i > issued
                    /\ \E d : Placing(current, members, d, W[i])
                 \/ \E state \in LiveState \cup {"FINALIZED"} :
                      i \in DOMAIN cache.instances /\ W[i] = [cache.instances[i] EXCEPT !.state = state]
              /\ i <= issued + Cardinality(touched)
  <2>1. CASE i \in lost
    <3>1. i \in DOMAIN cache.instances
      BY <2>1, Zenon DEF lost
    <3>2. i <= issued + Cardinality(touched)
      BY <1>2, <1>3, <3>1
    <3> QED
      BY <1>7, <2>1, <3>1, <3>2, Zenon
  <2>2. CASE i \notin lost
    <3>1. PICK d \in touched : i \in DOMAIN rows(d) /\ W[i] = rows(d)[i]
      BY <1>7, <1>8, <2>2, Zenon
    <3>2. CASE i = id(d) /\ Placing(current, members, d, W[i])
      <4>1. i \in Nat /\ i > issued /\ i <= issued + Cardinality(touched)
        BY <1>9, <3>2, Zenon
      <4>2. i \notin DOMAIN cache.instances
        BY <1>3, <4>1
      <4> QED
        BY <3>2, <4>1, <4>2, Zenon
    <3>3. CASE Ending(kept, i, W[i])
      <4>1. i \in DOMAIN cache.instances /\ kept[i] = cache.instances[i]
        BY <1>6, <3>3, Zenon DEF Ending
      <4>2. PICK state \in {"TERMINATE", "FINALIZED"} : W[i] = [cache.instances[i] EXCEPT !.state = state]
        BY <3>3, <4>1, Zenon DEF Ending
      <4>3. state \in LiveState \cup {"FINALIZED"}
        BY Zenon DEF LiveState
      <4>4. i <= issued + Cardinality(touched)
        BY <1>2, <1>3, <4>1
      <4> QED
        BY <4>1, <4>2, <4>3, <4>4, Zenon
    <3> QED
      BY <1>10, <3>1, <3>2, <3>3, Zenon
  <2> QED
    BY <2>1, <2>2, Zenon
<1>16. Scheduled(cache, u, issued)
  <2>1. RowsOf(u, Fold(cache.current, u.docs), DOMAIN Fold(cache.nodes, u.nodes), issued)
    BY <1>11, <1>12, <1>13, <1>15, Zenon DEF RowsOf
  <2> QED
    BY <1>14, <2>1, ScheduledRows, Zenon DEF RowsOf, Tables
<1>17. \A i \in DOMAIN cache.instances : cache.instances[i].node \in members \/ i \in Final(u.insts)
  <2>1. ASSUME NEW i \in lost PROVE i \in Final(W)
    <3>1. i \in DOMAIN W /\ W[i] = ended(i)
      BY <1>7, Zenon DEF all
    <3>2. i \in DOMAIN cache.instances
      BY Zenon DEF lost
    <3>3. cache.instances[i] \in Instance
      BY <3>2, Zenon DEF Tables, RowsOK, InstanceOK
    <3>4. ended(i).state = "FINALIZED"
      BY <3>3, Zenon DEF Instance
    <3> QED
      BY <3>1, <3>4, Zenon DEF Final
  <2> QED
    BY <1>3, <1>11, <2>1, Zenon DEF lost, members
<1>18. CommitOK(docs, cache, u, issued)
  BY <1>4, <1>11, <1>13, <1>14, <1>16, <1>17, Zenon DEF CommitOK
<1>19. issued + Cardinality(touched) \in Nat /\ \A i \in DOMAIN u.insts : i <= issued + Cardinality(touched)
  BY <1>2, <1>3, <1>11, <1>15
<1>20. Legal(u)
  BY <1>14, <1>18, <1>19, Zenon DEF Legal
<1>21. Keys(cache.nodes, n) # Keys(Fold(cache.nodes, u.nodes), n)
  BY <1>1, <1>11, KeysFold
<1>22. n \in DOMAIN u.nodes
  BY <1>4, <1>11, Zenon
<1> QED
  BY <1>1, <1>20, <1>21, <1>22, Zenon DEF KeyCommit

\* Every step is a commit of one of four kinds.
LEMMA NextCommits ==
  ASSUME Tables, Next
  PROVE  WorkloadCommit \/ KeyCommit \/ ReportCommit \/ PolicyCommit
<1>1. CASE \E d \in DOMAIN scope.docs : Write(d) \/ Delete(d) \/ Stopped(d) \/ Promote(d)
  BY <1>1, WriteCommits, DeleteCommits, StoppedCommits, PromoteCommits, Zenon
<1>2. CASE \E i \in DOMAIN cache.instances : Drained(i)
  BY <1>2, DrainedCommits, Zenon
<1>3. CASE \E n \in Nodes : Report(n) \/ EvictNode(n) \/ Join(n)
  BY <1>3, ReportCommits, EvictCommits, JoinCommits, Zenon
<1>4. CASE \E k \in PolicyIds : PutPolicy(k) \/ DeletePolicy(k)
  BY <1>4, PolicyCommits, Zenon
<1> QED
  BY <1>1, <1>2, <1>3, <1>4, Zenon DEF Next

\* So a step keeps the tables.
LEMMA TablesStep ==
  ASSUME Tables, [Next]_<<vars, scope>>
  PROVE  Tables'
<1>1. CASE Next
  <2>1. PICK k, u : Commit(k, u) /\ Legal(u)
    BY <1>1, NextCommits, Zenon DEF WorkloadCommit, KeyCommit, ReportCommit, PolicyCommit
  <2>2. scope' = scope
    BY <1>1, Zenon DEF Next
  <2> QED
    BY <2>1, <2>2, CommitStep, Zenon
<1>2. CASE UNCHANGED <<vars, scope>>
  <2>1. scope' = scope /\ docs' = docs /\ cache' = cache /\ issued' = issued
    BY <1>2, Zenon DEF vars
  <2> QED
    BY <2>1, Zenon DEF Tables
<1> QED
  BY <1>1, <1>2, Zenon

\* A restart finds the cache the fold has made, and renders from it.
LEMMA Restart ==
  ASSUME Tables
  PROVE  /\ Seeded.cache = cache /\ Seeded.plan = renderIngressPlan(cache)
         /\ Seeded.maps = [n \in DOMAIN cache.nodes |->
                             renderNode(prepareRender(cache, renderIngressPlan(cache)), n)]
<1>1. seedVersions(cache) = Seed(docs, cache)
  BY Zenon DEF seedVersions, Seed, Entry, CurrentKeys, PinnedKeys, Pinning
<1>2. cache.versions = seedVersions(cache) /\ IsTable(cache) /\ "versions" \in DOMAIN cache
  BY <1>1, Zenon DEF Tables, RowsOK
<1>3. [cache EXCEPT !.versions = seedVersions(cache)] = cache
  BY <1>2, Zenon DEF IsTable
<1> QED
  BY <1>3, Zenon DEF Seeded, seedLocked

\* The first members have their netproxies: the table of documents.
LEMMA InitDocs ==
  ASSUME Init
  PROVE  /\ DocsOK(docs) /\ scope.members \subseteq Nodes /\ scope.addrs \in SUBSET Addresses
         /\ DOMAIN docs = {<<Netproxy(n), 1>> : n \in scope.members}
         /\ \A n \in scope.members : docs[<<Netproxy(n), 1>>] = netproxyDoc(n) /\ netproxyDoc(n) \in Version
<1> DEFINE M == scope.members
           K == {<<Netproxy(n), 1>> : n \in M}
<1>1. docs = [key \in K |-> netproxyDoc(key[1] - 100)] /\ scope \in Scopes
  BY Zenon DEF Init
<1>2. M \subseteq Nodes /\ scope.addrs \in SUBSET Addresses /\ Nodes \subseteq Nat \ {0}
  BY <1>1, RenderingAssumption, Zenon
<1>3. PICK last \in Nodes : \A n \in Nodes : n <= last
  BY RenderingAssumption, Zenon
<1>4. M \in SUBSET (1 .. last) /\ IsFiniteSet(1 .. last)
  <2>1. last \in Int /\ 1 \in Int
    BY <1>2, <1>3
  <2>2. IsFiniteSet(1 .. last)
    BY <2>1, FS_Interval, Zenon
  <2>3. ASSUME NEW n \in M PROVE n \in 1 .. last
    <3>1. n \in Nodes
      BY <1>2, Zenon
    <3>2. n \in Nat \ {0} /\ n <= last
      BY <1>2, <1>3, <3>1, Zenon
    <3> QED
      BY <2>1, <3>2
  <2> QED
    BY <2>2, <2>3, Zenon
<1>5. IsFiniteSet(M)
  BY <1>4, FS_Subset, Zenon
<1>6. [n \in M |-> <<Netproxy(n), 1>>] \in Surjection(M, K)
  BY Zenon DEF Surjection
<1>7. IsFiniteSet(K)
  BY <1>5, <1>6, FS_Surjection, Zenon
<1>8. ASSUME NEW n \in M
      PROVE  /\ docs[<<Netproxy(n), 1>>] = netproxyDoc(n)
             /\ netproxyDoc(n) \in Version /\ netproxyDoc(n).version = 1
             /\ Netproxy(n) \in Nat \ {0}
  <2>1. n \in Nat /\ n \in Nodes
    BY <1>2, Zenon
  <2>2. docs[<<Netproxy(n), 1>>] = netproxyDoc(Netproxy(n) - 100)
    BY <1>1, Zenon
  <2>3. Netproxy(n) - 100 = n /\ Netproxy(n) \in Nat \ {0}
    BY <2>1 DEF Netproxy
  <2>4. netproxyDoc(n) = [space |-> 0, node |-> n, name |-> "netproxy", virtual |-> TRUE,
                          listen |-> {}, strategy |-> "RECREATE", version |-> 1]
    BY Zenon DEF netproxyDoc, Stamped, doc, SystemSpace
  <2>5. netproxyDoc(n).version = 1
    BY <2>4
  <2>6. netproxyDoc(n) \in Version
    <3>1. {} \in SUBSET Addresses /\ "RECREATE" \in {"ROLLOVER", "RECREATE", "STOPPED"} /\ 0 \in Nat /\ 1 \in Nat
      BY Zenon
    <3> QED
      BY <2>1, <2>4, <3>1 DEF Version, Name
  <2> QED
    BY <2>2, <2>3, <2>5, <2>6, Zenon
<1>9. DOMAIN docs = K
  BY <1>1, Zenon
<1>10. ASSUME NEW key \in K
       PROVE  Numbered(docs, key)
  <2>1. PICK n \in M : key = <<Netproxy(n), 1>>
    BY Zenon
  <2>2. key \in (Nat \ {0}) \X Nat /\ docs[key] \in Version /\ docs[key].version = key[2]
        /\ key[1] = Netproxy(n) /\ key[2] = 1
    BY <1>8, <2>1, Zenon
  <2>3. VersionsOf(docs, Netproxy(n)) = {key}
    BY <1>9, <2>1 DEF VersionsOf
  <2>4. Cardinality(VersionsOf(docs, Netproxy(n))) = 1
    BY <2>3, FS_Singleton, Zenon
  <2>5. key[2] <= Cardinality(VersionsOf(docs, key[1]))
    BY <2>2, <2>4
  <2> QED
    BY <2>2, <2>5, Zenon DEF Numbered
<1>11. DocsOK(docs)
  BY <1>7, <1>9, <1>10, Zenon DEF DocsOK
<1> QED
  BY <1>2, <1>8, <1>9, <1>11, Zenon

\* The tables of Init.
First ==
  [nodes |-> [n \in scope.members |-> [key |-> 1, addrs |-> scope.addrs]],
   current |-> [d \in {Netproxy(n) : n \in scope.members} |-> docs[<<d, 1>>]],
   versions |-> Nothing,
   instances |-> [n \in scope.members |->
                    instance(Netproxy(n), docs[<<Netproxy(n), 1>>], "RUN_SERVING")],
   policies |-> Nothing]

\* seedLocked fills in the versions and keeps the rest.
LEMMA SeededFirst ==
  ASSUME Init
  PROVE  /\ cache.nodes = First.nodes /\ cache.current = First.current
         /\ cache.instances = First.instances /\ cache.policies = Nothing
         /\ cache.versions = seedVersions(First) /\ IsTable(cache)
         /\ DOMAIN cache = {"nodes", "current", "versions", "instances", "policies"}
         /\ plan = renderIngressPlan(cache)
         /\ maps = [n \in DOMAIN cache.nodes |-> renderNode(prepareRender(cache, plan), n)]
<1>1. cache = seedLocked(First).cache /\ plan = seedLocked(First).plan /\ maps = seedLocked(First).maps
  BY Zenon DEF Init, First
<1>2. /\ cache = [First EXCEPT !.versions = seedVersions(First)] /\ plan = renderIngressPlan(cache)
      /\ maps = [n \in DOMAIN First.nodes |-> renderNode(prepareRender(cache, plan), n)]
  BY <1>1, Zenon DEF seedLocked
<1>3. First.policies = Nothing /\ DOMAIN First = {"nodes", "current", "versions", "instances", "policies"}
  BY Zenon DEF First
<1>4. /\ cache.nodes = First.nodes /\ cache.current = First.current
      /\ cache.instances = First.instances /\ cache.policies = Nothing
      /\ cache.versions = seedVersions(First) /\ IsTable(cache)
      /\ DOMAIN cache = {"nodes", "current", "versions", "instances", "policies"}
  BY <1>2, <1>3, Zenon DEF IsTable
<1> QED
  BY <1>2, <1>4, Zenon

\* The first cache is the one loaded.
LEMMA InitTables ==
  ASSUME Init
  PROVE  Tables /\ Current
<1>1. /\ cache.nodes = First.nodes /\ cache.current = First.current
      /\ cache.instances = First.instances /\ cache.policies = Nothing
      /\ cache.versions = seedVersions(First) /\ IsTable(cache)
      /\ DOMAIN cache = {"nodes", "current", "versions", "instances", "policies"}
  BY SeededFirst, Zenon
<1>2. /\ DocsOK(docs) /\ scope.members \subseteq Nodes /\ scope.addrs \in SUBSET Addresses
      /\ DOMAIN docs = {<<Netproxy(n), 1>> : n \in scope.members}
      /\ \A n \in scope.members : docs[<<Netproxy(n), 1>>] = netproxyDoc(n) /\ netproxyDoc(n) \in Version
  BY InitDocs, Zenon
<1>3. scope \in Scopes /\ issued = Max(Nodes)
  BY Zenon DEF Init
<1>4. /\ DOMAIN First.nodes = scope.members
      /\ \A n \in scope.members : First.nodes[n] = [key |-> 1, addrs |-> scope.addrs]
  BY Zenon DEF First
<1>5. /\ DOMAIN First.current = {Netproxy(n) : n \in scope.members}
      /\ \A n \in scope.members : First.current[Netproxy(n)] = docs[<<Netproxy(n), 1>>]
  BY Zenon DEF First
<1>6. /\ DOMAIN First.instances = scope.members
      /\ \A n \in scope.members :
           First.instances[n] = instance(Netproxy(n), docs[<<Netproxy(n), 1>>], "RUN_SERVING")
  BY Zenon DEF First
<1>7. IsTable(First.nodes) /\ IsTable(First.current) /\ IsTable(First.instances) /\ IsTable(Nothing)
  BY Zenon DEF First, IsTable, Nothing
<1>8. cache.versions = Seed(docs, cache)
  <2>1. seedVersions(First) = Seed(docs, First)
    BY Zenon DEF seedVersions, Seed, Entry, CurrentKeys, PinnedKeys, Pinning
  <2>2. /\ CurrentKeys(cache) = CurrentKeys(First) /\ PinnedKeys(cache) = PinnedKeys(First)
        /\ \A key : Pinning(cache, key) = Pinning(First, key)
    BY <1>1, Zenon DEF CurrentKeys, PinnedKeys, Pinning
  <2>3. \A key : Entry(docs, cache, key) = Entry(docs, First, key)
    BY <2>2, Zenon DEF Entry
  <2>4. Seed(docs, cache) = Seed(docs, First)
    BY <2>2, <2>3, Zenon DEF Seed
  <2> QED
    BY <1>1, <2>1, <2>4, Zenon
<1>9. PICK last \in Nodes : \A n \in Nodes : n <= last
  BY RenderingAssumption, Zenon
<1>10. Nodes \in SUBSET Nat /\ Nodes # {} /\ last \in Nat /\ \A n \in Nodes : n \in Nat \ {0}
  BY <1>9, RenderingAssumption, Zenon
<1>11. issued \in Nat /\ \A n \in Nodes : n <= issued
  BY <1>3, <1>9, <1>10, MaxOf, Zenon
<1>12. ASSUME NEW n \in scope.members
       PROVE  n \in 1 .. issued /\ InstanceOK(docs, cache, First.instances[n])
  <2>0. n \in Nodes /\ n \in Nat \ {0} /\ n <= issued
    BY <1>2, <1>10, <1>11, Zenon
  <2>1. First.instances[n] = instance(Netproxy(n), netproxyDoc(n), "RUN_SERVING")
    BY <1>2, <1>6, Zenon
  <2>2. n \in 1 .. issued /\ Netproxy(n) \in Nat
    BY <1>11, <2>0 DEF Netproxy
  <2>3. netproxyDoc(n) \in Version /\ netproxyDoc(n).version = 1 /\ netproxyDoc(n).node = n
    BY <1>2, Zenon DEF netproxyDoc, Stamped, doc
  <2>4. /\ First.instances[n] \in Instance /\ First.instances[n].node = n
        /\ Key(First.instances[n]) = <<Netproxy(n), 1>>
        /\ First.instances[n].space = netproxyDoc(n).space
    BY <2>1, <2>2, <2>3 DEF instance, Instance, Version, LiveState, WantsRunning, Key
  <2>5. n \in DOMAIN cache.nodes
    BY <1>1, <1>4, Zenon
  <2>6. <<Netproxy(n), 1>> \in DOMAIN docs /\ docs[<<Netproxy(n), 1>>] = netproxyDoc(n)
    BY <1>2, Zenon
  <2> QED
    BY <2>2, <2>4, <2>5, <2>6, Zenon DEF InstanceOK
<1>13. ASSUME NEW n \in scope.members PROVE First.nodes[n] \in NodeRow
  BY <1>2, <1>4 DEF NodeRow
<1>14. ASSUME NEW n \in scope.members PROVE Written(docs, Netproxy(n), First.current[Netproxy(n)])
  <2>1. First.current[Netproxy(n)] = netproxyDoc(n) /\ <<Netproxy(n), 1>> \in DOMAIN docs
        /\ docs[<<Netproxy(n), 1>>] = netproxyDoc(n)
    BY <1>2, <1>5, Zenon
  <2>2. netproxyDoc(n).version = 1
    BY Zenon DEF netproxyDoc, Stamped
  <2> QED
    BY <2>1, <2>2, Zenon DEF Written
<1>15. \A d \in DOMAIN First.current : Written(docs, d, First.current[d])
  BY <1>5, <1>14, Zenon
<1>16. DOMAIN Nothing = {}
  BY Zenon DEF Nothing
<1>17. RowsOK(docs, cache, issued)
  BY <1>1, <1>2, <1>4, <1>6, <1>7, <1>11, <1>12, <1>13, <1>15, <1>16, Zenon DEF RowsOK
<1>18. Tables
  BY <1>2, <1>3, <1>8, <1>17, Zenon DEF Tables
<1>19. /\ plan = renderIngressPlan(cache)
       /\ maps = [n \in DOMAIN cache.nodes |-> renderNode(prepareRender(cache, plan), n)]
  BY SeededFirst, Zenon
<1> QED
  BY <1>18, <1>19, Restart, Zenon DEF Current

\* The publisher's cache is at every point what a restart would load from the
\* tables (applyLocked against seedLocked), whatever has been committed.
THEOREM AlwaysFolded == Spec => []Folded
<1>1. Init => Tables
  BY InitTables, Zenon
<1>2. Tables /\ [Next]_<<vars, scope>> => Tables'
  BY TablesStep, Zenon
<1>3. Tables => Folded
  BY Restart, Zenon DEF Folded
<1> QED
  BY <1>1, <1>2, <1>3, PTL DEF Spec
=============================================================================
