----------------------------- MODULE MapProofs -----------------------------
(***************************************************************************)
(* The maps, for every cluster in which no deployment moves to another     *)
(* space: at every point they are those a restart would render.  The rows  *)
(* of a commit (CacheProofs) change of the rendering only what its dirty   *)
(* set covers (RenderingProofs).                                           *)
(***************************************************************************)
EXTENDS RenderingProofs, CacheProofs

------------------------------------------------------------------------------
(* The maps after a commit.                                                 *)

\* No deployment of the scope changes its space.
Stays(s) ==
  \A d \in DOMAIN s.docs : \A r \in s.docs[d] :
    /\ \A q \in s.docs[d] : q.space = r.space
    /\ (\E n \in s.members : d = Netproxy(n)) => r.space = SystemSpace

\* Then every version of a deployment has the space of all others, written or not.
SpacesOK(t, s) ==
  \A key \in DOMAIN t :
    /\ \A other \in DOMAIN t : other[1] = key[1] => t[other].space = t[key].space
    /\ key[1] \in DOMAIN s.docs => \A r \in s.docs[key[1]] : r.space = t[key].space

\* The cache when the policies are looked up, and the parts of the dirty set.
Between(c, u) ==
  [applyDeployment(c, u.docs) EXCEPT !.nodes = Fold(@, u.nodes), !.policies = Fold(@, u.policies)]
PlanDirty(c, u) ==
  \/ \E d \in DOMAIN u.docs : deploymentPlanDirty(Row(c.current, d), Row(After(c, u).current, d))
  \/ \E n \in DOMAIN u.nodes : nodePlanDirty(Row(c.nodes, n), Row(After(c, u).nodes, n))
DirtyDocs(rc, c, u) ==
  UNION {dirtyDeployment(rc, c.policies, d, Row(c.current, d), Row(After(c, u).current, d)) : d \in DOMAIN u.docs}
DirtyNodes(c, u) ==
  UNION {dirtyNode(Row(c.nodes, n), Row(After(c, u).nodes, n)) : n \in DOMAIN u.nodes}
DirtyPolicies(rc, c, u) ==
  UNION {dirtyPolicy(rc, Between(c, u), Row(c.policies, k), Row(After(c, u).policies, k)) : k \in DOMAIN u.policies}
DirtyInstances(rc, u) == UNION {dirtyInstance(rc, u.insts[i]) : i \in DOMAIN u.insts}
Dirty(rc, c, u, pl, next) ==
  DirtyDocs(rc, c, u) \cup DirtyNodes(c, u) \cup DirtyPolicies(rc, c, u) \cup DirtyInstances(rc, u)
    \cup dirtyPlan(rc, pl, next)

\* A commit renders the nodes of D and keeps the maps of the others.
Rerenders(D, c, next) ==
  maps' = [n \in DOMAIN c.nodes \cap (D \cup DOMAIN maps) |->
             IF n \in D THEN renderNode(prepareRender(c, next), n) ELSE maps[n]]
NextPlan(c, u, pl) == IF PlanDirty(c, u) THEN renderIngressPlan(After(c, u)) ELSE pl

\* applyLocked in these terms.
LEMMA CommitMaps ==
  ASSUME NEW k, NEW u, Commit(k, u)
  PROVE  /\ plan' = IF PlanDirty(cache, u) THEN renderIngressPlan(cache') ELSE plan
         /\ Rerenders(Dirty(prepareRender(cache, plan), cache, u, plan, plan'), cache', plan')
<1>1. applyLocked(u)
  BY Zenon DEF Commit
<1>2. cache' = After(cache, u)
  BY <1>1, Zenon DEF applyLocked, After
<1>3. plan' = NextPlan(cache, u, plan)
  BY <1>1, Zenon DEF applyLocked, After, PlanDirty, NextPlan
<1>4. Rerenders(Dirty(prepareRender(cache, plan), cache, u, plan, NextPlan(cache, u, plan)),
                After(cache, u), NextPlan(cache, u, plan))
  BY <1>1, Zenon DEF applyLocked, After, PlanDirty, NextPlan, Rerenders, Between, Dirty, DirtyDocs, DirtyNodes,
                               DirtyPolicies, DirtyInstances
<1> QED
  BY <1>2, <1>3, <1>4, Zenon DEF NextPlan

\* What is current, in a state with these tables.
Rendering == maps = [n \in DOMAIN cache.nodes |-> renderNode(prepareRender(cache, plan), n)]
Planned == plan = renderIngressPlan(cache)

\* Given the tables, Current says that the plan and the maps are rendered from the cache.
LEMMA CurrentIs ==
  ASSUME Tables
  PROVE  Current <=> Planned /\ Rendering
<1>1. /\ Seeded.plan = renderIngressPlan(cache)
      /\ Seeded.maps = [n \in DOMAIN cache.nodes |->
                             renderNode(prepareRender(cache, renderIngressPlan(cache)), n)]
  BY Restart, Zenon
<1> QED
  BY <1>1, Zenon DEF Current, Rendering, Planned

\* The same after a step.
LEMMA CurrentNext == Tables' => (Current' <=> Planned' /\ Rendering')
<1>1. Tables => (Current <=> Planned /\ Rendering)
  BY CurrentIs, Zenon
<1> QED
  BY <1>1, PTL

\* The maps stay those of a restart when every node is dirty or keeps its map.
LEMMA MapsCurrent ==
  ASSUME Tables, Tables', Current, NEW k, NEW u, Commit(k, u), plan' = renderIngressPlan(cache'),
         \A n \in DOMAIN cache'.nodes :
           \/ n \in Dirty(prepareRender(cache, plan), cache, u, plan, plan')
           \/ /\ n \in DOMAIN cache.nodes
              /\ renderNode(prepareRender(cache', plan'), n) = renderNode(prepareRender(cache, plan), n)
  PROVE  Current'
<1> DEFINE D == Dirty(prepareRender(cache, plan), cache, u, plan, plan')
<1>1. Rendering
  BY CurrentIs, Zenon
<1>2. Rerenders(D, cache', plan')
  BY CommitMaps, Zenon
<1>3. DOMAIN maps = DOMAIN cache.nodes
      /\ \A n \in DOMAIN cache.nodes : maps[n] = renderNode(prepareRender(cache, plan), n)
  BY <1>1, Zenon DEF Rendering
<1>4. \A n \in DOMAIN cache'.nodes : n \in D \/ (n \in DOMAIN cache.nodes
              /\ renderNode(prepareRender(cache', plan'), n) = renderNode(prepareRender(cache, plan), n))
  OBVIOUS
<1> HIDE DEF D
<1>5. DOMAIN cache'.nodes \cap (D \cup DOMAIN maps) = DOMAIN cache'.nodes
  BY <1>3, <1>4
<1>6. \A n \in DOMAIN cache'.nodes : (IF n \in D THEN renderNode(prepareRender(cache', plan'), n) ELSE maps[n])
                                      = renderNode(prepareRender(cache', plan'), n)
  BY <1>3, <1>4, Zenon
<1>7. maps' = [n \in DOMAIN cache'.nodes |-> renderNode(prepareRender(cache', plan'), n)]
  BY <1>2, <1>5, <1>6, Zenon DEF Rerenders
<1>10. Rendering' /\ Planned'
  BY <1>7, Zenon DEF Rendering, Planned
<1> QED
  BY <1>10, CurrentNext, Zenon

\* The plan is the one of the tables: it is rendered again whenever a row it is
\* made from changes.
LEMMA PlanCurrent ==
  ASSUME Tables, Current, NEW k, NEW u, Commit(k, u), Legal(u), scope' = scope
  PROVE  plan' = renderIngressPlan(cache')
<1>1. plan' = IF PlanDirty(cache, u) THEN renderIngressPlan(cache') ELSE plan
  BY CommitMaps, Zenon
<1>2. CASE PlanDirty(cache, u)
  BY <1>1, <1>2
<1>3. CASE ~PlanDirty(cache, u)
  <2> DEFINE c == cache
             c3 == cache'
             cur == Fold(c.current, u.docs)
  <2>1. Committed(docs, cache, u, issued') /\ cache' = After(cache, u) /\ Tables'
    BY CommitStep, Zenon
  <2>2. c3.current = cur /\ c3.nodes = Fold(c.nodes, u.nodes) /\ IsTable(c.nodes) /\ IsTable(c3.nodes)
    BY <2>1, Zenon DEF Committed, Tables, RowsOK
  <2>3. /\ \A d \in DOMAIN u.docs : ~deploymentPlanDirty(Row(c.current, d), Row(cur, d))
        /\ \A n \in DOMAIN u.nodes : Row(c.nodes, n) = Row(Fold(c.nodes, u.nodes), n)
    BY <1>3, <2>1, <2>2, Zenon DEF PlanDirty, nodePlanDirty
  <2>4. ASSUME NEW d
        PROVE  /\ d \in DOMAIN cur <=> d \in DOMAIN c.current
               /\ d \in DOMAIN c.current =>
                    /\ cur[d].space = c.current[d].space /\ cur[d].node = c.current[d].node
                    /\ cur[d].virtual = c.current[d].virtual /\ cur[d].listen = c.current[d].listen
    <3>1. CASE d \notin DOMAIN u.docs
      BY <3>1, FoldFacts
    <3>2. CASE d \in DOMAIN u.docs
      <4> HIDE DEF cur, c
      <4>1. /\ {r.space : r \in Row(c.current, d)} = {r.space : r \in Row(cur, d)}
            /\ {ingressInput(r) : r \in Row(c.current, d)} = {ingressInput(r) : r \in Row(cur, d)}
        BY <2>3, <3>2, Zenon DEF deploymentPlanDirty, Moved
      <4>2. d \in DOMAIN cur <=> d \in DOMAIN c.current
        BY <4>1 DEF Row
      <4>3. ASSUME d \in DOMAIN c.current
            PROVE  cur[d].space = c.current[d].space /\ ingressInput(cur[d]) = ingressInput(c.current[d])
        <5>1. Row(c.current, d) = {c.current[d]} /\ Row(cur, d) = {cur[d]}
          BY <4>2, <4>3 DEF Row
        <5> QED
          BY <4>1, <5>1
      <4> QED
        BY <4>2, <4>3 DEF ingressInput
    <3> QED
      BY <3>1, <3>2
  <2>5. Fold(c.nodes, u.nodes) = c.nodes
    <3>1. ASSUME NEW n
          PROVE  /\ n \in DOMAIN Fold(c.nodes, u.nodes) <=> n \in DOMAIN c.nodes
                 /\ n \in DOMAIN c.nodes => Fold(c.nodes, u.nodes)[n] = c.nodes[n]
      <4>1. CASE n \notin DOMAIN u.nodes
        BY <4>1, FoldFacts
      <4>2. CASE n \in DOMAIN u.nodes
        BY <2>3, <4>2, Zenon DEF Row
      <4> QED
        BY <4>1, <4>2
    <3>2. DOMAIN Fold(c.nodes, u.nodes) = DOMAIN c.nodes
      BY <3>1
    <3> QED
      BY <2>2, <3>1, <3>2, Zenon DEF IsTable
  <2>6. renderIngressPlan(c3) = renderIngressPlan(c)
    <3>1. DOMAIN c3.current = DOMAIN c.current
      BY <2>2, <2>4
    <3> HIDE DEF c3, c, cur
    <3> QED
      BY <2>2, <2>4, <2>5, <3>1, PlanKept, Zenon
  <2> QED
    BY <1>1, <1>3, <2>6, CurrentIs, Zenon DEF Planned
<1> QED
  BY <1>2, <1>3

\* An instance is rendered with the version it was placed with.
Loaded(t, c, ids) == RowsOK(t, c, ids) /\ c.versions = Seed(t, c)
PlacedWith(t, c, i) ==
  /\ config(c, i) = t[Key(c.instances[i])] /\ Key(c.instances[i]) \in DOMAIN t
  /\ config(c, i).space = c.instances[i].space

\* Every live instance finds its version in the cache.
LEMMA ConfigIs ==
  ASSUME NEW t, NEW c, NEW ids, Loaded(t, c, ids), NEW i \in DOMAIN c.instances
  PROVE  PlacedWith(t, c, i)
<1>0. RowsOK(t, c, ids) /\ c.versions = Seed(t, c)
  BY Zenon DEF Loaded
<1>1. InstanceOK(t, c, c.instances[i])
  BY <1>0, Zenon DEF RowsOK
<1>2. Key(c.instances[i]) \in CurrentKeys(c) \cup PinnedKeys(c)
  BY DEF PinnedKeys
<1>3. Seed(t, c)[Key(c.instances[i])].doc = t[Key(c.instances[i])]
  BY <1>2 DEF Seed, Entry
<1>4. config(c, i) = t[Key(c.instances[i])]
  BY <1>0, <1>3, Zenon DEF config, Key
<1> QED
  BY <1>1, <1>4, Zenon DEF InstanceOK, PlacedWith

\* Versions stay in one space when the scope's do.
LEMMA SpacesStep ==
  ASSUME Tables, NEW k, NEW u, Commit(k, u), Legal(u), scope' = scope, Stays(scope), SpacesOK(docs, scope)
  PROVE  SpacesOK(docs', scope)
<1> DEFINE T == docs'
<1>1. docs' = Table(docs, u.docs)
  BY CommitStep, Zenon
<1>2. DocsOK(docs) /\ DocRows(docs, u.docs) /\ FromScope(u)
  BY Zenon DEF Tables, Legal, CommitOK
<1>3. /\ DOMAIN T = DOMAIN docs \cup NewKeys(u.docs)
      /\ \A key \in DOMAIN docs : T[key] = docs[key]
      /\ \A d \in DOMAIN u.docs : u.docs[d] # Gone => Written(T, d, u.docs[d])
  BY <1>1, <1>2, TableFacts, Zenon
<1>4. ASSUME NEW key \in DOMAIN T
      PROVE  \/ key \in DOMAIN docs /\ T[key] = docs[key]
             \/ \E d \in DOMAIN u.docs : /\ u.docs[d] # Gone /\ key = <<d, u.docs[d].version>>
                                         /\ T[key] = u.docs[d]
  BY <1>3 DEF NewKeys, Written
<1> HIDE DEF T
<1>5. ASSUME NEW key \in DOMAIN T, key[1] \in DOMAIN scope.docs, NEW r \in scope.docs[key[1]]
      PROVE  r.space = T[key].space
  <2>1. CASE key \in DOMAIN docs /\ T[key] = docs[key]
    BY <1>5, <2>1 DEF SpacesOK
  <2>2. CASE \E d \in DOMAIN u.docs : /\ u.docs[d] # Gone /\ key = <<d, u.docs[d].version>>
                                      /\ T[key] = u.docs[d]
    <3>1. PICK d \in DOMAIN u.docs : /\ u.docs[d] # Gone /\ key = <<d, u.docs[d].version>>
                                     /\ T[key] = u.docs[d]
      BY <2>2
    <3>2. PICK new \in scope.docs[d] : u.docs[d].space = new.space
      BY <1>2, <3>1 DEF FromScope
    <3>3. key[1] = d
      BY <3>1
    <3> QED
      BY <1>5, <3>1, <3>2, <3>3, SMTT(20) DEF Stays
  <2> QED
    BY <1>4, <2>1, <2>2, SMTT(20)
<1>6. ASSUME NEW key \in DOMAIN T, key \notin DOMAIN docs
      PROVE  \E new : key[1] \in DOMAIN scope.docs /\ new \in scope.docs[key[1]]
  <2>1. PICK d \in DOMAIN u.docs : u.docs[d] # Gone /\ key = <<d, u.docs[d].version>>
    BY <1>4, <1>6
  <2>2. key[1] = d
    BY <2>1
  <2> QED
    BY <1>2, <2>1, <2>2, SMTT(20) DEF FromScope
<1>7. ASSUME NEW key \in DOMAIN T, NEW other \in DOMAIN T, other[1] = key[1]
      PROVE  T[other].space = T[key].space
  <2>1. CASE key \in DOMAIN docs /\ other \in DOMAIN docs
    BY <1>3, <1>7, <2>1, SMTT(20) DEF SpacesOK, T
  <2>2. CASE key \notin DOMAIN docs \/ other \notin DOMAIN docs
    <3>1. PICK new : key[1] \in DOMAIN scope.docs /\ new \in scope.docs[key[1]]
      BY <1>6, <1>7, <2>2
    <3> QED
      BY <1>5, <1>7, <3>1, SMTT(20)
  <2> QED
    BY <2>1, <2>2, SMTT(20)
<1>8. SpacesOK(T, scope)
  BY <1>5, <1>7, Zenon DEF SpacesOK
<1> QED
  BY <1>8 DEF T

\* A node that joins, leaves or takes another key makes every map dirty.
LEMMA KeyCurrent ==
  ASSUME Tables, Current, KeyCommit, scope' = scope
  PROVE  Current'
<1>1. PICK k, u : /\ Commit(k, u) /\ Legal(u)
                  /\ \E n \in DOMAIN u.nodes : Keys(cache.nodes, n) # Keys(Fold(cache.nodes, u.nodes), n)
  BY Zenon DEF KeyCommit
<1>2. PICK n \in DOMAIN u.nodes : Keys(cache.nodes, n) # Keys(Fold(cache.nodes, u.nodes), n)
  BY <1>1
<1>3. Committed(docs, cache, u, issued') /\ cache' = After(cache, u) /\ Tables'
  BY <1>1, CommitStep, Zenon
<1>4. After(cache, u).nodes = Fold(cache.nodes, u.nodes) /\ DOMAIN cache'.nodes \subseteq Nodes
  BY <1>3, Zenon DEF Committed, Tables, RowsOK
<1>5. dirtyNode(Row(cache.nodes, n), Row(After(cache, u).nodes, n)) = Nodes
  BY <1>2, <1>4, Zenon DEF dirtyNode, Keys
<1>6. Nodes \subseteq DirtyNodes(cache, u)
  BY <1>5, Zenon DEF DirtyNodes
<1>7. \A m \in DOMAIN cache'.nodes : m \in Dirty(prepareRender(cache, plan), cache, u, plan, plan')
  BY <1>4, <1>6, Zenon DEF Dirty
<1>8. plan' = renderIngressPlan(cache')
  BY <1>1, PlanCurrent, Zenon
<1> QED
  BY <1>1, <1>3, <1>7, <1>8, MapsCurrent, Zenon

\* A commit that writes no policy and leaves the members and their keys.
Plain(u) == u.policies = Nothing /\ Joined(After(cache, u), plan) = Joined(cache, plan)

\* The rows of a plain commit, before and after it, are of written versions in one space.
Versioned(t, x) == <<x.dep, x.version>> \in DOMAIN t /\ t[<<x.dep, x.version>>].space = x.space

\* The instances after a commit are those before it but for its rows.
LEMMA InstancesStep ==
  ASSUME Tables, NEW k, NEW u, Commit(k, u), Legal(u), scope' = scope
  PROVE  InstancesBut(cache, cache', u.insts)
<1> DEFINE W == u.insts
           T == docs'
           new == cache'.instances
<1>1. Committed(docs, cache, u, issued') /\ cache' = After(cache, u) /\ docs' = Table(docs, u.docs) /\ Tables'
  BY CommitStep, Zenon
<1>2. new = Over(Without(W, Final(W)), Without(cache.instances, Final(W)))
  BY <1>1, Zenon DEF Committed
<1>3. /\ \A i : i \in DOMAIN new <=> i \in (DOMAIN W \cup DOMAIN cache.instances) \ Final(W)
      /\ \A i \in DOMAIN new : new[i] = IF i \in DOMAIN W THEN W[i] ELSE cache.instances[i]
  <2> DEFINE x == cache.instances
  <2>1. \A y : y = Over(Without(W, Final(W)), Without(x, Final(W))) =>
          /\ \A i : i \in DOMAIN y <=> i \in (DOMAIN W \cup DOMAIN x) \ Final(W)
          /\ \A i \in DOMAIN y : y[i] = IF i \in DOMAIN W THEN W[i] ELSE x[i]
    <3> HIDE DEF W, x
    <3> QED
      BY InstancesAfter, Zenon
  <2> HIDE DEF new, W, x
  <2>2. new = Over(Without(W, Final(W)), Without(x, Final(W)))
    BY <1>2, Zenon DEF x
  <2>3. /\ \A i : i \in DOMAIN new <=> i \in (DOMAIN W \cup DOMAIN x) \ Final(W)
        /\ \A i \in DOMAIN new : new[i] = IF i \in DOMAIN W THEN W[i] ELSE x[i]
    BY <2>1, <2>2, Zenon
  <2> QED
    BY <2>3, Zenon DEF x
<1>4. DocRows(docs, u.docs) /\ DocsOK(docs) /\ Scheduled(cache, u, issued)
  BY Zenon DEF Legal, CommitOK, Tables
<1>5. \A key \in DOMAIN docs : T[key] = docs[key]
  BY <1>1, <1>4, TableFacts, Zenon
<1>6. \A i \in DOMAIN W : i \in DOMAIN cache.instances => SamePlace(W[i], cache.instances[i])
  BY <1>4, Zenon DEF Scheduled
<1>7. ASSUME NEW i \in DOMAIN cache.instances \cap DOMAIN new
      PROVE  config(cache', i) = config(cache, i)
  <2>0. i \in DOMAIN cache.instances /\ i \in DOMAIN cache'.instances
    BY <1>7
  <2>1. config(cache, i) = docs[Key(cache.instances[i])] /\ Key(cache.instances[i]) \in DOMAIN docs
    <3>1. Loaded(docs, cache, issued)
      BY Zenon DEF Tables, Loaded
    <3>2. PlacedWith(docs, cache, i)
      BY <2>0, <3>1, ConfigIs, Zenon
    <3> QED
      BY <3>2, Zenon DEF PlacedWith
  <2>2. config(cache', i) = docs'[Key(cache'.instances[i])]
    <3>1. Loaded(docs', cache', issued')
      BY <1>1, Zenon DEF Tables, Loaded
    <3>2. PlacedWith(docs', cache', i)
      BY <2>0, <3>1, ConfigIs, Zenon
    <3> QED
      BY <3>2, Zenon DEF PlacedWith
  <2>3. Key(new[i]) = Key(cache.instances[i])
    BY <1>3, <1>6, <1>7 DEF Key, SamePlace
  <2> QED
    BY <1>5, <2>1, <2>2, <2>3, Zenon
<1>8. Final(W) \subseteq DOMAIN W
  BY DEF Final
<1>9. \A i : i \notin DOMAIN W => (i \in DOMAIN cache.instances <=> i \in DOMAIN new)
  BY <1>3, <1>8
<1>10. \A i \in DOMAIN cache.instances \cap DOMAIN new : i \notin DOMAIN W => new[i] = cache.instances[i]
  BY <1>3
<1>11. \A i \in DOMAIN W :
         /\ i \in DOMAIN cache.instances
              => cache.instances[i].node = W[i].node /\ cache.instances[i].dep = W[i].dep
         /\ i \in DOMAIN new => new[i].node = W[i].node /\ new[i].dep = W[i].dep
  BY <1>3, <1>6 DEF SamePlace
<1> QED
  BY <1>7, <1>9, <1>10, <1>11, Zenon DEF InstancesBut

\* Rows, instances and published documents are of written versions.
LEMMA VersionedStep ==
  ASSUME Tables, Current, NEW k, NEW u, Commit(k, u), Legal(u), scope' = scope
  PROVE  /\ \A i \in DOMAIN cache.instances :
              Versioned(docs', cache.instances[i]) /\ config(cache, i).space = cache.instances[i].space
         /\ \A i \in DOMAIN cache'.instances :
              Versioned(docs', cache'.instances[i]) /\ config(cache', i).space = cache'.instances[i].space
         /\ \A j \in DOMAIN u.insts : Versioned(docs', u.insts[j])
         /\ \A m \in Nodes : \A d \in plan.published[m] :
              \E key \in DOMAIN docs' : key[1] = d /\ docs'[key].space # SystemSpace
<1> DEFINE T == docs'
           W == u.insts
<1>1. Committed(docs, cache, u, issued') /\ cache' = After(cache, u) /\ docs' = Table(docs, u.docs) /\ Tables'
  BY CommitStep, Zenon
<1>2. DocRows(docs, u.docs) /\ DocsOK(docs) /\ Scheduled(cache, u, issued)
  BY Zenon DEF Legal, CommitOK, Tables
<1>3. DOMAIN docs \subseteq DOMAIN T /\ \A key \in DOMAIN docs : T[key] = docs[key]
  <2>1. DOMAIN Table(docs, u.docs) = DOMAIN docs \cup NewKeys(u.docs)
        /\ \A key \in DOMAIN docs : Table(docs, u.docs)[key] = docs[key]
    BY <1>2, TableFacts, Zenon
  <2> QED
    BY <1>1, <2>1
<1>4. ASSUME NEW i \in DOMAIN cache.instances
      PROVE  Versioned(T, cache.instances[i]) /\ config(cache, i).space = cache.instances[i].space
  <2>1. /\ config(cache, i) = docs[Key(cache.instances[i])] /\ Key(cache.instances[i]) \in DOMAIN docs
        /\ config(cache, i).space = cache.instances[i].space
    <3>1. Loaded(docs, cache, issued)
      BY Zenon DEF Tables, Loaded
    <3>2. PlacedWith(docs, cache, i)
      BY <3>1, ConfigIs, Zenon
    <3> QED
      BY <3>2, Zenon DEF PlacedWith
  <2> QED
    BY <1>3, <2>1, Zenon DEF Versioned, Key
<1>5. ASSUME NEW i \in DOMAIN cache'.instances
      PROVE  Versioned(T, cache'.instances[i]) /\ config(cache', i).space = cache'.instances[i].space
  <2>1. /\ config(cache', i) = docs'[Key(cache'.instances[i])] /\ Key(cache'.instances[i]) \in DOMAIN docs'
        /\ config(cache', i).space = cache'.instances[i].space
    <3>1. Loaded(docs', cache', issued')
      BY <1>1, Zenon DEF Tables, Loaded
    <3>2. PlacedWith(docs', cache', i)
      BY <3>1, ConfigIs, Zenon
    <3> QED
      BY <3>2, Zenon DEF PlacedWith
  <2> QED
    BY <2>1, Zenon DEF Versioned, Key
<1>6. ASSUME NEW j \in DOMAIN W
      PROVE  Versioned(T, W[j])
  <2>1. CASE j \in DOMAIN cache.instances
    <3>1. SamePlace(W[j], cache.instances[j])
      BY <1>2, <2>1, ZenonT(40) DEF Scheduled
    <3> QED
      BY <1>4, <2>1, <3>1 DEF SamePlace, Versioned
  <2>2. CASE j \notin DOMAIN cache.instances
    <3>1. PlacedOn(W[j], Fold(cache.current, u.docs), DOMAIN Fold(cache.nodes, u.nodes))
      BY <1>2, <2>2, Zenon DEF Scheduled
    <3>2. Written(T, W[j].dep, Fold(cache.current, u.docs)[W[j].dep])
      BY <1>1, <1>2, <3>1, CurrentWritten, Zenon DEF Tables, PlacedOn
    <3> QED
      BY <3>1, <3>2 DEF PlacedOn, Written, Versioned
  <2> QED
    BY <2>1, <2>2
<1>7. ASSUME NEW m \in Nodes, NEW d \in plan.published[m]
      PROVE  \E key \in DOMAIN T : key[1] = d /\ T[key].space # SystemSpace
  <2>1. plan = renderIngressPlan(cache)
    BY CurrentIs, Zenon DEF Planned
  <2>2. plan.published[m] = Listeners(cache, m)
    BY <2>1 DEF renderIngressPlan
  <2>3. d \in DOMAIN cache.current /\ cache.current[d].space # SystemSpace
    BY <1>7, <2>2 DEF Listeners
  <2>4. Written(docs, d, cache.current[d])
    BY <2>3, Zenon DEF Tables, RowsOK
  <2>5. <<d, cache.current[d].version>> \in DOMAIN T /\ T[<<d, cache.current[d].version>>] = cache.current[d]
    BY <1>3, <2>4 DEF Written
  <2>6. <<d, cache.current[d].version>>[1] = d
    OBVIOUS
  <2> QED
    BY <2>3, <2>5, <2>6, Zenon
<1> QED
  BY <1>4, <1>5, <1>6, <1>7, Zenon

\* A commit that moves no peer of a policy leaves the rules as they are.
LEMMA PlainRules ==
  ASSUME Tables, NEW k, NEW u, Commit(k, u), Legal(u), scope' = scope, u.policies = Nothing,
         \A d \in DOMAIN u.docs : ~ (/\ Moved(Row(cache.current, d), Row(cache'.current, d))
                                     /\ policyReferences(cache.policies, d))
  PROVE  renderPolicyRules(cache') = renderPolicyRules(cache)
<1>1. Committed(docs, cache, u, issued') /\ cache' = After(cache, u)
  BY CommitStep, Zenon
<1>2. cache'.current = Fold(cache.current, u.docs) /\ cache'.policies = cache.policies
  <2>1. IsTable(cache.policies)
    BY Zenon DEF Tables, RowsOK
  <2> QED
    BY <1>1, <2>1, TablesMade, Zenon DEF Committed
<1>3. ASSUME NEW d, d \notin DOMAIN u.docs \/ policyReferences(cache.policies, d)
      PROVE  /\ d \in DOMAIN cache'.current <=> d \in DOMAIN cache.current
             /\ d \in DOMAIN cache.current => cache'.current[d].space = cache.current[d].space
  <2>1. CASE d \notin DOMAIN u.docs
    BY <1>2, <2>1, FoldFacts, SMTT(20)
  <2>2. CASE d \in DOMAIN u.docs
    <3>1. {r.space : r \in Row(cache.current, d)} = {r.space : r \in Row(cache'.current, d)}
      BY <1>3, <2>2, Zenon DEF Moved
    <3>2. d \in DOMAIN cache'.current <=> d \in DOMAIN cache.current
      BY <3>1 DEF Row
    <3>3. ASSUME d \in DOMAIN cache.current
          PROVE  cache'.current[d].space = cache.current[d].space
      <4>1. Row(cache.current, d) = {cache.current[d]} /\ Row(cache'.current, d) = {cache'.current[d]}
        BY <3>2, <3>3 DEF Row
      <4> QED
        BY <3>1, <4>1
    <3> QED
      BY <3>2, <3>3
  <2> QED
    BY <2>1, <2>2
<1>4. ASSUME NEW j \in DOMAIN cache.policies,
             NEW peer \in {cache.policies[j].source, cache.policies[j].destination}
      PROVE  /\ Resolves(cache', peer) <=> Resolves(cache, peer)
             /\ Resolves(cache, peer) => resolvePolicyPeer(cache', peer) = resolvePolicyPeer(cache, peer)
  <2>1. policyReferences(cache.policies, peer.dep)
    BY DEF policyReferences
  <2>2. /\ peer.dep \in DOMAIN cache'.current <=> peer.dep \in DOMAIN cache.current
        /\ peer.dep \in DOMAIN cache.current => cache'.current[peer.dep].space = cache.current[peer.dep].space
    BY <1>3, <2>1, Zenon
  <2> QED
    BY <2>2, Zenon DEF Resolves, resolvePolicyPeer
<1> DEFINE c == cache
           c2 == cache'
<1>5. /\ c2.policies = c.policies
      /\ \A j \in DOMAIN c.policies : \A peer \in {c.policies[j].source, c.policies[j].destination} :
        /\ Resolves(c2, peer) <=> Resolves(c, peer)
        /\ Resolves(c, peer) => resolvePolicyPeer(c2, peer) = resolvePolicyPeer(c, peer)
  BY <1>2, <1>4
<1> HIDE DEF c, c2
<1>6. renderPolicyRules(c2) = renderPolicyRules(c)
  BY <1>5, RulesKept, Zenon
<1> QED
  BY <1>6 DEF c, c2

\* What a plain commit changes of the rendering, under the old plan.
LEMMA PlainRows ==
  ASSUME Tables, Current, NEW k, NEW u, Commit(k, u), Legal(u), scope' = scope, Plain(u),
         SpacesOK(docs', scope), renderPolicyRules(cache') = renderPolicyRules(cache)
  PROVE  InstanceRows(prepareRender(cache, plan), prepareRender(cache', plan), Range(u.insts))
<1> DEFINE W == u.insts
           T == docs'
           c == cache
           c2 == cache'
<1>1. InstancesBut(c, c2, W)
  BY InstancesStep, Zenon
<1>2. /\ \A i \in DOMAIN c.instances : Versioned(T, c.instances[i]) /\ config(c, i).space = c.instances[i].space
      /\ \A i \in DOMAIN c2.instances : Versioned(T, c2.instances[i]) /\ config(c2, i).space = c2.instances[i].space
      /\ \A j \in DOMAIN W : Versioned(T, W[j])
      /\ \A m \in Nodes : \A d \in plan.published[m] :
           \E key \in DOMAIN T : key[1] = d /\ T[key].space # SystemSpace
  BY VersionedStep, Zenon
<1>3. \A x, y : Versioned(T, x) /\ Versioned(T, y) /\ x.dep = y.dep => x.space = y.space
  BY DEF SpacesOK, Versioned
<1>4. Tables' /\ c2 = After(c, u)
  BY CommitStep, Zenon
<1>5. \A i \in DOMAIN c.instances : i \in Nat
  BY DEF Tables, RowsOK
<1>6. \A i \in DOMAIN c2.instances : i \in Nat
  BY <1>4 DEF Tables, RowsOK
<1>7. Joined(c2, plan) = Joined(c, plan)
  BY <1>4, Zenon DEF Plain
<1>8. renderPolicyRules(c2) = renderPolicyRules(c)
  OBVIOUS
<1>9. \A x, key : Versioned(T, x) /\ key \in DOMAIN T /\ key[1] = x.dep => T[key].space = x.space
  BY DEF SpacesOK, Versioned
<1> HIDE DEF W, T, c, c2
<1>10. SpaceAs(c, W) /\ SpaceAs(c2, W)
  <2>1. ASSUME NEW i \in DOMAIN c.instances, NEW j \in DOMAIN W, c.instances[i].dep = W[j].dep
        PROVE  config(c, i).space = W[j].space
    BY <1>2, <1>3, <2>1, SMTT(20)
  <2>2. ASSUME NEW i \in DOMAIN c2.instances, NEW j \in DOMAIN W, c2.instances[i].dep = W[j].dep
        PROVE  config(c2, i).space = W[j].space
    BY <1>2, <1>3, <2>2, SMTT(20)
  <2> QED
    BY <2>1, <2>2, Zenon DEF SpaceAs
<1>11. Ordered(c) /\ Ordered(c2)
  BY <1>5, <1>6, MinOf, SMTT(20) DEF Ordered
<1>12. \A j \in DOMAIN W : W[j].space = SystemSpace => \A m \in Nodes : W[j].dep \notin plan.published[m]
  <2>1. ASSUME NEW j \in DOMAIN W, NEW m \in Nodes, W[j].dep \in plan.published[m]
        PROVE  W[j].space # SystemSpace
    <3>1. PICK key \in DOMAIN T : key[1] = W[j].dep /\ T[key].space # SystemSpace
      BY <1>2, <2>1
    <3> QED
      BY <1>2, <1>9, <3>1, SMTT(20)
  <2> QED
    BY <2>1, Zenon
<1>13. InstanceRows(prepareRender(c, plan), prepareRender(c2, plan), Range(W))
  BY <1>1, <1>7, <1>8, <1>10, <1>11, <1>12, RowsRendered, Zenon
<1> QED
  BY <1>13 DEF c, c2, W

\* The nodes outside the dirty set of a new plan.
LEMMA CleanOfPlan ==
  ASSUME NEW rc, NEW pl, NEW next, NEW n, n \notin dirtyPlan(rc, pl, next), NEW m \in Nodes
  PROVE  /\ pl.publish[m] # next.publish[m] => n \notin nodesSeeing(rc, m)
         /\ pl.published[m] # next.published[m]
              => n # m /\ n \notin hostsOf(rc, pl.published[m] \cup next.published[m])
<1> DEFINE A == {x \in Nodes : pl.publish[x] # next.publish[x]}
           B == {x \in Nodes : pl.published[x] # next.published[x]}
<1>1. /\ n \notin UNION {nodesSeeing(rc, x) : x \in A}
      /\ n \notin UNION {{x} \cup hostsOf(rc, pl.published[x] \cup next.published[x]) : x \in B}
  BY Zenon DEF dirtyPlan
<1>2. /\ pl.publish[m] # next.publish[m] => m \in A
      /\ pl.published[m] # next.published[m] => m \in B
  BY Zenon
<1> HIDE DEF A, B
<1>3. m \in A => n \notin nodesSeeing(rc, m)
  BY <1>1, Zenon
<1>4. m \in B => n \notin {m} \cup hostsOf(rc, pl.published[m] \cup next.published[m])
  BY <1>1, Zenon
<1> QED
  BY <1>2, <1>3, <1>4, Zenon

\* A node that a plain commit leaves clean keeps its map.
LEMMA PlainKept ==
  ASSUME Tables, Current, NEW k, NEW u, Commit(k, u), Legal(u), scope' = scope, Plain(u),
         SpacesOK(docs', scope), NEW n \in Nodes,
         n \notin Dirty(prepareRender(cache, plan), cache, u, plan, plan')
  PROVE  renderNode(prepareRender(cache', plan'), n) = renderNode(prepareRender(cache, plan), n)
<1> DEFINE rc == prepareRender(cache, plan)
           mid == prepareRender(cache', plan)
           new == prepareRender(cache', plan')
           W == u.insts
<1>1. /\ n \notin DirtyDocs(rc, cache, u) /\ n \notin DirtyInstances(rc, u)
      /\ n \notin dirtyPlan(rc, plan, plan')
  BY Zenon DEF Dirty
<1>2. cache' = After(cache, u) /\ Tables'
  BY CommitStep, Zenon
<1>3. \A d \in DOMAIN u.docs : ~ (/\ Moved(Row(cache.current, d), Row(cache'.current, d))
                                  /\ policyReferences(cache.policies, d))
  BY <1>1, <1>2, Zenon DEF DirtyDocs, dirtyDeployment
<1>4. renderPolicyRules(cache') = renderPolicyRules(cache)
  BY <1>3, PlainRules, Zenon DEF Plain
<1>5. InstanceRows(rc, mid, Range(W))
  BY <1>4, PlainRows, Zenon
<1>6. \A i \in Range(W) : n \notin dirtyInstance(rc, i)
  BY <1>1, Zenon DEF DirtyInstances, Range
<1>7. /\ mid.placements = Placed(cache') /\ new.placements = Placed(cache')
      /\ mid.services = new.services /\ mid.rules = new.rules
      /\ mid.nodes = Joined(cache', plan) /\ new.nodes = Joined(cache', plan')
      /\ mid.published = plan.published /\ new.published = plan'.published
  BY Rendered, Zenon
<1>8. /\ \A m \in Nodes : plan.publish[m] # plan'.publish[m] => n \notin nodesSeeing(rc, m)
      /\ \A m \in Nodes : plan.published[m] # plan'.published[m]
           => n # m /\ n \notin hostsOf(rc, plan.published[m] \cup plan'.published[m])
  <2> HIDE DEF rc
  <2> QED
    BY <1>1, CleanOfPlan, Zenon
<1>9. ASSUME NEW p \in Placed(cache')
      PROVE  p.node \in Nodes /\ (p.dep \in plan.published[n] => p.space # SystemSpace)
  <2>1. PICK i \in Wanted(cache') : p = Placement(cache', i)
    BY Zenon DEF Placed
  <2>2. i \in DOMAIN cache'.instances
    BY DEF Wanted, Virtual
  <2>3. /\ p.node = cache'.instances[i].node /\ p.dep = cache'.instances[i].dep
        /\ p.space = config(cache', i).space
    BY <2>1, PlacementFields, Zenon
  <2>4. cache'.instances[i] \in Instance
    BY <1>2, <2>2, Zenon DEF Tables, RowsOK, InstanceOK
  <2>5. /\ Versioned(docs', cache'.instances[i]) /\ config(cache', i).space = cache'.instances[i].space
        /\ \A d \in plan.published[n] : \E key \in DOMAIN docs' : key[1] = d /\ docs'[key].space # SystemSpace
    BY <2>2, VersionedStep, Zenon
  <2>6. p.node \in Nodes
    BY <2>3, <2>4 DEF Instance
  <2> QED
    BY <2>3, <2>5, <2>6 DEF SpacesOK, Versioned
<1> HIDE DEF rc, mid, new, W
<1>10. renderNode(mid, n) = renderNode(rc, n)
  BY <1>5, <1>6, InstanceDirty, Zenon
<1>11. On(mid, n) = On(rc, n)
  BY <1>5, <1>6, HostedKept, Zenon
<1>12. \A m : n \in nodesSeeing(mid, m) => n \in nodesSeeing(rc, m)
  BY <1>5, <1>6, SeeingKept, Zenon
<1>13. \A D : n \in hostsOf(mid, D) => n \in hostsOf(rc, D)
  BY <1>11 DEF hostsOf, Of, On
<1>14. /\ DOMAIN mid.nodes = DOMAIN new.nodes
       /\ \A m \in DOMAIN mid.nodes : new.nodes[m] # mid.nodes[m] => plan.publish[m] # plan'.publish[m]
  BY <1>7 DEF Joined
<1>15. renderNode(new, n) = renderNode(mid, n)
  <2>1. \A p \in mid.placements : p.node \in Nodes /\ (p.dep \in mid.published[n] => p.space # SystemSpace)
    BY <1>7, <1>9, Zenon
  <2>2. \A m \in Nodes \cap DOMAIN mid.nodes : new.nodes[m] # mid.nodes[m] => n \notin nodesSeeing(mid, m)
    BY <1>8, <1>12, <1>14, Zenon
  <2>3. \A m \in Nodes : new.published[m] # mid.published[m]
          => n # m /\ n \notin hostsOf(mid, mid.published[m] \cup new.published[m])
    BY <1>7, <1>8, <1>13, Zenon
  <2> QED
    BY <1>7, <1>14, <2>1, <2>2, <2>3, PublishDirty, Zenon
<1>16. renderNode(new, n) = renderNode(rc, n)
  BY <1>10, <1>15, Zenon
<1> QED
  BY <1>16 DEF rc, new

\* A plain commit re-renders every map it changes.
LEMMA PlainCurrent ==
  ASSUME Tables, Current, NEW k, NEW u, Commit(k, u), Legal(u), scope' = scope, Plain(u),
         SpacesOK(docs', scope)
  PROVE  Current'
<1>1. cache' = After(cache, u) /\ Tables'
  BY CommitStep, Zenon
<1>2. DOMAIN cache'.nodes \subseteq Nodes
  BY <1>1, Zenon DEF Tables, RowsOK
<1>3. DOMAIN cache'.nodes = DOMAIN cache.nodes
  <2>1. Joined(cache', plan) = Joined(cache, plan)
    BY <1>1, Zenon DEF Plain
  <2>2. DOMAIN Joined(cache', plan) = DOMAIN cache'.nodes /\ DOMAIN Joined(cache, plan) = DOMAIN cache.nodes
    BY DEF Joined
  <2> QED
    BY <2>1, <2>2
<1>4. plan' = renderIngressPlan(cache')
  BY PlanCurrent, Zenon
<1>5. \A n \in DOMAIN cache'.nodes :
           \/ n \in Dirty(prepareRender(cache, plan), cache, u, plan, plan')
           \/ /\ n \in DOMAIN cache.nodes
              /\ renderNode(prepareRender(cache', plan'), n) = renderNode(prepareRender(cache, plan), n)
  BY <1>2, <1>3, PlainKept, Zenon
<1> QED
  BY <1>1, <1>4, <1>5, MapsCurrent, Zenon

\* A commit of instances and documents, or of a node's addresses, is plain.
LEMMA WorkloadPlain ==
  ASSUME Tables, NEW k, NEW u, Commit(k, u), Legal(u), scope' = scope, Workload(u)
  PROVE  Plain(u)
<1>1. Committed(docs, cache, u, issued')
  BY CommitStep, Zenon
<1>2. IsTable(cache.nodes)
  BY Zenon DEF Tables, RowsOK
<1>3. After(cache, u).nodes = cache.nodes
  BY <1>1, <1>2, TablesMade, Zenon DEF Committed, Workload
<1> QED
  BY <1>3, Zenon DEF Plain, Joined, Workload

\* A report of other addresses under the same key is plain.
LEMMA ReportPlain ==
  ASSUME Tables, NEW k, NEW u, Commit(k, u), Legal(u), scope' = scope,
         NEW n \in DOMAIN cache.nodes, NEW row, u = Update(Nothing, Only(n, row), Nothing, Nothing),
         row # Gone, row.key = cache.nodes[n].key
  PROVE  Plain(u)
<1>1. u.nodes = Only(n, row) /\ u.policies = Nothing
  BY DEF Update
<1>2. Committed(docs, cache, u, issued')
  BY CommitStep, Zenon
<1>3. After(cache, u).nodes = Fold(cache.nodes, Only(n, row))
  BY <1>1, <1>2, Zenon DEF Committed
<1>4. DOMAIN Only(n, row) = {n} /\ Only(n, row)[n] = row
  BY OneRow, Zenon
<1>5. /\ \A m : m \in DOMAIN Fold(cache.nodes, Only(n, row)) <=> m \in DOMAIN cache.nodes
      /\ \A m \in DOMAIN cache.nodes : Fold(cache.nodes, Only(n, row))[m].key = cache.nodes[m].key
  BY <1>4, FoldFacts, SMTT(20)
<1>6. Joined(After(cache, u), plan) = Joined(cache, plan)
  BY <1>3, <1>5, Zenon DEF Joined
<1> QED
  BY <1>1, <1>6, Zenon DEF Plain

\* c2 is c but for the policy k.
PolicyBut(c, c2, k) ==
  /\ c2.current = c.current /\ c2.versions = c.versions /\ c2.nodes = c.nodes /\ c2.instances = c.instances
  /\ \A j : j # k => Row(c2.policies, j) = Row(c.policies, j)

\* PolicyDirty for such a pair of caches.
LEMMA PolicyKept ==
  ASSUME NEW c, NEW c2, NEW pl, NEW k, NEW n \in Nodes, PolicyBut(c, c2, k),
         n \notin dirtyPolicy(prepareRender(c, pl), c2, Row(c.policies, k), Row(c2.policies, k))
  PROVE  renderNode(prepareRender(c2, pl), n) = renderNode(prepareRender(c, pl), n)
<1>1. /\ c2.current = c.current /\ c2.versions = c.versions /\ c2.nodes = c.nodes /\ c2.instances = c.instances
      /\ \A j : j # k => Row(c2.policies, j) = Row(c.policies, j)
  BY Zenon DEF PolicyBut
<1> QED
  BY <1>1, PolicyDirty, SMTT(20)

\* A commit of one policy row changes nothing of the cache but the policies.
LEMMA PolicyOnly ==
  ASSUME Tables, NEW kind, NEW u, Commit(kind, u), Legal(u), scope' = scope,
         NEW k, NEW row, u = Update(Nothing, Nothing, Only(k, row), Nothing)
  PROVE  PolicyBut(cache, cache', k) /\ plan' = plan
<1>1. u.docs = Nothing /\ u.nodes = Nothing /\ u.insts = Nothing /\ u.policies = Only(k, row)
  BY DEF Update
<1>2. /\ Committed(docs, cache, u, issued') /\ cache' = After(cache, u)
      /\ docs' = Table(docs, u.docs) /\ Tables'
  BY CommitStep, Zenon
<1>3. IsTable(cache.current) /\ IsTable(cache.nodes) /\ IsTable(cache.instances)
  BY Zenon DEF Tables, RowsOK
<1>4. /\ cache'.current = cache.current /\ cache'.nodes = cache.nodes
      /\ cache'.policies = Fold(cache.policies, Only(k, row))
  BY <1>1, <1>2, <1>3, TablesMade, ZenonT(40) DEF Committed
<1>5. DOMAIN Nothing = {} /\ DOMAIN Only(k, row) = {k}
  BY OneRow, Zenon
<1>6. cache'.instances = cache.instances
  <2> DEFINE f == Without(Nothing, Final(Nothing))
             g == Without(cache.instances, Final(Nothing))
  <2>1. cache'.instances = Over(f, g)
    BY <1>1, <1>2, Zenon DEF Committed
  <2>2. Final(Nothing) = {}
    BY <1>5 DEF Final
  <2>3. DOMAIN f = {} /\ DOMAIN g = DOMAIN cache.instances /\ \A i \in DOMAIN g : g[i] = cache.instances[i]
    BY <1>5, <2>2 DEF Without, Restrict
  <2> HIDE DEF f, g
  <2>4. Over(f, g) = [i \in DOMAIN cache.instances |-> cache.instances[i]]
    BY <2>3 DEF Over
  <2> QED
    BY <1>3, <2>1, <2>4, Zenon DEF IsTable
<1>7. cache'.versions = cache.versions
  <2>1. cache'.versions = Seed(docs', cache') /\ cache.versions = Seed(docs, cache)
    BY <1>2, Zenon DEF Tables
  <2>2. /\ CurrentKeys(cache') = CurrentKeys(cache) /\ PinnedKeys(cache') = PinnedKeys(cache)
        /\ \A key : Pinning(cache', key) = Pinning(cache, key)
    BY <1>4, <1>6, Zenon DEF CurrentKeys, PinnedKeys, Pinning
  <2>3. \A key \in DOMAIN docs : docs'[key] = docs[key]
    BY <1>2, TableFacts, Zenon DEF Tables, Legal, CommitOK
  <2>4. CurrentKeys(cache) \cup PinnedKeys(cache) \subseteq DOMAIN docs
    <3>1. \A d \in DOMAIN cache.current : <<d, cache.current[d].version>> \in DOMAIN docs
      BY Zenon DEF Tables, RowsOK, Written
    <3>2. \A i \in DOMAIN cache.instances : Key(cache.instances[i]) \in DOMAIN docs
      BY Zenon DEF Tables, RowsOK, InstanceOK
    <3> QED
      BY <3>1, <3>2 DEF CurrentKeys, PinnedKeys
  <2>5. \A key \in CurrentKeys(cache) \cup PinnedKeys(cache) : Entry(docs', cache', key) = Entry(docs, cache, key)
    BY <2>2, <2>3, <2>4, Zenon DEF Entry
  <2>6. Seed(docs', cache') = Seed(docs, cache)
    BY <2>2, <2>5, Zenon DEF Seed
  <2> QED
    BY <2>1, <2>6, Zenon
<1>8. ASSUME NEW j, j # k PROVE Row(cache'.policies, j) = Row(cache.policies, j)
  <2>1. j \notin DOMAIN Only(k, row)
    BY <1>5, <1>8
  <2> DEFINE p == Only(k, row)
             f == Fold(cache.policies, p)
  <2>2. /\ \A x : x \in DOMAIN f <=> IF x \in DOMAIN p THEN p[x] # Gone ELSE x \in DOMAIN cache.policies
        /\ \A x \in DOMAIN f : f[x] = IF x \in DOMAIN p THEN p[x] ELSE cache.policies[x]
    BY FoldFacts, Zenon
  <2>3. cache'.policies = f
    BY <1>4, Zenon
  <2> HIDE DEF p, f
  <2>4. (j \in DOMAIN f <=> j \in DOMAIN cache.policies) /\ (j \in DOMAIN f => f[j] = cache.policies[j])
    BY <2>1, <2>2, Zenon DEF p
  <2> QED
    BY <2>3, <2>4, Zenon DEF Row
<1>9. ~PlanDirty(cache, u)
  BY <1>1, <1>5 DEF PlanDirty
<1>10. plan' = plan
  BY <1>9, CommitMaps, Zenon
<1> QED
  BY <1>4, <1>6, <1>7, <1>8, <1>10, Zenon DEF PolicyBut

\* A commit of a policy re-renders every map it changes.
LEMMA PolicyCurrent ==
  ASSUME Tables, Current, PolicyCommit, scope' = scope
  PROVE  Current'
<1>1. PICK kind, u, k, row : /\ Commit(kind, u) /\ Legal(u)
                             /\ u = Update(Nothing, Nothing, Only(k, row), Nothing)
  BY Zenon DEF PolicyCommit
<1>0. PolicyBut(cache, cache', k) /\ plan' = plan
  BY <1>1, PolicyOnly, Zenon
<1>2. cache'.current = cache.current /\ cache'.nodes = cache.nodes /\ plan' = plan
  BY <1>0, Zenon DEF PolicyBut
<1>3. cache' = After(cache, u) /\ Tables'
  BY <1>1, CommitStep, Zenon
<1>4. DOMAIN cache.nodes \subseteq Nodes
  BY Zenon DEF Tables, RowsOK
<1>5. u.policies = Only(k, row) /\ k \in DOMAIN u.policies
  <2>1. u.policies = Only(k, row)
    BY <1>1 DEF Update
  <2> QED
    BY <2>1, OneRow, Zenon
<1> DEFINE rc == prepareRender(cache, plan)
<1>6. Between(cache, u).current = cache.current
  <2>1. After(cache, u) = applyInstance(Between(cache, u), u.insts)
    BY Zenon DEF After, Between
  <2>2. \A c : applyInstance(c, u.insts).current = c.current
    BY DEF applyInstance
  <2> QED
    BY <1>2, <1>3, <2>1, <2>2, Zenon
<1>7. \A policy : policySpaces(Between(cache, u), policy) = policySpaces(cache', policy)
  BY <1>2, <1>6, Zenon DEF policySpaces, Resolves, resolvePolicyPeer
<1>8. \A A, B : dirtyPolicy(rc, Between(cache, u), A, B) = dirtyPolicy(rc, cache', A, B)
  <2> HIDE DEF rc
  <2> QED
    BY <1>7, Zenon DEF dirtyPolicy
<1>9. ASSUME NEW n \in DOMAIN cache'.nodes, n \notin Dirty(rc, cache, u, plan, plan')
      PROVE  renderNode(prepareRender(cache', plan'), n) = renderNode(rc, n)
  <2>1. n \notin DirtyPolicies(rc, cache, u)
    BY <1>9, Zenon DEF Dirty
  <2>2. n \notin dirtyPolicy(rc, Between(cache, u), Row(cache.policies, k), Row(After(cache, u).policies, k))
    <3> HIDE DEF rc
    <3> QED
      BY <1>5, <2>1, Zenon DEF DirtyPolicies
  <2>3. n \notin dirtyPolicy(rc, cache', Row(cache.policies, k), Row(cache'.policies, k))
    BY <1>3, <1>8, <2>2, Zenon
  <2>4. n \in Nodes
    BY <1>2, <1>4, <1>9, SMTT(20)
  <2>5. renderNode(prepareRender(cache', plan), n) = renderNode(prepareRender(cache, plan), n)
    <3>1. \A c2 : /\ PolicyBut(cache, c2, k)
                  /\ n \notin dirtyPolicy(prepareRender(cache, plan), c2, Row(cache.policies, k), Row(c2.policies, k))
                  => renderNode(prepareRender(c2, plan), n) = renderNode(prepareRender(cache, plan), n)
      BY <2>4, PolicyKept
    <3> QED
      BY <1>0, <2>3, <3>1, Zenon
  <2> QED
    BY <1>2, <2>5, Zenon
<1>10. plan' = renderIngressPlan(cache')
  BY <1>1, PlanCurrent, Zenon
<1>11. \A n \in DOMAIN cache'.nodes :
           \/ n \in Dirty(prepareRender(cache, plan), cache, u, plan, plan')
           \/ /\ n \in DOMAIN cache.nodes
              /\ renderNode(prepareRender(cache', plan'), n) = renderNode(prepareRender(cache, plan), n)
  BY <1>2, <1>9, Zenon
<1> QED
  BY <1>1, <1>3, <1>10, <1>11, MapsCurrent, Zenon

------------------------------------------------------------------------------
(* The theorems.                                                            *)

\* The scope's versions and the maps.
Consistent == Stays(scope) => SpacesOK(docs, scope) /\ Current

\* The first documents are the netproxies', all in the system space.
LEMMA InitSpaces ==
  ASSUME Init, Stays(scope)
  PROVE  SpacesOK(docs, scope)
<1>1. /\ DOMAIN docs = {<<Netproxy(n), 1>> : n \in scope.members}
      /\ \A n \in scope.members : docs[<<Netproxy(n), 1>>] = netproxyDoc(n)
  BY InitDocs, Zenon
<1>2. ASSUME NEW key \in DOMAIN docs
      PROVE  /\ docs[key].space = SystemSpace
             /\ \E n \in scope.members : key[1] = Netproxy(n)
  <2>1. PICK n \in scope.members : key = <<Netproxy(n), 1>>
    BY <1>1
  <2>2. netproxyDoc(n).space = SystemSpace
    BY DEF netproxyDoc, Stamped, doc
  <2> QED
    BY <1>1, <2>1, <2>2
<1> QED
  BY <1>2 DEF SpacesOK, Stays

\* A step keeps the maps those of a restart.
LEMMA ConsistentStep ==
  ASSUME Tables, Consistent, Next
  PROVE  Consistent'
<1>0. scope' = scope
  BY Zenon DEF Next
<1> SUFFICES ASSUME Stays(scope) PROVE SpacesOK(docs', scope) /\ Current'
  BY <1>0, Zenon DEF Consistent
<1>1. SpacesOK(docs, scope) /\ Current
  BY Zenon DEF Consistent
<1>2. ASSUME NEW k, NEW u, Commit(k, u), Legal(u)
      PROVE  SpacesOK(docs', scope)
  BY <1>0, <1>1, <1>2, SpacesStep, Zenon
<1>3. CASE KeyCommit
  <2>1. Current'
    BY <1>0, <1>1, <1>3, KeyCurrent, Zenon
  <2> QED
    BY <1>2, <1>3, <2>1, Zenon DEF KeyCommit
<1>4. CASE PolicyCommit
  <2>1. Current'
    BY <1>0, <1>1, <1>4, PolicyCurrent, Zenon
  <2> QED
    BY <1>2, <1>4, <2>1, Zenon DEF PolicyCommit
<1>5. CASE WorkloadCommit
  <2>1. PICK k, u : Commit(k, u) /\ Legal(u) /\ Workload(u)
    BY <1>5, Zenon DEF WorkloadCommit
  <2>2. SpacesOK(docs', scope)
    BY <1>2, <2>1, Zenon
  <2>3. Plain(u)
    BY <1>0, <2>1, WorkloadPlain, Zenon
  <2> QED
    BY <1>0, <1>1, <2>1, <2>2, <2>3, PlainCurrent, Zenon
<1>6. CASE ReportCommit
  <2>1. PICK k, u, n, row : /\ Commit(k, u) /\ Legal(u) /\ u = Update(Nothing, Only(n, row), Nothing, Nothing)
                            /\ n \in DOMAIN cache.nodes /\ row # Gone /\ row.key = cache.nodes[n].key
    BY <1>6, Zenon DEF ReportCommit
  <2>2. SpacesOK(docs', scope)
    BY <1>2, <2>1, Zenon
  <2>3. Plain(u)
    BY <1>0, <2>1, ReportPlain, Zenon
  <2> QED
    BY <1>0, <1>1, <2>1, <2>2, <2>3, PlainCurrent, Zenon
<1> QED
  BY <1>3, <1>4, <1>5, <1>6, NextCommits, Zenon

\* The invariant.
LEMMA AlwaysConsistent == Spec => [](Tables /\ Consistent)
<1>1. Init => Tables /\ Consistent
  BY InitTables, InitSpaces, Zenon DEF Consistent
<1>2. Tables /\ Consistent /\ [Next]_<<vars, scope>> => Tables' /\ Consistent'
  <2>1. ASSUME Tables, Consistent, Next PROVE Consistent'
    BY <2>1, ConsistentStep, Zenon
  <2>2. ASSUME Consistent, UNCHANGED <<vars, scope>> PROVE Consistent'
    <3>1. scope' = scope /\ docs' = docs /\ cache' = cache /\ plan' = plan /\ maps' = maps
      BY <2>2 DEF vars
    <3>2. Seeded' = Seeded
      BY <3>1, Zenon DEF Seeded, seedLocked, seedVersions
    <3>3. Current' <=> Current
      BY <3>1, <3>2, Zenon DEF Current
    <3> QED
      BY <2>2, <3>1, <3>3, Zenon DEF Consistent
  <2> QED
    BY <2>1, <2>2, TablesStep, Zenon
<1> QED
  BY <1>1, <1>2, PTL DEF Spec

\* While no deployment moves to another space, the maps are at every point those a
\* restart would render: applyLocked re-renders every node whose map a commit changes.
THEOREM AlwaysCurrent == Spec => [](Stays(scope) => Current)
<1>1. Consistent => (Stays(scope) => Current)
  BY Zenon DEF Consistent
<1> QED
  BY <1>1, AlwaysConsistent, PTL

\* What the rendering is made of, in a consistent state.
LEMMA RenderedFacts ==
  ASSUME Tables, SpacesOK(docs, scope), Current, NEW rc, rc = prepareRender(cache, plan)
  PROVE  /\ maps = [n \in DOMAIN cache.nodes |-> renderNode(rc, n)]
         /\ DOMAIN cache.nodes \subseteq Nodes
         /\ \A p \in rc.placements : /\ p.node \in DOMAIN cache.nodes /\ (p.netproxy => p.space = SystemSpace)
                                     /\ p.dep \in DOMAIN rc.services /\ rc.services[p.dep].space = p.space
<1>1. maps = [n \in DOMAIN cache.nodes |-> renderNode(rc, n)]
  BY CurrentIs, Zenon DEF Rendering
<1>2. DOMAIN cache.nodes \subseteq Nodes
  BY Zenon DEF Tables, RowsOK
<1>3. rc.placements = Placed(cache) /\ rc.services = Offered(cache)
  BY Rendered, Zenon
<1>4. Loaded(docs, cache, issued)
  BY Zenon DEF Tables, Loaded
<1>5. \A i \in DOMAIN cache.instances : PlacedWith(docs, cache, i)
  BY <1>4, ConfigIs, Zenon
<1> DEFINE W == cache.instances
<1>6. SpaceAs(cache, W)
  <2>1. ASSUME NEW i \in DOMAIN W, NEW j \in DOMAIN W, W[i].dep = W[j].dep
        PROVE  config(cache, i).space = W[j].space
    <3>1. PlacedWith(docs, cache, i) /\ PlacedWith(docs, cache, j)
      BY <1>5, Zenon
    <3>2. Key(W[i])[1] = Key(W[j])[1]
      BY <2>1, SMTT(20) DEF Key
    <3>3. docs[Key(W[i])].space = docs[Key(W[j])].space
      BY <3>1, <3>2 DEF PlacedWith, SpacesOK
    <3> QED
      BY <3>1, <3>3 DEF PlacedWith
  <2> QED
    BY <2>1, Zenon DEF SpaceAs
<1>7. Ordered(cache)
  <2>1. \A i \in DOMAIN cache.instances : i \in Nat
    BY DEF Tables, RowsOK
  <2> QED
    BY <2>1, MinOf, SMTT(20) DEF Ordered
<1>8. ASSUME NEW p \in Placed(cache)
      PROVE  /\ p.node \in DOMAIN cache.nodes /\ (p.netproxy => p.space = SystemSpace)
             /\ p.dep \in DOMAIN Offered(cache) /\ Offered(cache)[p.dep].space = p.space
  <2>1. PICK i \in Wanted(cache) : p = Placement(cache, i)
    BY Zenon DEF Placed
  <2>2. i \in DOMAIN W /\ i \in Virtual(cache)
    BY DEF Wanted, Virtual
  <2>3. /\ p.node = W[i].node /\ p.dep = W[i].dep /\ p.space = config(cache, i).space
        /\ p.netproxy => config(cache, i).space = SystemSpace
    BY <2>1, PlacementFields, Zenon
  <2>4. W[i].node \in DOMAIN cache.nodes
    BY <2>2, Zenon DEF Tables, RowsOK, InstanceOK
  <2>5. p.dep \in DOMAIN Offered(cache)
    BY <2>2, <2>3, SMTT(20) DEF Offered
  <2>6. Offered(cache)[W[i].dep].space = W[i].space
    <3>1. W[i].dep \in DOMAIN Offered(cache) /\ i \in DOMAIN W
      BY <2>2, <2>3, <2>5, SMTT(20)
    <3> HIDE DEF W
    <3> QED
      BY <1>6, <1>7, <3>1, ServiceSpace, SMTT(20)
  <2>7. config(cache, i).space = W[i].space
    BY <1>5, <2>2, Zenon DEF PlacedWith
  <2> QED
    BY <2>3, <2>4, <2>5, <2>6, <2>7, SMTT(20)
<1> QED
  BY <1>1, <1>2, <1>3, <1>8, Zenon

\* Both ends of every permitted connection know the other, and the caller can resolve
\* the callee; and a map lists no other workloads.
LEMMA MapsRight ==
  ASSUME Tables, SpacesOK(docs, scope), Current
  PROVE  BothEnds /\ OnlyReachable
<1> DEFINE rc == prepareRender(cache, plan)
<1>1. /\ maps = [n \in DOMAIN cache.nodes |-> renderNode(rc, n)]
      /\ DOMAIN cache.nodes \subseteq Nodes
      /\ \A p \in rc.placements : /\ p.node \in DOMAIN cache.nodes /\ (p.netproxy => p.space = SystemSpace)
                                  /\ p.dep \in DOMAIN rc.services /\ rc.services[p.dep].space = p.space
  BY RenderedFacts
<1> DEFINE knows(n, p) == /\ route(p, p.id) \in maps[n].routes
                          /\ p.serving => route(p, 0) \in maps[n].routes
                          /\ p.node \in DOMAIN maps[n].nodes
<1> HIDE DEF rc
<1>2. DOMAIN maps = DOMAIN cache.nodes /\ \A n \in DOMAIN cache.nodes : maps[n] = renderNode(rc, n)
  BY <1>1
<1>3. \A p \in rc.placements : p.node \in Nodes /\ (p.netproxy => p.space = SystemSpace)
  BY <1>1
<1>4. ASSUME NEW n \in DOMAIN cache.nodes, NEW p \in rc.placements, Concerns(rc, n, p)
      PROVE  knows(n, p)
  <2>1. n \in Nodes
    BY <1>1
  <2>2. /\ route(p, p.id) \in renderNode(rc, n).routes
        /\ p.serving => route(p, 0) \in renderNode(rc, n).routes
        /\ p.node \in DOMAIN renderNode(rc, n).nodes
    BY <1>3, <1>4, <2>1, ListsConcerned, Zenon
  <2> QED
    BY <1>2, <2>2, Zenon
<1>5. ASSUME NEW a \in rc.placements, NEW b \in rc.placements, MayInitiate(rc, a, b)
      PROVE  knows(a.node, b) /\ knows(b.node, a) /\ b.dep \in DOMAIN maps[a.node].services
  <2>1. a.node \in DOMAIN cache.nodes /\ b.node \in DOMAIN cache.nodes
    BY <1>1, Zenon
  <2>2. a \in On(rc, a.node) /\ b \in On(rc, b.node)
    BY DEF On
  <2>3. Concerns(rc, a.node, b) /\ Concerns(rc, b.node, a)
    BY <1>5, <2>2, Zenon DEF Concerns
  <2>4. b.dep \in DOMAIN renderNode(rc, a.node).services
    BY <1>1, <1>5, ListsCallee, Zenon
  <2>5. maps[a.node] = renderNode(rc, a.node)
    BY <1>2, <2>1, Zenon
  <2>6. knows(a.node, b) /\ knows(b.node, a)
    BY <1>4, <2>1, <2>3, Zenon
  <2> QED
    BY <2>4, <2>5, <2>6, Zenon
<1>6. BothEnds
  BY <1>5, Zenon DEF BothEnds, rc
<1>7. ASSUME NEW n \in DOMAIN maps, NEW r \in maps[n].routes
      PROVE  \E b \in rc.placements : r \in {route(b, b.id), route(b, 0)} /\ Concerns(rc, n, b)
  <2>1. n \in Nodes /\ r \in renderNode(rc, n).routes
    BY <1>1, <1>2
  <2> QED
    BY <1>3, <2>1, ListsOnly, Zenon
<1>8. OnlyReachable
  BY <1>7, Zenon DEF OnlyReachable, rc
<1> QED
  BY <1>6, <1>8, SMTT(20)

\* While no deployment moves to another space, both nodes of every pair of workloads
\* that may connect hold what they need of the other, and no map holds a route of a
\* workload its node has nothing to do with (assemble, scopePlacements).
THEOREM AlwaysBothEnds == Spec => [](Stays(scope) => BothEnds /\ OnlyReachable)
<1>1. Tables /\ Consistent => (Stays(scope) => BothEnds /\ OnlyReachable)
  BY MapsRight, Zenon DEF Consistent
<1> QED
  BY <1>1, AlwaysConsistent, PTL
=============================================================================
