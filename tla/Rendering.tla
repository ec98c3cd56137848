----------------------------- MODULE Rendering -----------------------------
(***************************************************************************)
(* What the network maps say (app/primary/nodepublisher).  The publisher   *)
(* folds every commit into a cache of the tables, works out from the       *)
(* previous rendering which nodes' maps the commit can have changed, and   *)
(* renders only those.  A map holds what the node's workloads may reach    *)
(* and may be reached from: peers, routes, names and policy rules.         *)
(*                                                                         *)
(* A step is one commit: the writer's mutations together with those of     *)
(* the placement scheduler, which runs inside it.  How maps are stamped    *)
(* and delivered is in RouteBarrier, the scheduler's rules in Scheduler.   *)
(***************************************************************************)
EXTENDS Integers, FiniteSets, Functions, FiniteSetsExt

CONSTANTS Nodes,        \* a set of numbers
          Addresses,    \* that a node may report as its own
          PolicyIds,
          Scopes        \* the clusters and commits explored, see RenderingAssumption

SystemSpace == 0
GlobalSpace == 1

\* The netproxy of node n is a deployment in the system space.
Netproxy(n) == 100 + n

VARIABLES cache,   \* nodes, current documents, versions, instances, policies
          plan,    \* which node publishes which deployments on which addresses
          maps,    \* the current map of every member
          docs,    \* the table of document versions
          issued,  \* instance ids handed out
          left,    \* commits left, by kind
          scope

vars == <<cache, plan, maps, docs, issued, left>>

WantsRunning == {"RUN_SERVING", "RUN_STANDBY", "RUN_DRAINING"}

\* A document as far as maps depend on it.  A deployment that does not run
\* has strategy "STOPPED"; listen is the address selector of its ingress.
doc(space, node, name, virtual, listen, strategy) ==
  [space |-> space, node |-> node, name |-> name, virtual |-> virtual,
   listen |-> listen, strategy |-> strategy]

\* A version of it.
Stamped(r, version) ==
  [space |-> r.space, node |-> r.node, name |-> r.name, virtual |-> r.virtual,
   listen |-> r.listen, strategy |-> r.strategy, version |-> version]

Document ==
  [space : Nat, node : Nodes, name : STRING, virtual : BOOLEAN, listen : SUBSET Addresses,
   strategy : {"ROLLOVER", "RECREATE", "STOPPED"}]

\* A node's map key and the addresses it has reported.
NodeRow == [key : Nat, addrs : SUBSET Addresses]

\* A peer of a policy is a space, or a deployment.
Peer == [space : Nat, dep : Nat]

\* A scope: the first members and their addresses, the documents, policies and
\* reports written, the nodes evicted, and how many commits of each kind.
ASSUME RenderingAssumption ==
  /\ Nodes \subseteq Nat \ {0} /\ \E last \in Nodes : \A n \in Nodes : n <= last
  /\ \A s \in Scopes :
       /\ s.members \subseteq Nodes /\ s.evicts \subseteq Nodes /\ s.addrs \subseteq Addresses
       /\ DOMAIN s.docs \subseteq Nat \ {0} /\ \A d \in DOMAIN s.docs : s.docs[d] \subseteq Document
       /\ s.policies \subseteq [source : Peer, destination : Peer]
       /\ s.reports \subseteq NodeRow
       /\ s.left \in [{"write", "turn", "change"} -> Nat]

Without(f, S) == Restrict(f, DOMAIN f \ S)

\* The function with one row, and the rows of f over those of g.
Only(x, row) == [y \in {x} |-> row]

Over(f, g) == [x \in DOMAIN f \cup DOMAIN g |-> IF x \in DOMAIN f THEN f[x] ELSE g[x]]

------------------------------------------------------------------------------
(* The ingress plan.                                                        *)

Unspecified == "::"

\* Addresses selects all, one address selects itself.
expand(listen, inventory) ==
  IF inventory # {} THEN listen \cap inventory
  ELSE IF listen = Addresses THEN {Unspecified} ELSE listen

Listeners(c, n) ==
  {d \in DOMAIN c.current :
     /\ n \in DOMAIN c.nodes
     /\ c.current[d].space # SystemSpace
     /\ c.current[d].virtual /\ c.current[d].node = n
     /\ expand(c.current[d].listen, c.nodes[n].addrs) # {}}

renderIngressPlan(c) ==
  [publish |-> [n \in Nodes |->
     UNION {expand(c.current[d].listen, c.nodes[n].addrs) : d \in Listeners(c, n)}],
   published |-> [n \in Nodes |-> Listeners(c, n)]]

------------------------------------------------------------------------------
(* Rendering.                                                               *)

config(c, i) == c.versions[<<c.instances[i].dep, c.instances[i].version>>].doc

resolvePolicyPeer(c, peer) ==
  IF peer.dep = 0 THEN peer ELSE [space |-> c.current[peer.dep].space, dep |-> peer.dep]

Resolves(c, peer) == peer.dep = 0 \/ peer.dep \in DOMAIN c.current

renderPolicyRules(c) ==
  {[source |-> resolvePolicyPeer(c, c.policies[k].source),
    destination |-> resolvePolicyPeer(c, c.policies[k].destination)] :
     k \in {k \in DOMAIN c.policies : /\ Resolves(c, c.policies[k].source)
                                      /\ Resolves(c, c.policies[k].destination)}}

\* The name and the space of a service are those its oldest live instance
\* was placed with.
Service(c, d, virtual) ==
  LET mine == {i \in virtual : c.instances[i].dep = d}
      first == config(c, Min(mine))
      has(state) == \E i \in mine : c.instances[i].state = state
  IN [name |-> first.name, space |-> first.space,
      established |-> has("RUN_SERVING") \/ (has("RUN_STANDBY") /\ has("RUN_DRAINING"))]

Placement(c, i) ==
  [id |-> i, node |-> c.instances[i].node, dep |-> c.instances[i].dep,
   space |-> config(c, i).space, serving |-> c.instances[i].state = "RUN_SERVING",
   netproxy |-> config(c, i).space = SystemSpace /\ config(c, i).name = "netproxy"]

prepareRender(c, pl) ==
  LET virtual == {i \in DOMAIN c.instances : config(c, i).virtual}
  IN [nodes |-> [n \in DOMAIN c.nodes |-> [key |-> c.nodes[n].key, publish |-> pl.publish[n]]],
      placements |-> {Placement(c, i) :
                        i \in {i \in virtual : c.instances[i].state \in WantsRunning}},
      services |-> [d \in {c.instances[i].dep : i \in virtual} |-> Service(c, d, virtual)],
      rules |-> renderPolicyRules(c),
      published |-> pl.published]

out(rc, s) == {r.destination.space : r \in {r \in rc.rules : r.source.space = s}}
in(rc, s) == {r.source.space : r \in {r \in rc.rules : r.destination.space = s}}

On(rc, n) == {p \in rc.placements : p.node = n}
Within(rc, s) == {p \in rc.placements : p.space = s}
Of(rc, D) == {p \in rc.placements : p.dep \in D}

\* The spaces node n has workloads in, those they may call and those they
\* may be called from.
own(rc, n) == {p.space : p \in On(rc, n)} \ {SystemSpace}

forward(rc, n) ==
  (own(rc, n) \cup (UNION {out(rc, s) : s \in own(rc, n)})
     \cup (IF own(rc, n) = {} THEN {} ELSE {GlobalSpace})) \ {SystemSpace}

\* Mutant: the return path is forgotten.
reverseOwn(rc, n) == own(rc, n)

reverse(rc, n) ==
  (own(rc, n) \cup (UNION {in(rc, s) : s \in own(rc, n)})) \ {SystemSpace}

\* Other nodes that publish a deployment n hosts.
Fronts(rc, n) == {m \in Nodes \ {n} : \E p \in Of(rc, rc.published[m]) : p.node = n}

\* Mutant: the system's workloads are not left out.
CallersSystem(rc, n) == IF GlobalSpace \in own(rc, n) THEN rc.placements ELSE {}

\* What may call a workload of the global space: every other one.
Callers(rc, n) ==
  IF GlobalSpace \in own(rc, n) THEN {p \in rc.placements : p.space # SystemSpace} ELSE {}

scopePlacements(rc, n) ==
  On(rc, n)
    \cup (UNION {Within(rc, s) : s \in forward(rc, n) \cup reverse(rc, n)})
    \cup Callers(rc, n)
    \cup Of(rc, rc.published[n])
    \cup {p \in rc.placements : p.netproxy /\ p.node \in Fronts(rc, n)}

scopeCatalog(rc, n) ==
  {p.dep : p \in {p \in On(rc, n) : p.space # SystemSpace}}
    \cup {d \in DOMAIN rc.services : rc.services[d].space \in forward(rc, n)}
    \cup rc.published[n]

\* A peer that is no member has the zero entry.
NoNode == [key |-> 0, publish |-> {}]

route(p, id) == [space |-> p.space, dep |-> p.dep, id |-> id, host |-> p.node]

renderNode(rc, n) ==
  LET selected == scopePlacements(rc, n)
      spaces == forward(rc, n) \cup reverse(rc, n)
  IN [nodes |-> [m \in {n} \cup {p.node : p \in selected} |->
                   IF m \in DOMAIN rc.nodes THEN rc.nodes[m] ELSE NoNode],
      routes |-> {route(p, p.id) : p \in selected}
                   \cup {route(p, 0) : p \in {p \in selected : p.serving}},
      services |-> Restrict(rc.services, scopeCatalog(rc, n) \cap DOMAIN rc.services),
      rules |-> {r \in rc.rules : r.source.space \in spaces \/ r.destination.space \in spaces}]

------------------------------------------------------------------------------
(* The nodes whose maps a commit can have changed, judged by the rendering  *)
(* before it.                                                               *)

hosts(rc, s) == {p.node : p \in Within(rc, s)}

hostsOf(rc, D) == {p.node : p \in Of(rc, D)}

publishersOf(rc, d) == {n \in Nodes : d \in rc.published[n]}

nodesReaching(rc, s) ==
  (UNION {hosts(rc, t) : t \in {s, GlobalSpace} \cup out(rc, s) \cup in(rc, s)})
    \cup (IF s = GlobalSpace
          THEN {p.node : p \in {p \in rc.placements : p.space # SystemSpace}} ELSE {})

nodesSeeing(rc, n) ==
  {n} \cup (UNION {nodesReaching(rc, p.space) \cup publishersOf(rc, p.dep) :
                    p \in {p \in On(rc, n) : p.space # SystemSpace}})
      \cup hostsOf(rc, rc.published[n])

dirtyInstance(rc, i) ==
  {i.node} \cup (IF i.space = SystemSpace THEN hostsOf(rc, rc.published[i.node])
                 ELSE nodesReaching(rc, i.space) \cup publishersOf(rc, i.dep))

policyReferences(policies, d) ==
  \E k \in DOMAIN policies : d \in {policies[k].source.dep, policies[k].destination.dep}

\* prev and next are sets of at most one document; {} is no document.
Moved(prev, next) == {r.space : r \in prev} # {r.space : r \in next}

ingressInput(r) == <<r.node, r.name, r.virtual, r.listen>>

deploymentPlanDirty(prev, next) ==
  Moved(prev, next) \/ {ingressInput(r) : r \in prev} # {ingressInput(r) : r \in next}

dirtyDeployment(rc, policies, d, prev, next) ==
  IF Moved(prev, next) /\ policyReferences(policies, d) THEN Nodes
  ELSE IF next = {} \/ {<<r.space, r.name>> : r \in prev} # {<<r.space, r.name>> : r \in next}
       THEN publishersOf(rc, d)
              \cup (UNION {nodesReaching(rc, r.space) : r \in IF next = {} THEN prev ELSE next})
       ELSE {}

dirtyNode(prev, next) ==
  IF {r.key : r \in prev} # {r.key : r \in next} THEN Nodes ELSE {}

nodePlanDirty(prev, next) == prev # next

\* A peer that does not resolve stands for a rule no map carries.
policySpaces(c, policy) ==
  IF Resolves(c, policy.source) /\ Resolves(c, policy.destination)
  THEN {resolvePolicyPeer(c, policy.source).space, resolvePolicyPeer(c, policy.destination).space}
  ELSE {}

\* Mutant: only nodes with a workload in one of the two spaces.
dirtyPolicyHosts(rc, c, prev, next) ==
  UNION {hosts(rc, s) : s \in UNION {policySpaces(c, policy) : policy \in prev \cup next}}

dirtyPolicy(rc, c, prev, next) ==
  UNION {nodesReaching(rc, s) : s \in UNION {policySpaces(c, policy) : policy \in prev \cup next}}

dirtyPlan(rc, prev, next) ==
  (UNION {nodesSeeing(rc, n) : n \in {n \in Nodes : prev.publish[n] # next.publish[n]}})
    \cup (UNION {{n} \cup hostsOf(rc, prev.published[n] \cup next.published[n]) :
                n \in {n \in Nodes : prev.published[n] # next.published[n]}})

------------------------------------------------------------------------------
(* The fold.  An update holds, for each table, the rows it writes; a row    *)
(* that is Gone is deleted.                                                 *)

Gone == [gone |-> TRUE]

Update(d, n, k, i) == [docs |-> d, nodes |-> n, policies |-> k, insts |-> i]

Nothing == [x \in {} |-> x]

Fold(old, new) ==
  LET deleted == {x \in DOMAIN new : new[x] = Gone} IN
  Over(Without(new, deleted), Without(old, deleted))

\* The row x of a table as a set of at most one.
Row(f, x) == IF x \in DOMAIN f THEN {f[x]} ELSE {}

Key(i) == <<i.dep, i.version>>

applyDeployment(c, written) ==
  LET current == Fold(c.current, written)
      added == [key \in {<<d, current[d].version>> : d \in DOMAIN written \cap DOMAIN current} |->
                  [doc |-> current[key[1]], pins |-> 0]]
      dropped == {key \in DOMAIN c.versions :
                    /\ key[1] \in DOMAIN written /\ c.versions[key].pins <= 0
                    /\ written[key[1]] = Gone
                         \/ Row(c.current, key[1]) = {c.versions[key].doc}}
  IN [c EXCEPT !.current = current, !.versions = Over(added, Without(@, dropped))]

\* Mutant: a version goes with its last instance even if it is the current one.
applyInstanceUnpins(c, written) ==
  LET final == {i \in DOMAIN written : written[i].state = "FINALIZED"}
      created == DOMAIN written \ (DOMAIN c.instances \cup final)
      pins(key) == c.versions[key].pins + Cardinality({i \in created : Key(written[i]) = key})
                     - Cardinality({i \in final : Key(written[i]) = key})
      kept == {key \in DOMAIN c.versions :
                 pins(key) > 0 \/ \A i \in final : Key(written[i]) # key}
  IN [c EXCEPT !.instances = Over(Without(written, final), Without(@, final)),
               !.versions = [key \in kept |-> [doc |-> @[key].doc, pins |-> pins(key)]]]

applyInstance(c, written) ==
  LET final == {i \in DOMAIN written : written[i].state = "FINALIZED"}
      created == DOMAIN written \ (DOMAIN c.instances \cup final)
      pins(key) == c.versions[key].pins + Cardinality({i \in created : Key(written[i]) = key})
                     - Cardinality({i \in final : Key(written[i]) = key})
      unpinned == {key \in DOMAIN c.versions :
                     /\ \E i \in final : Key(written[i]) = key
                     /\ pins(key) <= 0
                     /\ Row(c.current, key[1]) # {c.versions[key].doc}}
  IN [c EXCEPT !.instances = Over(Without(written, final), Without(@, final)),
               !.versions = [key \in DOMAIN @ \ unpinned |->
                               [doc |-> @[key].doc, pins |-> pins(key)]]]

\* Rows are applied by kind: documents, nodes, policies, instances.
applyLocked(u) ==
  LET rc == prepareRender(cache, plan)
      c1 == applyDeployment(cache, u.docs)
      c2 == [c1 EXCEPT !.nodes = Fold(@, u.nodes), !.policies = Fold(@, u.policies)]
      c3 == applyInstance(c2, u.insts)
      planDirty ==
        \/ \E d \in DOMAIN u.docs : deploymentPlanDirty(Row(cache.current, d), Row(c3.current, d))
        \/ \E n \in DOMAIN u.nodes : nodePlanDirty(Row(cache.nodes, n), Row(c3.nodes, n))
      next == IF planDirty THEN renderIngressPlan(c3) ELSE plan
      dirty ==
        (UNION {dirtyDeployment(rc, cache.policies, d, Row(cache.current, d), Row(c3.current, d)) :
                 d \in DOMAIN u.docs})
          \cup (UNION {dirtyNode(Row(cache.nodes, n), Row(c3.nodes, n)) : n \in DOMAIN u.nodes})
          \cup (UNION {dirtyPolicy(rc, c2, Row(cache.policies, k), Row(c3.policies, k)) :
                        k \in DOMAIN u.policies})
          \cup (UNION {dirtyInstance(rc, u.insts[i]) : i \in DOMAIN u.insts})
          \cup dirtyPlan(rc, plan, next)
      rc2 == prepareRender(c3, next)
  IN /\ cache' = c3
     /\ plan' = next
     /\ maps' = [n \in DOMAIN c3.nodes \cap (dirty \cup DOMAIN maps) |->
                   IF n \in dirty THEN renderNode(rc2, n) ELSE maps[n]]

------------------------------------------------------------------------------
(* Commits.  The scheduler's rules are those of Scheduler, taken to their   *)
(* fixpoint; which runners have stopped or are ready is a free choice.      *)

Mine(insts, d) == {i \in DOMAIN insts : insts[i].dep = d}

instance(d, r, state) ==
  [dep |-> d, version |-> r.version, node |-> r.node, space |-> r.space, state |-> state]

\* The rows the scheduler writes for deployment d with the documents current,
\* when the runners of the instances in stopped have ended.
Rescheduled(current, members, insts, d, stopped, id) ==
  LET r == Row(current, d)
      runs == \E x \in r : x.strategy # "STOPPED"
      obsolete(i) == {insts[i].version} # {x.version : x \in r}
      recreate == \E x \in r : x.strategy = "RECREATE"
      ends == {i \in Mine(insts, d) :
                 \/ insts[i].state = "TERMINATE"
                 \/ ~runs
                 \/ obsolete(i) /\ (recreate \/ insts[i].state = "RUN_STANDBY")}
      state(i) == IF i \in ends THEN IF i \in stopped THEN "FINALIZED" ELSE "TERMINATE"
                  ELSE insts[i].state
      old == [i \in {i \in Mine(insts, d) : state(i) # insts[i].state} |->
                [insts[i] EXCEPT !.state = state(i)]]
      places == /\ runs /\ \A x \in r : x.node \in members
                /\ \A i \in Mine(insts, d) \ ends : obsolete(i)
                /\ ~(recreate /\ \E i \in ends : i \notin stopped)
      target == IF \E i \in Mine(insts, d) \ ends : insts[i].state = "RUN_SERVING"
                THEN "RUN_STANDBY" ELSE "RUN_SERVING"
  IN IF places THEN Over(Only(id, instance(d, current[d], target)), old) ELSE old

\* A commit of kind k; the version table and the ids follow from its rows.
Commit(k, u) ==
  /\ left[k] > 0
  /\ left' = [left EXCEPT ![k] = @ - 1]
  /\ applyLocked(u)
  /\ docs' = Over([key \in {<<d, u.docs[d].version>> : d \in {d \in DOMAIN u.docs : u.docs[d] # Gone}}
                     |-> u.docs[key[1]]], docs)
  /\ issued' = Max({issued} \cup DOMAIN u.insts)

\* Service.Create and Service.Update: a new version of the whole document.
Write(d) ==
  \E new \in scope.docs[d], stopped \in SUBSET Mine(cache.instances, d) :
    LET r == Stamped(new, 1 + Cardinality({key \in DOMAIN docs : key[1] = d}))
        current == Over(Only(d, r), cache.current)
    IN /\ d \in DOMAIN cache.current \/ r.version = 1
       /\ Commit("write", Update(Only(d, r), Nothing, Nothing,
            Rescheduled(current, DOMAIN cache.nodes, cache.instances, d, stopped, issued + 1)))

Delete(d) ==
  \E stopped \in SUBSET Mine(cache.instances, d) :
    LET current == Without(cache.current, {d}) IN
    /\ d \in DOMAIN cache.current
    /\ Mine(cache.instances, d) = {} => cache.current[d].strategy = "STOPPED"
    /\ Commit("change", Update(Only(d, Gone), Nothing, Nothing,
         Rescheduled(current, DOMAIN cache.nodes, cache.instances, d, stopped, issued + 1)))

\* Runners that were told to end have ended.
Stopped(d) ==
  \E stopped \in SUBSET {i \in Mine(cache.instances, d) : cache.instances[i].state = "TERMINATE"} :
    /\ stopped # {}
    /\ Commit("turn", Update(Nothing, Nothing, Nothing,
         Rescheduled(cache.current, DOMAIN cache.nodes, cache.instances, d, stopped, issued + 1)))

\* The instance that warms up takes over.
Promote(d) ==
  \E e \in Mine(cache.instances, d) :
    /\ cache.instances[e].state = "RUN_STANDBY"
    /\ d \in DOMAIN cache.current /\ cache.current[d].node \in DOMAIN cache.nodes
    /\ cache.current[d].version = cache.instances[e].version
    /\ Commit("turn", Update(Nothing, Nothing, Nothing,
         [i \in {i \in Mine(cache.instances, d) :
                   i = e \/ (i < e /\ cache.instances[i].state \in {"RUN_SERVING", "RUN_STANDBY"})} |->
            [cache.instances[i] EXCEPT !.state = IF i = e THEN "RUN_SERVING" ELSE "RUN_DRAINING"]]))

\* A drain ends, by the barrier or by its deadline.
Drained(i) ==
  /\ cache.instances[i].state = "RUN_DRAINING"
  /\ \E state \in {"TERMINATE", "FINALIZED"} :
       Commit("turn", Update(Nothing, Nothing, Nothing,
         Only(i, [cache.instances[i] EXCEPT !.state = state])))

\* A session hello or a host address report.
Report(n) ==
  \E row \in scope.reports :
    /\ n \in DOMAIN cache.nodes /\ row # cache.nodes[n]
    /\ Commit("change", Update(Nothing, Only(n, row), Nothing, Nothing))

\* EvictNode: the node's system deployments and its instances go with it, and
\* what they blocked is placed.
EvictNode(n) ==
  LET gone == {d \in DOMAIN cache.current : cache.current[d].node = n
                                              /\ cache.current[d].space = SystemSpace}
      lost == {i \in DOMAIN cache.instances : cache.instances[i].node = n}
      touched == {cache.instances[i].dep : i \in lost}
      rows(d) == Rescheduled(Without(cache.current, gone), DOMAIN cache.nodes \ {n},
                             Without(cache.instances, lost), d, {},
                             issued + Cardinality({e \in touched : e <= d}))
      insts == [i \in lost \cup (UNION {DOMAIN rows(d) : d \in touched}) |->
                  IF i \in lost THEN [cache.instances[i] EXCEPT !.state = "FINALIZED"]
                  ELSE rows(CHOOSE d \in touched : i \in DOMAIN rows(d))[i]]
  IN /\ n \in DOMAIN cache.nodes \cap scope.evicts
     /\ Commit("change", Update([x \in gone |-> Gone], Only(n, Gone), Nothing, insts))

\* An enrollment is accepted; the node's netproxy is written next.
Join(n) ==
  /\ n \in Nodes \ DOMAIN cache.nodes
  /\ <<Netproxy(n), 1>> \notin DOMAIN docs
  /\ Commit("change", Update(Nothing, Only(n, [key |-> 1, addrs |-> scope.addrs]), Nothing, Nothing))

\* The peers are looked up before the write's transaction, so a policy may be
\* stored after the deployment it names was deleted.
PutPolicy(k) ==
  \E policy \in scope.policies :
    /\ \A d \in {policy.source.dep, policy.destination.dep} \ {0} : <<d, 1>> \in DOMAIN docs
    /\ Commit("change", Update(Nothing, Nothing, Only(k, policy), Nothing))

DeletePolicy(k) ==
  /\ k \in DOMAIN cache.policies
  /\ Commit("change", Update(Nothing, Nothing, Only(k, Gone), Nothing))

------------------------------------------------------------------------------

\* seedCache: the versions that are current or pinned by a live instance.
seedVersions(c) ==
  [key \in {<<d, c.current[d].version>> : d \in DOMAIN c.current}
              \cup {Key(c.instances[i]) : i \in DOMAIN c.instances} |->
     [doc |-> docs[key],
      pins |-> Cardinality({i \in DOMAIN c.instances : Key(c.instances[i]) = key})]]

\* seedLocked: the cache, the plan and every map, from the tables.
seedLocked(c) ==
  LET seeded == [c EXCEPT !.versions = seedVersions(c)]
      pl == renderIngressPlan(seeded)
  IN [cache |-> seeded, plan |-> pl,
      maps |-> [n \in DOMAIN c.nodes |-> renderNode(prepareRender(seeded, pl), n)]]

netproxyDoc(n) ==
  Stamped(doc(SystemSpace, n, "netproxy", TRUE, {}, "RECREATE"), 1)

\* A cluster of members, each with its netproxy.
Init ==
  /\ scope \in Scopes
  /\ left = scope.left
  /\ docs = [key \in {<<Netproxy(n), 1>> : n \in scope.members} |-> netproxyDoc(key[1] - 100)]
  /\ issued = Max(Nodes)
  /\ LET tables == [nodes |-> [n \in scope.members |-> [key |-> 1, addrs |-> scope.addrs]],
                    current |-> [d \in {Netproxy(n) : n \in scope.members} |-> docs[<<d, 1>>]],
                    versions |-> Nothing,
                    instances |-> [n \in scope.members |->
                                     instance(Netproxy(n), docs[<<Netproxy(n), 1>>], "RUN_SERVING")],
                    policies |-> Nothing]
         seed == seedLocked(tables)
     IN cache = seed.cache /\ plan = seed.plan /\ maps = seed.maps

Next ==
  /\ \/ \E d \in DOMAIN scope.docs : Write(d) \/ Delete(d) \/ Stopped(d) \/ Promote(d)
     \/ \E i \in DOMAIN cache.instances : Drained(i)
     \/ \E n \in Nodes : Report(n) \/ EvictNode(n) \/ Join(n)
     \/ \E k \in PolicyIds : PutPolicy(k) \/ DeletePolicy(k)
  /\ UNCHANGED scope

Spec == Init /\ [][Next]_<<vars, scope>>

------------------------------------------------------------------------------
(* Properties.                                                              *)

Seeded == seedLocked(cache)

\* The fold keeps exactly the document versions a restart would load: every
\* live instance finds the version it pins, no instance finds a newer one, and
\* nothing is kept for good.
Folded == cache = Seeded.cache

\* The maps are those a restart would render: a commit re-renders every node
\* whose map it changes, whatever the order of writes, promotions, drains,
\* evictions, reports and policies before it.
Current == plan = Seeded.plan /\ maps = Seeded.maps

\* Whether a workload may open a connection to another, stated pair by pair.
MayInitiate(rc, a, b) ==
  \/ a.netproxy /\ b.dep \in rc.published[a.node]
  \/ /\ SystemSpace \notin {a.space, b.space}
     /\ \/ a.space = b.space \/ b.space = GlobalSpace
        \/ \E r \in rc.rules : r.source.space = a.space /\ r.destination.space = b.space

\* For every two workloads of which one may call the other, both nodes hold
\* the other's routes and list the other's node, and the caller's node can
\* resolve the callee.
BothEnds ==
  LET rc == prepareRender(cache, plan)
      knows(n, p) == /\ route(p, p.id) \in maps[n].routes
                     /\ p.serving => route(p, 0) \in maps[n].routes
                     /\ p.node \in DOMAIN maps[n].nodes
  IN \A a, b \in rc.placements :
       MayInitiate(rc, a, b) =>
         knows(a.node, b) /\ knows(b.node, a) /\ b.dep \in DOMAIN maps[a.node].services

\* Why a map may list a workload: it is the node's own, may call or be called
\* by one of its own, or is published there.
Concerns(rc, n, b) ==
  \/ b.node = n \/ b.dep \in rc.published[n]
  \/ \E a \in On(rc, n) : MayInitiate(rc, a, b) \/ MayInitiate(rc, b, a)

\* A map lists routes of no other workloads (engineering/networking.md: "each
\* node's map is scoped to what its workloads may reach").
OnlyReachable ==
  LET rc == prepareRender(cache, plan) IN
  \A n \in DOMAIN maps : \A r \in maps[n].routes :
    \E b \in rc.placements : r \in {route(b, b.id), route(b, 0)} /\ Concerns(rc, n, b)

=============================================================================
