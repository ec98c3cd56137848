-------------------------- MODULE RenderingProofs --------------------------
(***************************************************************************)
(* For every cluster: a node's map lists exactly the workloads that        *)
(* concern it, and a node outside the dirty set of a commit would be       *)
(* rendered the same map again.                                            *)
(***************************************************************************)
EXTENDS Rendering, TLAPS

\* A space in a node's scope has the node among those that reach the space.
LEMMA ScopeReaches ==
  ASSUME NEW rc, NEW n, NEW s \in forward(rc, n) \cup reverse(rc, n)
  PROVE  n \in nodesReaching(rc, s)
<1>1. \A t \in own(rc, n) : n \in hosts(rc, t)
  BY DEF own, hosts, On, Within
<1>2. CASE s \in own(rc, n)
  BY <1>1, <1>2 DEF nodesReaching
<1>3. CASE \E t \in own(rc, n) : s \in out(rc, t)
  <2>1. PICK t \in own(rc, n) : s \in out(rc, t)
    BY <1>3
  <2>2. t \in in(rc, s)
    BY <2>1 DEF out, in
  <2> QED
    BY <1>1, <2>1, <2>2 DEF nodesReaching
<1>4. CASE \E t \in own(rc, n) : s \in in(rc, t)
  <2>1. PICK t \in own(rc, n) : s \in in(rc, t)
    BY <1>4
  <2>2. t \in out(rc, s)
    BY <2>1 DEF out, in
  <2> QED
    BY <1>1, <2>1, <2>2 DEF nodesReaching
<1>5. CASE s = GlobalSpace /\ own(rc, n) # {}
  <2>1. n \in {p.node : p \in {p \in rc.placements : p.space # SystemSpace}}
    BY <1>5 DEF own, On
  <2> QED
    BY <1>5, <2>1 DEF nodesReaching
<1> QED
  BY <1>2, <1>3, <1>4, <1>5 DEF forward, reverse

\* scope: a map lists exactly the workloads that concern its node.
THEOREM ScopeExact ==
  ASSUME NEW rc, NEW n \in Nodes,
         \A p \in rc.placements : p.node \in Nodes /\ (p.netproxy => p.space = SystemSpace)
  PROVE  scopePlacements(rc, n) = {b \in rc.placements : Concerns(rc, n, b)}
<1>1. ASSUME NEW b \in scopePlacements(rc, n)
      PROVE  b \in rc.placements /\ Concerns(rc, n, b)
  <2>1. b \in rc.placements
    BY <1>1 DEF scopePlacements, On, Within, Of, Callers
  <2>2. CASE b \in On(rc, n) \cup Of(rc, rc.published[n])
    BY <2>1, <2>2 DEF On, Of, Concerns
  <2>3. CASE \E s \in forward(rc, n) \cup reverse(rc, n) : b \in Within(rc, s)
    <3>1. b.space \in forward(rc, n) \cup reverse(rc, n) /\ b.space # SystemSpace
      BY <2>3 DEF Within, forward, reverse
    <3>2. PICK a \in On(rc, n) :
            /\ a.space # SystemSpace
            /\ \/ a.space = b.space \/ b.space = GlobalSpace
               \/ b.space \in out(rc, a.space) \/ b.space \in in(rc, a.space)
      BY <3>1 DEF forward, reverse, own
    <3>3. MayInitiate(rc, a, b) \/ MayInitiate(rc, b, a)
      BY <3>1, <3>2 DEF MayInitiate, out, in
    <3> QED
      BY <2>1, <3>2, <3>3 DEF Concerns
  <2>4. CASE b \in Callers(rc, n)
    <3>1. PICK a \in On(rc, n) : a.space = GlobalSpace
      BY <2>4 DEF Callers, own
    <3>2. MayInitiate(rc, b, a)
      BY <2>4, <3>1 DEF Callers, MayInitiate, GlobalSpace, SystemSpace
    <3> QED
      BY <2>1, <3>1, <3>2 DEF Concerns
  <2>5. CASE b.netproxy /\ b.node \in Fronts(rc, n)
    <3>1. PICK a \in Of(rc, rc.published[b.node]) : a.node = n
      BY <2>5 DEF Fronts
    <3>2. a \in On(rc, n) /\ MayInitiate(rc, b, a)
      BY <2>5, <3>1 DEF Of, On, MayInitiate
    <3> QED
      BY <2>1, <3>2 DEF Concerns
  <2> QED
    BY <1>1, <2>2, <2>3, <2>4, <2>5 DEF scopePlacements
<1>2. ASSUME NEW b \in rc.placements, Concerns(rc, n, b)
      PROVE  b \in scopePlacements(rc, n)
  <2>1. CASE b.node = n \/ b.dep \in rc.published[n]
    BY <2>1 DEF On, Of, scopePlacements
  <2>2. ASSUME NEW a \in On(rc, n), MayInitiate(rc, a, b)
        PROVE  b \in scopePlacements(rc, n)
    <3>1. CASE a.netproxy /\ b.dep \in rc.published[a.node]
      BY <3>1 DEF On, Of, scopePlacements
    <3>2. CASE SystemSpace \notin {a.space, b.space}
      <4>1. a.space \in own(rc, n)
        BY <3>2 DEF own
      <4>2. a.space = b.space \/ b.space = GlobalSpace \/ b.space \in out(rc, a.space)
             \/ (a.netproxy /\ b.dep \in rc.published[a.node])
        BY <2>2 DEF MayInitiate, out
      <4>3. b.space \in forward(rc, n) \/ (a.netproxy /\ b.dep \in rc.published[a.node])
        BY <3>2, <4>1, <4>2 DEF forward
      <4> QED
        BY <3>1, <4>3 DEF Within, scopePlacements
    <3> QED
      BY <2>2, <3>1, <3>2 DEF MayInitiate
  <2>3. ASSUME NEW a \in On(rc, n), MayInitiate(rc, b, a)
        PROVE  b \in scopePlacements(rc, n)
    <3>1. CASE b.netproxy /\ a.dep \in rc.published[b.node]
      <4>1. a \in Of(rc, rc.published[b.node]) /\ a.node = n
        BY <3>1 DEF On, Of
      <4>2. b.node = n \/ b.node \in Fronts(rc, n)
        BY <4>1 DEF Fronts
      <4> QED
        BY <2>1, <3>1, <4>2 DEF scopePlacements
    <3>2. CASE SystemSpace \notin {a.space, b.space} /\ a.space = GlobalSpace
      BY <3>2 DEF own, Callers, scopePlacements
    <3>3. CASE SystemSpace \notin {a.space, b.space} /\ a.space # GlobalSpace /\ ~b.netproxy
      <4>1. a.space \in own(rc, n)
        BY <3>3 DEF own
      <4>2. a.space = b.space \/ b.space \in in(rc, a.space)
        BY <2>3, <3>3 DEF MayInitiate, in
      <4>3. b.space \in reverse(rc, n)
        BY <3>3, <4>1, <4>2 DEF reverse
      <4> QED
        BY <4>3 DEF Within, scopePlacements
    <3> QED
      BY <2>3, <3>1, <3>2, <3>3 DEF MayInitiate
  <2> QED
    BY <1>2, <2>1, <2>2, <2>3 DEF Concerns
<1> QED
  BY <1>1, <1>2
------------------------------------------------------------------------------
(* Soundness of the dirty set.                                              *)

Differ(A, B) == (A \ B) \cup (B \ A)

\* The service of d is in both renderings, and the same.
SameService(rc, new, d) ==
  d \in DOMAIN rc.services \cap DOMAIN new.services /\ rc.services[d] = new.services[d]

\* Everything rendered of the deployment of row i is in the row's space: the
\* deployment has not moved.
KeepsSpace(rc, i) ==
  /\ \A p \in rc.placements : p.dep = i.dep => p.space = i.space
  /\ i.dep \in DOMAIN rc.services => rc.services[i.dep].space = i.space

\* What a commit of instance rows I may change of a rendering: the placements
\* of the rows and the services of their deployments.
InstanceRows(rc, new, I) ==
  /\ new.nodes = rc.nodes /\ new.rules = rc.rules /\ new.published = rc.published
  /\ \A p \in Differ(rc.placements, new.placements) :
       /\ p.netproxy => p.space = SystemSpace
       /\ \E i \in I : p.node = i.node /\ p.dep = i.dep
  /\ \A d \in DOMAIN rc.services \cup DOMAIN new.services :
       SameService(rc, new, d) \/ \E i \in I : i.dep = d
  /\ \A i \in I : /\ KeepsSpace(rc, i) /\ KeepsSpace(new, i)
                  /\ i.space = SystemSpace => \A m \in Nodes : i.dep \notin rc.published[m]

\* A node hosting a workload of a space, or of the global space, reaches the
\* space.
LEMMA HostsReach ==
  ASSUME NEW rc, NEW n, NEW p \in On(rc, n), NEW s, p.space \in {s, GlobalSpace}
  PROVE  n \in nodesReaching(rc, s)
<1>1. n \in hosts(rc, p.space)
  BY DEF On, hosts, Within
<1> QED
  BY <1>1 DEF nodesReaching

\* dirtyInstance: while no deployment moves to another space, a commit of
\* instance rows changes the map of no node outside its dirty set.
THEOREM InstanceDirty ==
  ASSUME NEW rc, NEW new, NEW I, NEW n \in Nodes, InstanceRows(rc, new, I),
         \A i \in I : n \notin dirtyInstance(rc, i)
  PROVE  renderNode(new, n) = renderNode(rc, n)
<1>1. \A i \in I :
        /\ n # i.node
        /\ i.space = SystemSpace => n \notin hostsOf(rc, rc.published[i.node])
        /\ i.space # SystemSpace => /\ n \notin nodesReaching(rc, i.space)
                                    /\ i.dep \notin rc.published[n]
  BY DEF dirtyInstance, publishersOf
<1>2. \A i \in I : i.dep \notin rc.published[n]
  BY <1>1 DEF InstanceRows
<1>3. \A p \in Differ(rc.placements, new.placements) :
        \E i \in I : p.node = i.node /\ p.dep = i.dep /\ p.space = i.space
  BY DEF InstanceRows, KeepsSpace, Differ
<1>4. On(new, n) = On(rc, n)
  BY <1>1, <1>3 DEF On, Differ
<1>5. /\ own(new, n) = own(rc, n)
      /\ forward(new, n) = forward(rc, n) /\ reverse(new, n) = reverse(rc, n)
  <2>1. \A s : out(new, s) = out(rc, s) /\ in(new, s) = in(rc, s)
    BY DEF InstanceRows, out, in
  <2>2. own(new, n) = own(rc, n)
    BY <1>4 DEF own
  <2> QED
    BY <2>1, <2>2 DEF forward, reverse
<1>6. \A i \in I : i.space \notin forward(rc, n) \cup reverse(rc, n)
  <2>1. SystemSpace \notin forward(rc, n) \cup reverse(rc, n)
    BY DEF forward, reverse
  <2> QED
    BY <1>1, <2>1, ScopeReaches
<1>7. \A s \in forward(rc, n) \cup reverse(rc, n) : Within(new, s) = Within(rc, s)
  BY <1>3, <1>6 DEF Within, Differ
<1>8. Callers(new, n) = Callers(rc, n)
  <2>1. ASSUME GlobalSpace \in own(rc, n), NEW i \in I
        PROVE  i.space = SystemSpace
    <3>1. PICK p \in On(rc, n) : p.space = GlobalSpace
      BY <2>1 DEF own
    <3>2. n \in nodesReaching(rc, i.space)
      BY <3>1, HostsReach
    <3> QED
      BY <1>1, <3>2
  <2> QED
    BY ZenonT(30), <1>3, <1>5, <2>1 DEF Callers, Differ
<1>9. Of(new, new.published[n]) = Of(rc, rc.published[n])
  BY <1>2, <1>3 DEF Of, Differ, InstanceRows
<1>10. Fronts(new, n) = Fronts(rc, n)
  <2>1. \A D : (\E p \in Of(new, D) : p.node = n) <=> (\E p \in Of(rc, D) : p.node = n)
    BY <1>4 DEF Of, On
  <2> QED
    BY <2>1 DEF Fronts, InstanceRows
<1>11. {p \in new.placements : p.netproxy /\ p.node \in Fronts(rc, n)}
         = {p \in rc.placements : p.netproxy /\ p.node \in Fronts(rc, n)}
  <2>1. ASSUME NEW p \in Differ(rc.placements, new.placements), p.netproxy
        PROVE  p.node \notin Fronts(rc, n)
    <3>1. PICK i \in I : p.node = i.node /\ p.dep = i.dep /\ p.space = i.space
      BY <1>3
    <3>2. n \notin hostsOf(rc, rc.published[p.node])
      BY <1>1, <2>1, <3>1 DEF InstanceRows
    <3> QED
      BY <3>2 DEF Fronts, hostsOf
  <2> QED
    BY <2>1 DEF Differ
<1>12. scopePlacements(new, n) = scopePlacements(rc, n)
  BY <1>4, <1>5, <1>7, <1>8, <1>9, <1>10, <1>11 DEF scopePlacements
<1>13. ASSUME NEW d \in scopeCatalog(rc, n) \cup scopeCatalog(new, n),
              d \in DOMAIN rc.services \cup DOMAIN new.services
       PROVE  SameService(rc, new, d)
  <2>1. SUFFICES ASSUME NEW i \in I, i.dep = d PROVE FALSE
    BY <1>13 DEF InstanceRows
  <2>2. CASE d \in rc.published[n]
    BY <1>2, <2>1, <2>2
  <2>3. CASE \E p \in On(rc, n) : p.dep = d /\ p.space # SystemSpace
    <3>1. PICK p \in On(rc, n) : p.dep = d /\ p.space # SystemSpace
      BY <2>3
    <3>2. p.space = i.space
      BY <2>1, <3>1 DEF InstanceRows, KeepsSpace, On
    <3>3. n \in nodesReaching(rc, i.space)
      BY <3>2, HostsReach
    <3> QED
      BY <1>1, <3>1, <3>2, <3>3
  <2>4. CASE \/ d \in DOMAIN rc.services /\ rc.services[d].space \in forward(rc, n)
             \/ d \in DOMAIN new.services /\ new.services[d].space \in forward(rc, n)
    BY <1>6, <2>1, <2>4 DEF InstanceRows, KeepsSpace
  <2> QED
    BY <1>4, <1>5, <1>13, <2>2, <2>3, <2>4 DEF scopeCatalog, InstanceRows
<1>14. scopeCatalog(new, n) \cap DOMAIN new.services = scopeCatalog(rc, n) \cap DOMAIN rc.services
  BY <1>4, <1>5, <1>13 DEF scopeCatalog, SameService, InstanceRows
<1>15. Restrict(new.services, scopeCatalog(new, n) \cap DOMAIN new.services)
         = Restrict(rc.services, scopeCatalog(rc, n) \cap DOMAIN rc.services)
  <2>1. \A d \in scopeCatalog(rc, n) \cap DOMAIN rc.services : new.services[d] = rc.services[d]
    BY <1>13 DEF SameService
  <2> QED
    BY <1>14, <2>1 DEF Restrict
<1> QED
  BY ZenonT(30), <1>5, <1>12, <1>15 DEF renderNode, InstanceRows

\* What a commit of policy rows may change of a rendering: rules between the
\* spaces S.
PolicyRows(rc, new, S) ==
  /\ new.nodes = rc.nodes /\ new.services = rc.services
  /\ new.published = rc.published /\ new.placements = rc.placements
  /\ \A r \in Differ(rc.rules, new.rules) : {r.source.space, r.destination.space} \subseteq S

\* A change of rules between the spaces S changes the map of no node that
\* reached none of them before.
LEMMA RulesDirty ==
  ASSUME NEW rc, NEW new, NEW S, NEW n \in Nodes, PolicyRows(rc, new, S),
         n \notin UNION {nodesReaching(rc, s) : s \in S}
  PROVE  renderNode(new, n) = renderNode(rc, n)
<1>1. /\ On(new, n) = On(rc, n) /\ own(new, n) = own(rc, n)
      /\ \A s : Within(new, s) = Within(rc, s)
      /\ \A D : Of(new, D) = Of(rc, D)
  BY DEF PolicyRows, On, own, Within, Of
<1>2. S \cap own(rc, n) = {}
  <2>1. ASSUME NEW s \in S, s \in own(rc, n)
        PROVE  FALSE
    <3>1. PICK p \in On(rc, n) : p.space = s
      BY <2>1 DEF own
    <3> QED
      BY <3>1, HostsReach
  <2> QED
    BY <2>1
<1>3. \A s \in own(rc, n) : out(new, s) = out(rc, s) /\ in(new, s) = in(rc, s)
  BY <1>2 DEF PolicyRows, Differ, out, in
<1>4. forward(new, n) = forward(rc, n) /\ reverse(new, n) = reverse(rc, n)
  BY <1>1, <1>3 DEF forward, reverse
<1>5. Callers(new, n) = Callers(rc, n) /\ Fronts(new, n) = Fronts(rc, n)
  BY <1>1 DEF Callers, Fronts, PolicyRows
<1>6. scopePlacements(new, n) = scopePlacements(rc, n)
  BY <1>1, <1>4, <1>5 DEF scopePlacements, PolicyRows
<1>7. scopeCatalog(new, n) = scopeCatalog(rc, n)
  BY <1>1, <1>4 DEF scopeCatalog, PolicyRows
<1>8. ASSUME NEW r \in Differ(rc.rules, new.rules)
      PROVE  /\ r.source.space \notin forward(rc, n) \cup reverse(rc, n)
             /\ r.destination.space \notin forward(rc, n) \cup reverse(rc, n)
  BY <1>8, ScopeReaches DEF PolicyRows
<1> QED
  BY ZenonT(30), <1>4, <1>6, <1>7, <1>8 DEF renderNode, PolicyRows, Differ

\* prepareRender reads the policies only for the rules.
LEMMA OtherFields ==
  ASSUME NEW c, NEW c2, NEW pl, c2.versions = c.versions,
         c2.nodes = c.nodes, c2.instances = c.instances
  PROVE  /\ prepareRender(c2, pl).nodes = prepareRender(c, pl).nodes
         /\ prepareRender(c2, pl).placements = prepareRender(c, pl).placements
         /\ prepareRender(c2, pl).services = prepareRender(c, pl).services
         /\ prepareRender(c2, pl).published = prepareRender(c, pl).published
<1> DEFINE virtual(x) == {i \in DOMAIN x.instances : config(x, i).virtual}
           wanted(x) == {i \in virtual(x) : x.instances[i].state \in WantsRunning}
           placed(x) == {Placement(x, i) : i \in wanted(x)}
           offered(x) == [d \in {x.instances[i].dep : i \in virtual(x)} |-> Service(x, d, virtual(x))]
           joined(x) == [n \in DOMAIN x.nodes |-> [key |-> x.nodes[n].key, publish |-> pl.publish[n]]]
<1>1. \A i : config(c2, i) = config(c, i)
  BY Zenon DEF config
<1>2. \A i : Placement(c2, i) = Placement(c, i)
  BY Zenon, <1>1 DEF Placement
<1>3. \A d, v : Service(c2, d, v) = Service(c, d, v)
  BY Zenon, <1>1 DEF Service
<1>4. virtual(c2) = virtual(c)
  BY <1>1
<1>5. wanted(c2) = wanted(c)
  BY Zenon, <1>4
<1>6. \A x : prepareRender(x, pl) = [nodes |-> joined(x), placements |-> placed(x), services |-> offered(x),
                                     rules |-> renderPolicyRules(x), published |-> pl.published]
  BY Zenon DEF prepareRender
<1>7. joined(c2) = joined(c)
  BY Zenon
<1> HIDE DEF virtual, wanted, joined
<1>8. placed(c2) = placed(c)
  BY Zenon, <1>2, <1>5
<1>9. offered(c2) = offered(c)
  BY Zenon, <1>3, <1>4
<1> HIDE DEF placed, offered
<1>10. \A x : /\ prepareRender(x, pl).nodes = joined(x) /\ prepareRender(x, pl).placements = placed(x)
              /\ prepareRender(x, pl).services = offered(x)
              /\ prepareRender(x, pl).published = pl.published
  BY <1>6
<1> QED
  BY Zenon, <1>7, <1>8, <1>9, <1>10

\* The rule a policy stands for.
Rule(c, policy) == [source |-> resolvePolicyPeer(c, policy.source),
                    destination |-> resolvePolicyPeer(c, policy.destination)]

Ruled(c, policy) == Resolves(c, policy.source) /\ Resolves(c, policy.destination)

\* The rules of a rendering are those of the policies whose peers exist.
LEMMA RulesOf ==
  ASSUME NEW c, NEW pl
  PROVE  \A r : r \in prepareRender(c, pl).rules
           <=> \E j \in DOMAIN c.policies : Ruled(c, c.policies[j]) /\ r = Rule(c, c.policies[j])
<1>1. prepareRender(c, pl).rules = renderPolicyRules(c)
  BY DEF prepareRender
<1>2. \A r : r \in renderPolicyRules(c)
        <=> \E j \in DOMAIN c.policies : Ruled(c, c.policies[j]) /\ r = Rule(c, c.policies[j])
  BY Zenon DEF renderPolicyRules, Ruled, Rule
<1> QED
  BY Zenon, <1>1, <1>2

\* Peers are looked up among the current documents.
LEMMA SamePeers ==
  ASSUME NEW c, NEW c2, c2.current = c.current, NEW policy
  PROVE  Rule(c2, policy) = Rule(c, policy) /\ Ruled(c2, policy) = Ruled(c, policy)
BY Zenon DEF Rule, Ruled, resolvePolicyPeer, Resolves

\* dirtyPolicy: a commit that writes, replaces or deletes the policy k changes
\* the map of no node outside its dirty set.  c and c2 are the publisher's
\* cache before and after, pl the ingress plan, which no policy touches.
THEOREM PolicyDirty ==
  ASSUME NEW c, NEW c2, NEW pl, NEW k, NEW n \in Nodes,
         c2.current = c.current, c2.versions = c.versions,
         c2.nodes = c.nodes, c2.instances = c.instances,
         \A j : j # k => Row(c2.policies, j) = Row(c.policies, j),
         n \notin dirtyPolicy(prepareRender(c, pl), c2, Row(c.policies, k), Row(c2.policies, k))
  PROVE  renderNode(prepareRender(c2, pl), n) = renderNode(prepareRender(c, pl), n)
<1> DEFINE rc == prepareRender(c, pl)
           new == prepareRender(c2, pl)
           touched == Row(c.policies, k) \cup Row(c2.policies, k)
           S == UNION {policySpaces(c2, policy) : policy \in touched}
<1>1. /\ new.nodes = rc.nodes /\ new.placements = rc.placements
      /\ new.services = rc.services /\ new.published = rc.published
  BY OtherFields
<1>2. \A j : j # k => /\ j \in DOMAIN c.policies <=> j \in DOMAIN c2.policies
                      /\ j \in DOMAIN c.policies => c.policies[j] = c2.policies[j]
  BY ZenonT(30) DEF Row
<1>3. n \notin UNION {nodesReaching(rc, s) : s \in S}
  BY Zenon DEF dirtyPolicy
<1>4. /\ k \in DOMAIN c.policies => c.policies[k] \in touched
      /\ k \in DOMAIN c2.policies => c2.policies[k] \in touched
  BY Zenon DEF Row
<1>5. /\ \A r : r \in rc.rules <=> \E j \in DOMAIN c.policies :
                                     Ruled(c, c.policies[j]) /\ r = Rule(c, c.policies[j])
      /\ \A r : r \in new.rules <=> \E j \in DOMAIN c2.policies :
                                      Ruled(c2, c2.policies[j]) /\ r = Rule(c2, c2.policies[j])
  BY RulesOf
<1>6. \A policy : Rule(c2, policy) = Rule(c, policy) /\ Ruled(c2, policy) = Ruled(c, policy)
  BY Zenon, SamePeers
<1> HIDE DEF rc, new, touched
<1>7. ASSUME NEW r \in Differ(rc.rules, new.rules)
      PROVE  {r.source.space, r.destination.space} \subseteq S
  <2>1. PICK policy \in touched : Ruled(c2, policy) /\ r = Rule(c2, policy)
    <3>1. CASE r \in rc.rules /\ r \notin new.rules
      <4>1. PICK j \in DOMAIN c.policies : Ruled(c, c.policies[j]) /\ r = Rule(c, c.policies[j])
        BY Zenon, <1>5, <3>1
      <4>2. j = k
        BY Zenon, <1>2, <1>5, <1>6, <3>1, <4>1
      <4> QED
        BY Zenon, <1>4, <1>6, <4>1, <4>2
    <3>2. CASE r \in new.rules /\ r \notin rc.rules
      <4>1. PICK j \in DOMAIN c2.policies : Ruled(c2, c2.policies[j]) /\ r = Rule(c2, c2.policies[j])
        BY Zenon, <1>5, <3>2
      <4>2. j = k
        BY Zenon, <1>2, <1>5, <1>6, <3>2, <4>1
      <4> QED
        BY Zenon, <1>4, <4>1, <4>2
    <3> QED
      BY Zenon, <1>7, <3>1, <3>2 DEF Differ
  <2>2. policySpaces(c2, policy) = {r.source.space, r.destination.space}
    BY <2>1 DEF policySpaces, Rule, Ruled
  <2> QED
    BY Zenon, <2>1, <2>2
<1> HIDE DEF S
<1>8. PolicyRows(rc, new, S)
  BY Zenon, <1>1, <1>7 DEF PolicyRows
<1>9. renderNode(new, n) = renderNode(rc, n)
  BY Zenon, <1>3, <1>8, RulesDirty
<1> QED
  BY Zenon, <1>9 DEF rc, new

------------------------------------------------------------------------------
(* Instance rows and a new plan in one commit.                              *)

\* Instance rows leave alone what a node outside their dirty set hosts.
LEMMA HostedKept ==
  ASSUME NEW rc, NEW new, NEW I, NEW n \in Nodes, InstanceRows(rc, new, I),
         \A i \in I : n \notin dirtyInstance(rc, i)
  PROVE  On(new, n) = On(rc, n)
<1>1. \A i \in I : n # i.node
  BY DEF dirtyInstance
<1> QED
  BY <1>1 DEF InstanceRows, On, Differ

\* nodesReaching looks only at what the node itself hosts and at the rules.
LEMMA ReachKept ==
  ASSUME NEW rc, NEW new, NEW n, NEW s, new.rules = rc.rules, On(new, n) = On(rc, n),
         n \in nodesReaching(new, s)
  PROVE  n \in nodesReaching(rc, s)
<1>1. out(new, s) = out(rc, s) /\ in(new, s) = in(rc, s)
  BY DEF out, in
<1>2. \A t : n \in hosts(new, t) => n \in hosts(rc, t)
  BY DEF hosts, Within, On
<1>3. n \in {p.node : p \in {p \in new.placements : p.space # SystemSpace}}
        => n \in {p.node : p \in {p \in rc.placements : p.space # SystemSpace}}
  BY DEF On
<1> QED
  BY <1>1, <1>2, <1>3 DEF nodesReaching

\* A node outside the dirty set of instance rows that sees node m after them saw
\* it before: dirtyPlan may judge by the rendering before the commit.
LEMMA SeeingKept ==
  ASSUME NEW rc, NEW new, NEW I, NEW n \in Nodes, NEW m, InstanceRows(rc, new, I),
         \A i \in I : n \notin dirtyInstance(rc, i),
         n \in nodesSeeing(new, m)
  PROVE  n \in nodesSeeing(rc, m)
<1>1. On(new, n) = On(rc, n)
  BY HostedKept
<1>2. new.rules = rc.rules /\ new.published = rc.published
  BY DEF InstanceRows
<1>3. CASE n = m
  BY <1>3 DEF nodesSeeing
<1>4. CASE n \in hostsOf(new, new.published[m])
  <2>1. n \in hostsOf(rc, rc.published[m])
    BY <1>1, <1>2, <1>4 DEF hostsOf, Of, On
  <2> QED
    BY <2>1 DEF nodesSeeing
<1>5. ASSUME NEW p \in On(new, m), p.space # SystemSpace,
             n \in nodesReaching(new, p.space) \cup publishersOf(new, p.dep)
      PROVE  n \in nodesSeeing(rc, m)
  <2>1. n \in nodesReaching(rc, p.space) \cup publishersOf(rc, p.dep)
    BY <1>1, <1>2, <1>5, ReachKept DEF publishersOf
  <2>2. p \in On(rc, m)
    <3>1. SUFFICES ASSUME p \notin rc.placements PROVE FALSE
      BY <1>5 DEF On
    <3>2. PICK i \in I : p.node = i.node /\ p.dep = i.dep /\ p.space = i.space
      BY <1>5, <3>1 DEF InstanceRows, KeepsSpace, Differ, On
    <3> QED
      BY <1>5, <2>1, <3>2 DEF dirtyInstance
  <2> QED
    BY <1>5, <2>1, <2>2 DEF nodesSeeing
<1> QED
  BY <1>3, <1>4, <1>5 DEF nodesSeeing

\* A change of what the nodes publish changes the map of no node that neither sees
\* a node with other addresses nor publishes or hosts what is published anew.
LEMMA PublishDirty ==
  ASSUME NEW rc, NEW new, NEW n \in Nodes,
         new.placements = rc.placements, new.services = rc.services, new.rules = rc.rules,
         DOMAIN new.nodes = DOMAIN rc.nodes,
         \A p \in rc.placements :
           p.node \in Nodes /\ (p.dep \in rc.published[n] => p.space # SystemSpace),
         \A m \in Nodes \cap DOMAIN rc.nodes :
           new.nodes[m] # rc.nodes[m] => n \notin nodesSeeing(rc, m),
         \A m \in Nodes :
           new.published[m] # rc.published[m]
             => n # m /\ n \notin hostsOf(rc, rc.published[m] \cup new.published[m])
  PROVE  renderNode(new, n) = renderNode(rc, n)
<1>1. new.published[n] = rc.published[n]
  BY Zenon
<1>2. /\ On(new, n) = On(rc, n) /\ own(new, n) = own(rc, n)
      /\ \A s : Within(new, s) = Within(rc, s) /\ out(new, s) = out(rc, s) /\ in(new, s) = in(rc, s)
      /\ \A D : Of(new, D) = Of(rc, D)
  BY DEF On, own, Within, Of, out, in
<1>3. forward(new, n) = forward(rc, n) /\ reverse(new, n) = reverse(rc, n)
  BY <1>2 DEF forward, reverse
<1>4. Callers(new, n) = Callers(rc, n)
  BY <1>2 DEF Callers
<1>5. Fronts(new, n) = Fronts(rc, n)
  <2>1. ASSUME NEW m \in Nodes, new.published[m] # rc.published[m]
        PROVE  /\ ~ \E p \in Of(rc, rc.published[m]) : p.node = n
               /\ ~ \E p \in Of(new, new.published[m]) : p.node = n
    BY <1>2, <2>1 DEF hostsOf, Of
  <2> QED
    BY <1>2, <2>1 DEF Fronts
<1>6. scopePlacements(new, n) = scopePlacements(rc, n)
  BY <1>1, <1>2, <1>3, <1>4, <1>5 DEF scopePlacements
<1>7. scopeCatalog(new, n) = scopeCatalog(rc, n)
  BY <1>1, <1>2, <1>3 DEF scopeCatalog
<1>8. ASSUME NEW m \in {n} \cup {p.node : p \in scopePlacements(rc, n)}, m \in DOMAIN rc.nodes
      PROVE  new.nodes[m] = rc.nodes[m]
  <2>1. m \in Nodes
    BY <1>8 DEF scopePlacements, On, Within, Callers, Of
  <2>2. SUFFICES n \in nodesSeeing(rc, m)
    BY <1>8, <2>1
  <2>3. CASE m = n
    BY <2>3 DEF nodesSeeing
  <2>4. CASE m # n
    <3>1. PICK p \in scopePlacements(rc, n) : p.node = m
      BY <1>8, <2>4
    <3>2. p \in rc.placements /\ p \in On(rc, m)
      BY <3>1 DEF scopePlacements, On, Within, Callers, Of
    <3>3. CASE \E s \in forward(rc, n) \cup reverse(rc, n) : p \in Within(rc, s)
      <4>1. p.space \in forward(rc, n) \cup reverse(rc, n) /\ p.space # SystemSpace
        BY <3>3 DEF Within, forward, reverse
      <4>2. n \in nodesReaching(rc, p.space)
        BY <4>1, ScopeReaches
      <4> QED
        BY <3>2, <4>1, <4>2 DEF nodesSeeing
    <3>4. CASE p \in Callers(rc, n)
      <4>1. PICK a \in On(rc, n) : a.space = GlobalSpace
        BY <3>4 DEF Callers, own
      <4>2. n \in nodesReaching(rc, p.space) /\ p.space # SystemSpace
        BY <3>4, <4>1, HostsReach DEF Callers
      <4> QED
        BY <3>2, <4>2 DEF nodesSeeing
    <3>5. CASE p \in Of(rc, rc.published[n])
      <4>1. n \in publishersOf(rc, p.dep) /\ p.space # SystemSpace
        BY <3>5 DEF publishersOf, Of
      <4> QED
        BY <3>2, <4>1 DEF nodesSeeing
    <3>6. CASE p.node \in Fronts(rc, n)
      <4>1. n \in hostsOf(rc, rc.published[m])
        BY <3>1, <3>6 DEF Fronts, hostsOf
      <4> QED
        BY <4>1 DEF nodesSeeing
    <3> QED
      BY <2>4, <3>1, <3>3, <3>4, <3>5, <3>6 DEF scopePlacements, On
  <2> QED
    BY <2>3, <2>4
<1> QED
  BY ZenonT(30), <1>3, <1>6, <1>7, <1>8 DEF renderNode

------------------------------------------------------------------------------
(* From the publisher's cache to the rendering.                             *)

Virtual(c) == {i \in DOMAIN c.instances : config(c, i).virtual}
Wanted(c) == {i \in Virtual(c) : c.instances[i].state \in WantsRunning}
Placed(c) == {Placement(c, i) : i \in Wanted(c)}
Offered(c) == [d \in {c.instances[i].dep : i \in Virtual(c)} |-> Service(c, d, Virtual(c))]
Joined(c, pl) == [n \in DOMAIN c.nodes |-> [key |-> c.nodes[n].key, publish |-> pl.publish[n]]]

\* The fields of a prepared rendering.
LEMMA Rendered ==
  ASSUME NEW c, NEW pl
  PROVE  /\ prepareRender(c, pl).nodes = Joined(c, pl)
         /\ prepareRender(c, pl).placements = Placed(c)
         /\ prepareRender(c, pl).services = Offered(c)
         /\ prepareRender(c, pl).rules = renderPolicyRules(c)
         /\ prepareRender(c, pl).published = pl.published
<1>1. prepareRender(c, pl) = [nodes |-> Joined(c, pl), placements |-> Placed(c), services |-> Offered(c),
                              rules |-> renderPolicyRules(c), published |-> pl.published]
  BY Zenon DEF prepareRender, Joined, Placed, Offered, Wanted, Virtual
<1> QED
  BY <1>1

\* The fields of a placement and of a service.
LEMMA PlacementFields ==
  ASSUME NEW c, NEW i
  PROVE  /\ Placement(c, i).node = c.instances[i].node /\ Placement(c, i).dep = c.instances[i].dep
         /\ Placement(c, i).space = config(c, i).space
         /\ Placement(c, i).netproxy => config(c, i).space = SystemSpace
BY Zenon DEF Placement

\* c2 has the instances of c but for the rows of W, each with the same document.
InstancesBut(c, c2, W) ==
  /\ \A i : i \notin DOMAIN W => (i \in DOMAIN c.instances <=> i \in DOMAIN c2.instances)
  /\ \A i \in DOMAIN c.instances \cap DOMAIN c2.instances :
       /\ config(c2, i) = config(c, i)
       /\ i \notin DOMAIN W => c2.instances[i] = c.instances[i]
  /\ \A i \in DOMAIN W :
       /\ i \in DOMAIN c.instances
            => c.instances[i].node = W[i].node /\ c.instances[i].dep = W[i].dep
       /\ i \in DOMAIN c2.instances
            => c2.instances[i].node = W[i].node /\ c2.instances[i].dep = W[i].dep

\* The instances of the deployments in W are all in the spaces W says.
SpaceAs(c, W) ==
  \A i \in DOMAIN c.instances, j \in DOMAIN W :
    c.instances[i].dep = W[j].dep => config(c, i).space = W[j].space

\* Every set of instances has an oldest one.
Ordered(c) == \A S \in SUBSET DOMAIN c.instances : S # {} => Min(S) \in S

\* A service is in the space of its oldest instance, so in that of all of them.
LEMMA ServiceSpace ==
  ASSUME NEW c, NEW W, SpaceAs(c, W), Ordered(c), NEW j \in DOMAIN W, W[j].dep \in DOMAIN Offered(c)
  PROVE  Offered(c)[W[j].dep].space = W[j].space
<1> DEFINE d == W[j].dep
           mine == {i \in Virtual(c) : c.instances[i].dep = d}
<1>1. mine # {} /\ mine \in SUBSET DOMAIN c.instances
  BY DEF Offered, Virtual
<1>2. Min(mine) \in mine
  BY <1>1, Zenon DEF Ordered
<1>3. Offered(c)[d] = Service(c, d, Virtual(c))
  BY DEF Offered
<1>4. Service(c, d, Virtual(c)).space = config(c, Min(mine)).space
  BY DEF Service
<1>5. Min(mine) \in DOMAIN c.instances /\ c.instances[Min(mine)].dep = W[j].dep
  BY <1>2 DEF Virtual
<1> HIDE DEF mine
<1>6. config(c, Min(mine)).space = W[j].space
  BY <1>5 DEF SpaceAs
<1> QED
  BY <1>3, <1>4, <1>6

\* The placements a commit of the rows W leaves alone are those of other instances.
LEMMA PlacedBut ==
  ASSUME NEW c, NEW c2, NEW W, InstancesBut(c, c2, W), NEW i \in Wanted(c), i \notin DOMAIN W
  PROVE  Placement(c, i) \in Placed(c2)
<1>1. i \in DOMAIN c.instances \cap DOMAIN c2.instances
  BY DEF InstancesBut, Wanted, Virtual
<1>2. config(c2, i) = config(c, i) /\ c2.instances[i] = c.instances[i]
  BY <1>1 DEF InstancesBut
<1>3. Placement(c2, i) = Placement(c, i)
  BY <1>2, Zenon DEF Placement
<1>4. i \in Wanted(c2)
  BY <1>1, <1>2 DEF Wanted, Virtual
<1> QED
  BY <1>3, <1>4, Zenon DEF Placed

\* InstancesBut is symmetric.
LEMMA ButSymmetric ==
  ASSUME NEW c, NEW c2, NEW W, InstancesBut(c, c2, W)
  PROVE  InstancesBut(c2, c, W)
BY DEF InstancesBut

\* A service of which no instance is written stays as it is.
LEMMA OfferedBut ==
  ASSUME NEW c, NEW c2, NEW W, InstancesBut(c, c2, W), Ordered(c), NEW d \in DOMAIN Offered(c),
         \A j \in DOMAIN W : W[j].dep # d
  PROVE  d \in DOMAIN Offered(c2) /\ Offered(c2)[d] = Offered(c)[d]
<1> DEFINE mine(x) == {i \in Virtual(x) : x.instances[i].dep = d}
           has(x, state) == \E i \in mine(x) : x.instances[i].state = state
<1>1. /\ \A i \in DOMAIN c.instances : c.instances[i].dep = d =>
           i \in DOMAIN c2.instances /\ config(c2, i) = config(c, i) /\ c2.instances[i] = c.instances[i]
      /\ \A i \in DOMAIN c2.instances : c2.instances[i].dep = d =>
           i \in DOMAIN c.instances /\ config(c2, i) = config(c, i) /\ c2.instances[i] = c.instances[i]
  BY DEF InstancesBut
<1>2. mine(c2) = mine(c)
  <2>1. ASSUME NEW i \in mine(c) PROVE i \in mine(c2)
    <3>1. i \in DOMAIN c.instances /\ c.instances[i].dep = d /\ config(c, i).virtual
      BY <2>1 DEF Virtual
    <3> QED
      BY <1>1, <3>1 DEF Virtual
  <2>2. ASSUME NEW i \in mine(c2) PROVE i \in mine(c)
    <3>1. i \in DOMAIN c2.instances /\ c2.instances[i].dep = d /\ config(c2, i).virtual
      BY <2>2 DEF Virtual
    <3> QED
      BY <1>1, <3>1 DEF Virtual
  <2> QED
    BY <2>1, <2>2
<1>3. mine(c) # {} /\ mine(c) \subseteq DOMAIN c.instances
  BY DEF Offered, Virtual
<1>4. d \in DOMAIN Offered(c2)
  BY <1>2, <1>3 DEF Offered
<1>5. \A state : has(c2, state) <=> has(c, state)
  BY <1>1, <1>2, <1>3 DEF Virtual
<1>6. config(c2, Min(mine(c2))) = config(c, Min(mine(c)))
  <2>1. Min(mine(c)) \in mine(c)
    BY <1>3, Zenon DEF Ordered
  <2>2. Min(mine(c)) \in DOMAIN c.instances /\ c.instances[Min(mine(c))].dep = d
    BY <2>1 DEF Virtual
  <2>3. config(c2, Min(mine(c))) = config(c, Min(mine(c)))
    BY <1>1, <2>2, Zenon
  <2> QED
    BY <1>2, <2>3, Zenon
<1>7. \A x : Service(x, d, Virtual(x))
        = [name |-> config(x, Min(mine(x))).name, space |-> config(x, Min(mine(x))).space,
           established |-> has(x, "RUN_SERVING") \/ (has(x, "RUN_STANDBY") /\ has(x, "RUN_DRAINING"))]
  BY Zenon DEF Service
<1> HIDE DEF mine, has
<1>8. Service(c2, d, Virtual(c2)) = Service(c, d, Virtual(c))
  BY <1>5, <1>6, <1>7, Zenon
<1> QED
  BY <1>4, <1>8 DEF Offered

\* What a commit of the instance rows W changes of the rendering.
LEMMA RowsRendered ==
  ASSUME NEW c, NEW c2, NEW pl, NEW W, InstancesBut(c, c2, W), SpaceAs(c, W), SpaceAs(c2, W),
         Ordered(c), Ordered(c2), Joined(c2, pl) = Joined(c, pl),
         renderPolicyRules(c2) = renderPolicyRules(c),
         \A j \in DOMAIN W : W[j].space = SystemSpace => \A m \in Nodes : W[j].dep \notin pl.published[m]
  PROVE  InstanceRows(prepareRender(c, pl), prepareRender(c2, pl), Range(W))
<1> DEFINE rc == prepareRender(c, pl)
           new == prepareRender(c2, pl)
<1>1. /\ rc.nodes = Joined(c, pl) /\ rc.placements = Placed(c) /\ rc.services = Offered(c)
      /\ rc.rules = renderPolicyRules(c) /\ rc.published = pl.published
  BY Rendered, Zenon
<1>2. /\ new.nodes = Joined(c2, pl) /\ new.placements = Placed(c2) /\ new.services = Offered(c2)
      /\ new.rules = renderPolicyRules(c2) /\ new.published = pl.published
  BY Rendered, Zenon
<1> HIDE DEF rc, new
<1>3. new.nodes = rc.nodes /\ new.rules = rc.rules /\ new.published = rc.published
  BY <1>1, <1>2
<1>4. InstancesBut(c2, c, W)
  BY ButSymmetric
<1>5. ASSUME NEW p \in Differ(rc.placements, new.placements)
      PROVE  (p.netproxy => p.space = SystemSpace) /\ \E i \in Range(W) : p.node = i.node /\ p.dep = i.dep
  <2>1. CASE p \in Placed(c) /\ p \notin Placed(c2)
    <3>1. PICK i \in Wanted(c) : p = Placement(c, i)
      BY <2>1, Zenon DEF Placed
    <3>2. i \in DOMAIN W
      BY <2>1, <3>1, PlacedBut, Zenon
    <3>3. c.instances[i].node = W[i].node /\ c.instances[i].dep = W[i].dep
      BY <3>2 DEF InstancesBut, Wanted, Virtual
    <3> QED
      BY <3>1, <3>2, <3>3, PlacementFields DEF Range
  <2>2. CASE p \in Placed(c2) /\ p \notin Placed(c)
    <3>1. PICK i \in Wanted(c2) : p = Placement(c2, i)
      BY <2>2, Zenon DEF Placed
    <3>2. i \in DOMAIN W
      BY <1>4, <2>2, <3>1, PlacedBut, Zenon
    <3>3. c2.instances[i].node = W[i].node /\ c2.instances[i].dep = W[i].dep
      BY <3>2 DEF InstancesBut, Wanted, Virtual
    <3> QED
      BY <3>1, <3>2, <3>3, PlacementFields DEF Range
  <2> QED
    BY <1>1, <1>2, <1>5, <2>1, <2>2, SMTT(20) DEF Differ
<1>6. ASSUME NEW d \in DOMAIN rc.services \cup DOMAIN new.services, \A i \in Range(W) : i.dep # d
      PROVE  SameService(rc, new, d)
  <2>1. \A j \in DOMAIN W : W[j].dep # d
    BY <1>6 DEF Range
  <2>2. /\ d \in DOMAIN Offered(c) => d \in DOMAIN Offered(c2) /\ Offered(c2)[d] = Offered(c)[d]
        /\ d \in DOMAIN Offered(c2) => d \in DOMAIN Offered(c) /\ Offered(c)[d] = Offered(c2)[d]
    BY <1>4, <2>1, OfferedBut
  <2> QED
    BY <1>1, <1>2, <2>2, Zenon DEF SameService
<1>7. ASSUME NEW x, x = c \/ x = c2, NEW j \in DOMAIN W, NEW p \in Placed(x), p.dep = W[j].dep
      PROVE  p.space = W[j].space
  <2>1. PICK i \in Wanted(x) : p = Placement(x, i)
    BY Zenon DEF Placed
  <2>2. i \in DOMAIN x.instances /\ x.instances[i].dep = W[j].dep /\ p.space = config(x, i).space
    BY <1>7, <2>1, PlacementFields DEF Wanted, Virtual
  <2> QED
    BY <1>7, <2>2 DEF SpaceAs
<1>8. ASSUME NEW i \in Range(W)
      PROVE  /\ KeepsSpace(rc, i) /\ KeepsSpace(new, i)
             /\ i.space = SystemSpace => \A m \in Nodes : i.dep \notin rc.published[m]
  <2>1. PICK j \in DOMAIN W : i = W[j]
    BY DEF Range
  <2>2. KeepsSpace(rc, i)
    BY <1>1, <1>7, <2>1, ServiceSpace DEF KeepsSpace
  <2>3. KeepsSpace(new, i)
    BY <1>2, <1>7, <2>1, ServiceSpace DEF KeepsSpace
  <2> QED
    BY <1>1, <2>1, <2>2, <2>3
<1>9. InstanceRows(rc, new, Range(W))
  BY <1>3, <1>5, <1>6, <1>8, Zenon DEF InstanceRows
<1> QED
  BY <1>9, Zenon DEF rc, new

\* The rules stay while no peer of a policy appears, goes or moves.
LEMMA RulesKept ==
  ASSUME NEW c, NEW c2, c2.policies = c.policies,
         \A k \in DOMAIN c.policies : \A peer \in {c.policies[k].source, c.policies[k].destination} :
           /\ Resolves(c2, peer) <=> Resolves(c, peer)
           /\ Resolves(c, peer) => resolvePolicyPeer(c2, peer) = resolvePolicyPeer(c, peer)
  PROVE  renderPolicyRules(c2) = renderPolicyRules(c)
<1>1. \A x : renderPolicyRules(x) = {Rule(x, x.policies[k]) : k \in {k \in DOMAIN x.policies : Ruled(x, x.policies[k])}}
  BY Zenon DEF renderPolicyRules, Rule, Ruled
<1>2. ASSUME NEW k \in DOMAIN c.policies
      PROVE  /\ Ruled(c2, c.policies[k]) <=> Ruled(c, c.policies[k])
             /\ Ruled(c, c.policies[k]) => Rule(c2, c.policies[k]) = Rule(c, c.policies[k])
  BY Zenon DEF Rule, Ruled
<1> QED
  BY <1>1, <1>2, Zenon

\* The plan stays while no document's ingress and no node's addresses change.
LEMMA PlanKept ==
  ASSUME NEW c, NEW c2, c2.nodes = c.nodes, DOMAIN c2.current = DOMAIN c.current,
         \A d \in DOMAIN c.current :
           /\ c2.current[d].space = c.current[d].space /\ c2.current[d].node = c.current[d].node
           /\ c2.current[d].virtual = c.current[d].virtual /\ c2.current[d].listen = c.current[d].listen
  PROVE  renderIngressPlan(c2) = renderIngressPlan(c)
<1>1. \A n : Listeners(c2, n) = Listeners(c, n) /\ Listeners(c, n) \subseteq DOMAIN c.current
  BY DEF Listeners
<1>2. \A n : UNION {expand(c2.current[d].listen, c2.nodes[n].addrs) : d \in Listeners(c2, n)}
             = UNION {expand(c.current[d].listen, c.nodes[n].addrs) : d \in Listeners(c, n)}
  BY <1>1
<1> QED
  BY <1>1, <1>2, Zenon DEF renderIngressPlan

------------------------------------------------------------------------------
(* What a rendered map lists.                                               *)

\* A map has the routes of every workload that concerns its node, and its node.
LEMMA ListsConcerned ==
  ASSUME NEW rc, NEW n \in Nodes, NEW b \in rc.placements, Concerns(rc, n, b),
         \A p \in rc.placements : p.node \in Nodes /\ (p.netproxy => p.space = SystemSpace)
  PROVE  /\ route(b, b.id) \in renderNode(rc, n).routes
         /\ b.serving => route(b, 0) \in renderNode(rc, n).routes
         /\ b.node \in DOMAIN renderNode(rc, n).nodes
<1>1. b \in scopePlacements(rc, n)
  BY ScopeExact
<1> QED
  BY <1>1 DEF renderNode

\* A map has no other routes.
LEMMA ListsOnly ==
  ASSUME NEW rc, NEW n \in Nodes, NEW r \in renderNode(rc, n).routes,
         \A p \in rc.placements : p.node \in Nodes /\ (p.netproxy => p.space = SystemSpace)
  PROVE  \E b \in rc.placements : r \in {route(b, b.id), route(b, 0)} /\ Concerns(rc, n, b)
<1>1. PICK b \in scopePlacements(rc, n) : r \in {route(b, b.id), route(b, 0)}
  BY DEF renderNode
<1>2. b \in rc.placements /\ Concerns(rc, n, b)
  BY ScopeExact
<1> QED
  BY <1>1, <1>2

\* A caller's map has the service of the callee.
LEMMA ListsCallee ==
  ASSUME NEW rc, NEW a \in rc.placements, NEW b \in rc.placements, MayInitiate(rc, a, b),
         b.dep \in DOMAIN rc.services, rc.services[b.dep].space = b.space
  PROVE  b.dep \in DOMAIN renderNode(rc, a.node).services
<1>1. b.dep \in scopeCatalog(rc, a.node)
  <2>1. CASE b.dep \in rc.published[a.node]
    BY <2>1 DEF scopeCatalog
  <2>2. CASE b.dep \notin rc.published[a.node]
    <3>1. /\ a.space # SystemSpace /\ b.space # SystemSpace
          /\ a.space = b.space \/ b.space = GlobalSpace \/ b.space \in out(rc, a.space)
      BY <2>2 DEF MayInitiate, out
    <3>2. a.space \in own(rc, a.node)
      BY <3>1 DEF own, On
    <3>3. b.space \in forward(rc, a.node)
      BY <3>1, <3>2 DEF forward
    <3> QED
      BY <3>3 DEF scopeCatalog
  <2> QED
    BY <2>1, <2>2
<1>2. renderNode(rc, a.node).services
        = Restrict(rc.services, scopeCatalog(rc, a.node) \cap DOMAIN rc.services)
  BY DEF renderNode
<1> QED
  BY <1>1, <1>2 DEF Restrict
=============================================================================
