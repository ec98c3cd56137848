---------------------------- MODULE RouteProofs ----------------------------
(***************************************************************************)
(* Proofs about InboundRoute, for any number of exits, failed steps, agent *)
(* restarts and runs.                                                      *)
(***************************************************************************)
EXTENDS InboundRoute, TLAPS

-----------------------------------------------------------------------------
(* The inductive invariant. *)

Targets == {"SERVING", "STANDBY", "DRAINING", "TERMINATE"}
Net == Placements \X Nat
Hold == {"clearPorts", "dropCurrent", "teardown"}              \* a run that is ending
Running == {"start", "warm", "claim", "claiming", "adopted", "up"} \* one with a network
Runner == [pc : {"setup", "adopt", "adoptStopped", "done", "off"} \cup Hold \cup Running,
           n : Nat, net : Net \cup {None}, role : {"none", "candidate", "current"},
           ready : BOOLEAN, serving : BOOLEAN, stopping : BOOLEAN, adopted : BOOLEAN,
           sweep : BOOLEAN, told : BOOLEAN]
Claim == [pc : {"none", "read", "activate", "ports", "current", "rollback"},
          by : {"loop", "adopt", "serve", "promote", None}, net : Net \cup {None}, old : Net \cup {None}]
OperatorState == [pc : {"idle", "claim", "stop", "off"}, seen : Targets]

\* The type invariant.
TypeOK ==
  /\ target \in [Placements -> Targets] /\ announced \in [Placements -> BOOLEAN]
  /\ inbox \in [Placements -> Seq(Targets)]
  /\ op \in [Placements -> OperatorState] /\ r \in [Placements -> Runner]
  /\ claim \in [Placements -> Claim] /\ task \in [Placements -> Nat]
  /\ veth \subseteq Net /\ stuck \subseteq Net /\ earlier \in Nat /\ route \in Net \cup {None}
  /\ tracked \subseteq Net /\ current \in Net \cup {None} /\ ports \in Net \cup {None}
  /\ up \in BOOLEAN /\ exits \in Nat /\ faults \in Nat /\ boots \in Nat /\ scope \in Scope

Claiming(p) == claim[p].pc # "none"
Of(x, p) == x # None /\ x[1] = p

\* Networks: a placement has at most that of the run its loop is in.
NetOK(p) ==
  /\ \A x \in veth : Of(x, p) => x = containerID(p)
  /\ r[p].pc \in {"setup", "done"} => containerID(p) \notin veth
  /\ r[p].pc \in Running => r[p].net = containerID(p) /\ containerID(p) \in veth \cap tracked
  /\ r[p].net # None => r[p].net = containerID(p) /\ r[p].pc \in Running \cup Hold

\* Runner, operator and claim go together.
RunnerOK(p) ==
  /\ r[p].role = "none" => r[p].pc \in {"done", "off"} /\ op[p].pc # "claim"
  /\ r[p].role = "current" => r[p].ready
  /\ r[p].pc = "warm" => ~r[p].ready
  /\ r[p].pc \in {"adopt", "claim", "claiming", "adopted", "up"} /\ r[p].role = "candidate" => r[p].ready
  /\ (r[p].pc = "off") = ~up
  /\ ~up => op[p].pc = "off"

ClaimOK(p) ==
  /\ Claiming(p) => /\ Of(claim[p].net, p)
                    /\ \/ /\ claim[p].by \in {"serve", "promote"} /\ op[p].pc = "claim" /\ r[p].ready
                          /\ claim[p].by = "promote" => r[p].role = "candidate"
                       \/ claim[p].by \in {"loop", "adopt"} /\ r[p].pc = "claiming"
                    /\ r[p].pc \in {"claiming", "adopted", "up"} => claim[p].net = r[p].net
                    /\ r[p].pc \notin {"warm", "adopt", "adoptStopped", "off"}
                    /\ scope.whole => target[p] = "SERVING"
  /\ r[p].pc = "claiming" => Claiming(p) /\ claim[p].by \in {"loop", "adopt"}
  /\ claim[p].pc = "rollback" => faults # 0

\* Exactly one placement serves, and New never served before it.
TargetOK ==
  <<target[Old], target[New]>> \in {<<"SERVING", "STANDBY">>, <<"SERVING", "TERMINATE">>,
                                    <<"DRAINING", "SERVING">>, <<"TERMINATE", "SERVING">>}

\* The route goes with its link.  Before any restart every network is tracked.
KernelOK ==
  /\ route # None => route \in veth \cup stuck
  /\ boots = 0 => /\ veth \subseteq tracked /\ up
                  /\ \A p \in Placements : r[p].pc \notin {"adopt", "adoptStopped", "off"}

\* A runner that has still to adopt its container finds it only if no other runner
\* has got past its own adoption.
Unadopted(x) == x.net = None /\ (x.pc \in {"adopt", "adoptStopped"} \/ (x.pc \in Hold /\ x.sweep))
AdoptOK ==
  \A q \in Placements :
    /\ r[q].pc \in {"adopt", "off"} => containerID(q) \notin tracked
    /\ r[q].pc = "adopt" /\ containerID(q) \in veth => \A p \in Placements \ {q} : Unadopted(r[p])

\* What an operator saw last, or is about to see last, is the target.
Elems(box) == {box[k] : k \in 1..Len(box)}
Latest(p) == IF inbox[p] = <<>> THEN op[p].seen ELSE inbox[p][Len(inbox[p])]
InboxOK(p) ==
  /\ Latest(p) = target[p]
  /\ "TERMINATE" \in Elems(inbox[p]) => target[p] = "TERMINATE"
  /\ op[p].pc = "stop" => (op[p].seen = "TERMINATE" /\ target[p] = "TERMINATE") \/ r[p].role # "current"

Fresh(p) == Claiming(p) /\ claim[p].net = r[p].net /\ r[p].pc \notin Hold

\* The registration and the claims of a placement are of its runs so far, and of none
\* that is still to be set up.
NumberOK(p) ==
  scope.whole =>
    /\ r[p].pc = "setup" => current # containerID(p) /\ (Claiming(p) => claim[p].net # containerID(p))
    /\ Of(current, p) => current[2] <= r[p].n
    /\ Claiming(p) => claim[p].net[2] <= r[p].n
    /\ r[p].role # "current" /\ up /\ (target[p] = "SERVING" \/ op[p].pc # "off") /\ Of(current, p)
         => current = containerID(p) /\ r[p].pc \in {"claiming", "up", "clearPorts", "dropCurrent"}
    /\ r[p].pc \in {"adopt", "adoptStopped", "off"} => ~Of(current, p)

\* The registration of the serving placement.
ServingOK(p) ==
  scope.whole /\ faults = 0 /\ target[p] = "SERVING" =>
    /\ r[p].net # None /\ current = r[p].net /\ r[p].pc \notin Hold
         => route = current /\ ports = current
    /\ claim[p].pc \in {"activate", "ports", "current"} => current # claim[p].net
    /\ Fresh(p) /\ claim[p].pc \in {"ports", "current"} => route = claim[p].net
    /\ Fresh(p) /\ claim[p].pc = "current" => ports = claim[p].net
    /\ Claiming(p) /\ r[p].net # None /\ claim[p].net # r[p].net => current # r[p].net
    /\ r[p].pc = "up" /\ inbox[p] = <<>> /\ r[p].role = "current" /\ ~Claiming(p) => current = r[p].net

CurrentOK == scope.whole /\ target[Old] = "SERVING" => ~Of(current, New)

\* Before any restart and with at most one failed step: the registered network, while
\* it exists, is the routed one except inside a claim, whose rollback knows it.
Moving == {"ports", "current", "rollback"}
Few == scope.whole /\ boots = 0 /\ faults \in {0, 1}
RestoredOK ==
  Few =>
    /\ current \in veth /\ (\A p \in Placements : claim[p].pc \notin Moving) => route = current
    /\ \A p \in Placements :
         /\ claim[p].pc \in Moving \cup {"activate"} /\ current # None => current = claim[p].old
         /\ claim[p].pc \in {"ports", "current"} /\ claim[p].net \in veth => route = claim[p].net

IInv ==
  /\ TypeOK /\ TargetOK /\ KernelOK /\ AdoptOK /\ CurrentOK /\ RestoredOK
  /\ \A p \in Placements :
       NetOK(p) /\ RunnerOK(p) /\ ClaimOK(p) /\ InboxOK(p) /\ NumberOK(p) /\ ServingOK(p)

-----------------------------------------------------------------------------
(* What the steps have in common. *)

\* A container's network is of its placement.
LEMMA IdNet ==
  ASSUME TypeOK, NEW p \in Placements
  PROVE  /\ containerID(p) \in Net /\ containerID(p) # None /\ Of(containerID(p), p)
         /\ containerID(p)[1] = p /\ containerID(p)[2] = r[p].n /\ r[p].n \in Nat
<1>1. r[p] \in Runner
  BY Zenon DEF TypeOK
<1>2. r[p].n \in Nat
  BY <1>1, Zenon DEF Runner
<1>3. containerID(p) \in Net
  BY <1>2, Zenon DEF containerID, Net
<1> QED
  BY <1>2, <1>3, RouteAssumption, Zenon DEF containerID, Net, Of, Placements

\* Failed steps are counted.
LEMMA Counting ==
  ASSUME TypeOK, faults' = faults \/ Fault
  PROVE  /\ faults' \in Nat /\ (faults' = 0 => faults = 0) /\ (faults' \in {0, 1} => faults \in {0, 1})
         /\ Fault => faults' # 0 /\ (faults # 0 => faults' \notin {0, 1})
<1>1. faults \in Nat /\ (Fault => faults' = faults + 1)
  BY Zenon DEF TypeOK, Fault
<1> HIDE DEF Fault
<1> QED
  BY <1>1

\* A step of one runner keeps what the invariant says of the other when it leaves the
\* other's network, registration and ports alone.
LEMMA OtherStays ==
  ASSUME IInv, NEW q \in Placements,
         r'[q] = r[q], op'[q] = op[q], claim'[q] = claim[q], inbox'[q] = inbox[q], target'[q] = target[q],
         UNCHANGED <<up, scope>>, faults' = faults \/ Fault,
         \A x \in veth' : Of(x, q) => x \in veth,
         r[q].pc \in Running => containerID(q) \in veth' \cap tracked',
         scope.whole => current' = current \/ ~Of(current', q),
         scope.whole /\ faults = 0 /\ target[q] = "SERVING" =>
           /\ current' = current \/ (~Of(current, q) /\ ~Of(current', q))
           /\ ports' = ports \/ ~Of(ports, q)
           /\ r[q].pc \in Running /\ route = containerID(q) => route' = route
  PROVE  NetOK(q)' /\ RunnerOK(q)' /\ ClaimOK(q)' /\ InboxOK(q)' /\ NumberOK(q)' /\ ServingOK(q)'
<1>1. NetOK(q) /\ RunnerOK(q) /\ ClaimOK(q) /\ InboxOK(q) /\ NumberOK(q) /\ ServingOK(q)
  BY Zenon DEF IInv
<1>id. Of(containerID(q), q) /\ containerID(q) # None /\ containerID(q)' = containerID(q)
  BY IdNet, Zenon DEF IInv, containerID
<1>f. faults' = 0 => faults = 0
  BY Counting, Zenon DEF IInv
<1>2. NetOK(q)'
  BY <1>1, <1>id, Zenon DEF NetOK, Of
<1>3. RunnerOK(q)'
  BY <1>1, Zenon DEF RunnerOK
<1>4. ClaimOK(q)'
  <2>1. claim[q].pc = "rollback" => faults' # 0
    BY <1>1, <1>f, Zenon DEF ClaimOK
  <2> QED
    BY <1>1, <2>1, Zenon DEF ClaimOK, Claiming, Of
<1>5. InboxOK(q)'
  BY <1>1, Zenon DEF InboxOK, Latest
<1>num. NumberOK(q)'
  <2> SUFFICES ASSUME scope.whole PROVE NumberOK(q)'
    BY Zenon DEF NumberOK
  <2>1. Of(current', q) => current' = current
    BY Zenon
  <2>2. r[q].pc = "setup" => current' # containerID(q)
    BY <1>1, <1>id, <2>1, Zenon DEF NumberOK
  <2> QED
    BY <1>1, <1>id, <2>1, <2>2, Zenon DEF NumberOK, Claiming, Of
<1>6. ServingOK(q)'
  <2> SUFFICES ASSUME scope.whole, faults = 0, target[q] = "SERVING" PROVE ServingOK(q)'
    BY <1>f, Zenon DEF ServingOK
  <2>1. r[q].net # None => Of(r[q].net, q) /\ r[q].net = containerID(q) /\ (r[q].pc \notin Hold => r[q].pc \in Running)
    BY <1>1, <1>id, Zenon DEF NetOK
  <2>2. Of(current', q) = Of(current, q) /\ (Of(current, q) => current' = current)
    BY Zenon DEF Of
  <2>3. r[q].net # None /\ current' = r[q].net /\ r[q].pc \notin Hold => route' = current' /\ ports' = current'
    BY <1>1, <2>1, <2>2, Zenon DEF ServingOK, Of
  <2>4. Claiming(q) => Of(claim[q].net, q)
    BY <1>1, Zenon DEF ClaimOK
  <2>5. claim[q].pc \in {"activate", "ports", "current"} => current' # claim[q].net
    BY <1>1, <2>2, <2>4, Zenon DEF ServingOK, Of, Claiming
  <2>6. Fresh(q) /\ claim[q].pc \in {"ports", "current"} => route' = claim[q].net
    BY <1>1, <2>1, <2>4, Zenon DEF ServingOK, Of, Fresh
  <2>7. Fresh(q) /\ claim[q].pc = "current" => ports' = claim[q].net
    BY <1>1, <2>1, <2>4, Zenon DEF ServingOK, Of, Fresh
  <2>8. Claiming(q) /\ r[q].net # None /\ claim[q].net # r[q].net => current' # r[q].net
    BY <1>1, <2>1, <2>2, Zenon DEF ServingOK, Of
  <2>10. r[q].pc = "up" /\ inbox[q] = <<>> /\ r[q].role = "current" /\ ~Claiming(q) => current' = r[q].net
    <3>1. r[q].pc = "up" => Of(r[q].net, q)
      BY <1>1, <1>id, Zenon DEF NetOK, Running
    <3> QED
      BY <1>1, <2>2, <3>1, Zenon DEF ServingOK
  <2> QED
    BY <1>1, <2>2, <2>3, <2>5, <2>6, <2>7, <2>8, <2>10, Zenon DEF ServingOK, Fresh, Claiming, Of, containerID
<1> QED
  BY <1>2, <1>3, <1>4, <1>5, <1>num, <1>6, Zenon

\* A step of runner p keeps the adoption order.
LEMMA AdoptStays ==
  ASSUME IInv, NEW p \in Placements,
         \A q \in Placements \ {p} : r'[q] = r[q],
         tracked' \subseteq tracked \cup {containerID(p)},
         \A q \in Placements \ {p} : r[q].pc = "adopt" /\ containerID(q) \in veth' =>
           containerID(q) \in veth /\ (Unadopted(r[p]) => Unadopted(r'[p])),
         r'[p].pc \in {"adopt", "off"} =>
           r'[p].pc = r[p].pc /\ r'[p].n = r[p].n /\ UNCHANGED <<veth, tracked>>
  PROVE  AdoptOK'
<1> SUFFICES ASSUME NEW q \in Placements, r'[q].pc \in {"adopt", "off"}
             PROVE  /\ containerID(q)' \notin tracked'
                    /\ r'[q].pc = "adopt" /\ containerID(q)' \in veth'
                         => \A s \in Placements \ {q} : Unadopted(r'[s])
  BY Zenon DEF AdoptOK, Unadopted
<1>1. CASE q = p
  BY <1>1, Zenon DEF IInv, AdoptOK, containerID
<1>2. CASE q # p
  <2>1. containerID(q)' = containerID(q) /\ r[q].pc = r'[q].pc /\ r[q].pc \in {"adopt", "off"}
    BY <1>2, Zenon DEF containerID
  <2>2. containerID(q) # containerID(p)
    BY <1>2, IdNet, Zenon DEF IInv
  <2>3. ASSUME r[q].pc = "adopt", containerID(q) \in veth', NEW s \in Placements \ {q} PROVE Unadopted(r'[s])
    <3>1. s = p
      BY <1>2, Zenon DEF Placements
    <3> QED
      BY <1>2, <2>1, <2>3, <3>1, Zenon DEF IInv, AdoptOK
  <2> QED
    BY <2>1, <2>2, <2>3, Zenon DEF IInv, AdoptOK
<1> QED
  BY <1>1, <1>2, Zenon

\* Updates to an operator: the newest is the target (notifyInstanceLocked).
LEMMA Updated ==
  ASSUME NEW box \in Seq(Targets), NEW t \in Targets
  PROVE  /\ notify(box, t) \in Seq(Targets) /\ notify(box, t) # <<>>
         /\ notify(box, t)[Len(notify(box, t))] = t
         /\ Elems(notify(box, t)) \subseteq Elems(box) \cup {t}
<1>1. CASE box # <<>> /\ box[Len(box)] = t
  BY <1>1, Zenon DEF notify
<1>2. CASE ~(box # <<>> /\ box[Len(box)] = t)
  <2>1. notify(box, t) = Append(box, t)
    BY <1>2, Zenon DEF notify
  <2>2. /\ Append(box, t) \in Seq(Targets) /\ Len(Append(box, t)) = Len(box) + 1 /\ Len(box) \in Nat
        /\ Append(box, t)[Len(box) + 1] = t /\ \A k \in 1..Len(box) : Append(box, t)[k] = box[k]
    OBVIOUS
  <2>3. \A k \in 1..(Len(box) + 1) : k = Len(box) + 1 \/ k \in 1..Len(box)
    BY <2>2
  <2>4. Append(box, t) # <<>>
    BY <2>2
  <2>5. Elems(Append(box, t)) \subseteq Elems(box) \cup {t}
    BY <2>2, <2>3, Zenon DEF Elems
  <2> QED
    BY <2>1, <2>2, <2>4, <2>5, Zenon
<1> QED
  BY <1>1, <1>2, Zenon

\* An operator receives its updates in order: what is left ends with the newest.
LEMMA Received ==
  ASSUME NEW box \in Seq(Targets), box # <<>>
  PROVE  /\ Head(box) \in Targets /\ Head(box) \in Elems(box)
         /\ Tail(box) \in Seq(Targets) /\ Elems(Tail(box)) \subseteq Elems(box)
         /\ Tail(box) # <<>> => Tail(box)[Len(Tail(box))] = box[Len(box)]
         /\ Tail(box) = <<>> => Head(box) = box[Len(box)]
<1>1. /\ Len(box) \in Nat /\ Len(box) >= 1 /\ Head(box) = box[1] /\ Head(box) \in Targets
      /\ Tail(box) \in Seq(Targets) /\ Len(Tail(box)) = Len(box) - 1
      /\ \A k \in 1..(Len(box) - 1) : Tail(box)[k] = box[k + 1]
  OBVIOUS
<1>2. Head(box) \in Elems(box)
  BY <1>1 DEF Elems
<1>3. Elems(Tail(box)) \subseteq Elems(box)
  <2>1. \A k \in 1..(Len(box) - 1) : k + 1 \in 1..Len(box)
    BY <1>1
  <2> QED
    BY <1>1, <2>1 DEF Elems
<1>4. Tail(box) # <<>> => Tail(box)[Len(Tail(box))] = box[Len(box)]
  <2>1. Tail(box) # <<>> => Len(box) - 1 >= 1
    BY <1>1
  <2> QED
    BY <1>1, <2>1
<1>5. Tail(box) = <<>> => Len(box) = 1
  <2>1. Len(<<>>) = 0
    BY Zenon
  <2>2. Tail(box) = <<>> => Len(Tail(box)) = Len(<<>>)
    BY Zenon
  <2>3. PICK m \in Nat : m = Len(box)
    BY <1>1, Zenon
  <2>4. m - 1 = 0 => m = 1
    OBVIOUS
  <2>5. Len(Tail(box)) = m - 1
    BY <1>1, <2>3, Zenon
  <2> QED
    BY <2>1, <2>2, <2>3, <2>4, <2>5, Zenon
<1> QED
  BY <1>1, <1>2, <1>3, <1>4, <1>5, Zenon

\* A status update of p (updateStatus): its operator is about to see the target.
LEMMA StatusUpdated ==
  ASSUME IInv, NEW p \in Placements, NEW running \in BOOLEAN, updateStatus(p, running)
  PROVE  /\ inbox' \in [Placements -> Seq(Targets)] /\ announced' \in [Placements -> BOOLEAN]
         /\ target' = target /\ \A q \in Placements \ {p} : inbox'[q] = inbox[q]
         /\ inbox'[p] # <<>> /\ inbox'[p][Len(inbox'[p])] = target[p]
         /\ "TERMINATE" \in Elems(inbox'[p]) => target[p] = "TERMINATE"
<1>1. /\ inbox \in [Placements -> Seq(Targets)] /\ announced \in [Placements -> BOOLEAN] /\ target[p] \in Targets
      /\ inbox' = [inbox EXCEPT ![p] = notify(inbox[p], target[p])]
      /\ announced' = [announced EXCEPT ![p] = @ \/ running] /\ target' = target
  BY Zenon DEF IInv, TypeOK, updateStatus
<1>2. /\ inbox'[p] \in Seq(Targets) /\ inbox'[p] # <<>> /\ inbox'[p][Len(inbox'[p])] = target[p]
      /\ Elems(inbox'[p]) \subseteq Elems(inbox[p]) \cup {target[p]}
  <2>1. inbox'[p] = notify(inbox[p], target[p]) /\ inbox[p] \in Seq(Targets)
    BY <1>1, Zenon
  <2>2. PICK box \in Seq(Targets), t \in Targets : box = inbox[p] /\ t = target[p]
    BY <1>1, <2>1, Zenon
  <2>3. PICK new : new = notify(box, t)
    BY Zenon
  <2>4. new \in Seq(Targets) /\ new # <<>> /\ new[Len(new)] = t
    BY <2>3, Updated, Zenon
  <2>5. Elems(new) \subseteq Elems(box) \cup {t}
    BY <2>3, Updated, Zenon
  <2> QED
    BY <2>1, <2>2, <2>3, <2>4, <2>5, Zenon
<1>3. inbox' \in [Placements -> Seq(Targets)] /\ \A q \in Placements \ {p} : inbox'[q] = inbox[q]
  BY <1>1, <1>2, Zenon
<1>4. announced' \in [Placements -> BOOLEAN]
  BY <1>1, Zenon
<1>5. "TERMINATE" \in Elems(inbox'[p]) => target[p] = "TERMINATE"
  BY <1>2, Zenon DEF IInv, InboxOK
<1> QED
  BY <1>1, <1>2, <1>3, <1>4, <1>5, Zenon

-----------------------------------------------------------------------------
(* A step of runner p or of its operator. *)

\* A step that moves no claim and drops no more than the registration keeps the registered
\* network routed, as long as the route stays with its link.
LEMMA RestoredStays ==
  ASSUME IInv, TypeOK', UNCHANGED <<scope, boots>>, faults' = faults \/ Fault,
         \A q \in Placements : claim'[q] = claim[q] \/ (claim[q].pc = "none" /\ claim'[q].pc = "read"),
         current' = current \/ current' = None,
         scope.whole => \A x \in veth' :
           x \in veth \/ (x # current /\ \A q \in Placements : Claiming(q) => claim[q].net # x),
         route \in veth' => route' = route
  PROVE  RestoredOK'
<1> SUFFICES ASSUME Few' PROVE RestoredOK'
  BY Zenon DEF RestoredOK
<1>0. Few /\ scope.whole /\ RestoredOK /\ None \notin veth'
  BY Counting, RouteAssumption, Zenon DEF IInv, Few, TypeOK, Net, Placements
<1>1. ASSUME current' \in veth', \A q \in Placements : claim'[q].pc \notin Moving
      PROVE  route' = current'
  <2>1. current' = current /\ current \in veth
    BY <1>0, <1>1, Zenon
  <2>2. \A q \in Placements : claim[q].pc \notin Moving
    BY <1>1, Zenon DEF Moving
  <2>3. route = current
    BY <1>0, <2>1, <2>2, Zenon DEF RestoredOK
  <2> QED
    BY <1>1, <2>1, <2>3, Zenon
<1>2. ASSUME NEW q \in Placements, claim'[q].pc \in Moving \cup {"activate"}
      PROVE  /\ claim'[q] = claim[q]
             /\ current' # None => current' = claim'[q].old
             /\ claim'[q].pc \in {"ports", "current"} /\ claim'[q].net \in veth' => route' = claim'[q].net
  <2>1. claim'[q] = claim[q] /\ Claiming(q)
    BY <1>2, Zenon DEF Moving, Claiming
  <2> QED
    BY <1>0, <1>2, <2>1, Zenon DEF RestoredOK
<1> QED
  BY <1>1, <1>2, Zenon DEF RestoredOK, Moving

\* A step of p is checked for p and for what the kernel and the manager hold; the
\* other runner keeps its part.
LEMMA StepOf ==
  ASSUME IInv, NEW p \in Placements, TypeOK',
         \A q \in Placements \ {p} :
           r'[q] = r[q] /\ op'[q] = op[q] /\ claim'[q] = claim[q] /\ inbox'[q] = inbox[q],
         UNCHANGED <<target, up, scope, boots>>, faults' = faults \/ Fault,
         route' # None => route' \in veth' \cup stuck', boots = 0 => veth' \subseteq tracked',
         r'[p].pc \in {"adopt", "adoptStopped", "off"} => r'[p].pc = r[p].pc,
         \A q \in Placements \ {p} :
           /\ \A x \in veth' : Of(x, q) => x \in veth
           /\ r[q].pc \in Running => containerID(q) \in veth' \cap tracked'
           /\ scope.whole => current' = current \/ ~Of(current', q)
           /\ scope.whole /\ faults = 0 /\ target[q] = "SERVING" =>
                /\ current' = current \/ (~Of(current, q) /\ ~Of(current', q))
                /\ ports' = ports \/ ~Of(ports, q)
                /\ r[q].pc \in Running /\ route = containerID(q) => route' = route,
         AdoptOK', CurrentOK', RestoredOK', NetOK(p)', RunnerOK(p)', ClaimOK(p)', InboxOK(p)', NumberOK(p)', ServingOK(p)'
  PROVE  IInv'
<1>1. ASSUME NEW q \in Placements \ {p}
      PROVE  NetOK(q)' /\ RunnerOK(q)' /\ ClaimOK(q)' /\ InboxOK(q)' /\ NumberOK(q)' /\ ServingOK(q)'
  <2>1. target'[q] = target[q] /\ UNCHANGED <<up, scope>> /\ q \in Placements
    BY Zenon
  <2> QED
    BY <1>1, <2>1, OtherStays, Zenon
<1>2. TargetOK'
  BY Zenon DEF IInv, TargetOK
<1>3. KernelOK'
  <2>1. ASSUME boots = 0, NEW q \in Placements PROVE r'[q].pc \notin {"adopt", "adoptStopped", "off"}
    <3>1. r[q].pc \notin {"adopt", "adoptStopped", "off"}
      BY <2>1, Zenon DEF IInv, KernelOK
    <3>2. CASE q = p
      BY <3>1, <3>2, Zenon
    <3>3. CASE q # p
      BY <3>1, <3>3, Zenon
    <3> QED
      BY <3>2, <3>3, Zenon
  <2>2. boots = 0 => up
    BY Zenon DEF IInv, KernelOK
  <2> QED
    BY <2>1, <2>2, Zenon DEF KernelOK
<1> QED
  BY <1>1, <1>2, <1>3, Zenon DEF IInv

\* A step of p that leaves the kernel and the manager alone.
LEMMA LocalStep ==
  ASSUME IInv, NEW p \in Placements, TypeOK',
         \A q \in Placements \ {p} :
           r'[q] = r[q] /\ op'[q] = op[q] /\ claim'[q] = claim[q] /\ inbox'[q] = inbox[q],
         UNCHANGED <<target, up, scope, boots, veth, stuck, earlier, route, tracked, current, ports>>,
         faults' = faults \/ Fault,
         r'[p].pc \in {"adopt", "adoptStopped", "off"} => r'[p].pc = r[p].pc /\ r'[p].n = r[p].n,
         Unadopted(r[p]) => Unadopted(r'[p]) \/ \A q \in Placements \ {p} : containerID(q) \notin veth,
         claim'[p] = claim[p] \/ (claim[p].pc = "none" /\ claim'[p].pc = "read"),
         NetOK(p)', RunnerOK(p)', ClaimOK(p)', InboxOK(p)', NumberOK(p)', ServingOK(p)'
  PROVE  IInv'
<1>1. AdoptOK'
  <2>1. /\ \A q \in Placements \ {p} : r'[q] = r[q] 
        /\ tracked' \subseteq tracked \cup {containerID(p)}
        /\ \A q \in Placements \ {p} : r[q].pc = "adopt" /\ containerID(q) \in veth' =>
             containerID(q) \in veth /\ (Unadopted(r[p]) => Unadopted(r'[p]))
        /\ r'[p].pc \in {"adopt", "off"} =>
             r'[p].pc = r[p].pc /\ r'[p].n = r[p].n /\ UNCHANGED <<veth, tracked>>
    BY Zenon
  <2> QED
    BY <2>1, AdoptStays, Zenon
<1>2. CurrentOK'
  BY Zenon DEF IInv, CurrentOK
<1>3. ASSUME NEW q \in Placements \ {p}
      PROVE  /\ \A x \in veth' : Of(x, q) => x \in veth
             /\ r[q].pc \in Running => containerID(q) \in veth' \cap tracked'
             /\ scope.whole => current' = current \/ ~Of(current', q)
             /\ scope.whole /\ faults = 0 /\ target[q] = "SERVING" =>
                  /\ current' = current \/ (~Of(current, q) /\ ~Of(current', q))
                  /\ ports' = ports \/ ~Of(ports, q)
                  /\ r[q].pc \in Running /\ route = containerID(q) => route' = route
  BY Zenon DEF IInv, NetOK
<1>4. (route' # None => route' \in veth' \cup stuck') /\ (boots = 0 => veth' \subseteq tracked')
  BY Zenon DEF IInv, KernelOK
<1>5. RestoredOK'
  <2>1. \A q \in Placements : claim'[q] = claim[q] \/ (claim[q].pc = "none" /\ claim'[q].pc = "read")
    BY Zenon
  <2> QED
    BY <2>1, RestoredStays, Zenon
<1> QED
  BY <1>1, <1>2, <1>3, <1>4, <1>5, StepOf, Zenon

\* The fields of a runner, an operator and a claim.
LEMMA Fields ==
  ASSUME TypeOK, NEW p \in Placements
  PROVE  /\ r[p] \in Runner /\ op[p] \in OperatorState /\ claim[p] \in Claim /\ inbox[p] \in Seq(Targets)
         /\ target[p] \in Targets /\ r[p].n \in Nat /\ r[p].net \in Net \cup {None}
         /\ r[p].role \in {"none", "candidate", "current"}
BY Zenon DEF TypeOK, Runner

\* The invariant at placement p.
LEMMA Parts ==
  ASSUME IInv, NEW p \in Placements
  PROVE  /\ r[p] \in Runner /\ NetOK(p) /\ RunnerOK(p) /\ ClaimOK(p) /\ InboxOK(p) /\ NumberOK(p)
         /\ ServingOK(p) /\ TypeOK
         /\ r \in [Placements -> Runner]
BY Fields, Zenon DEF IInv, TypeOK

-----------------------------------------------------------------------------
(* The run loop. *)

\* A container that signals readiness (waitForReadiness) was a candidate's, and no
\* claim is in progress.
LEMMA ReadinessStep ==
  ASSUME IInv, NEW p \in Placements, waitForReadiness(p), UNCHANGED scope
  PROVE  IInv'
<1>0. /\ r[p] \in Runner /\ NetOK(p) /\ RunnerOK(p) /\ ClaimOK(p) /\ InboxOK(p) /\ NumberOK(p)
      /\ ServingOK(p) /\ TypeOK
      /\ r \in [Placements -> Runner]
  BY Parts, Zenon
<1>1. /\ r[p].pc = "warm" /\ r' = [r EXCEPT ![p].pc = "up", ![p].ready = TRUE]
      /\ UNCHANGED <<op, claim, task, veth, stuck, earlier, route, tracked, current, ports, up, exits, faults, boots>>
      /\ updateStatus(p, TRUE)
  BY Zenon DEF waitForReadiness, links, kernel, manager, budgets
<1>2. /\ inbox' \in [Placements -> Seq(Targets)] /\ announced' \in [Placements -> BOOLEAN]
      /\ target' = target /\ \A q \in Placements \ {p} : inbox'[q] = inbox[q]
      /\ inbox'[p] # <<>> /\ inbox'[p][Len(inbox'[p])] = target[p]
      /\ "TERMINATE" \in Elems(inbox'[p]) => target[p] = "TERMINATE"
  BY <1>1, StatusUpdated, Zenon
<1>3. /\ r'[p].pc = "up" /\ r'[p].ready /\ r'[p].n = r[p].n /\ r'[p].net = r[p].net /\ r'[p].role = r[p].role
      /\ \A q \in Placements \ {p} : r'[q] = r[q]
  BY <1>0, <1>1, Zenon DEF Runner
<1>4. r' \in [Placements -> Runner]
  BY <1>0, <1>1, Zenon DEF Runner, Running
<1>5. TypeOK'
  BY <1>0, <1>1, <1>2, <1>4, Zenon DEF TypeOK
<1>6. containerID(p)' = containerID(p) /\ Of(containerID(p), p)
  BY <1>0, <1>3, IdNet, Zenon DEF containerID
<1>7. NetOK(p)'
  BY <1>0, <1>1, <1>3, <1>6, Zenon DEF NetOK, Running
<1>8. RunnerOK(p)'
  BY <1>0, <1>1, <1>3, Zenon DEF RunnerOK
<1>9. ClaimOK(p)'
  BY <1>0, <1>1, <1>3, Zenon DEF ClaimOK, Claiming
<1>10. InboxOK(p)'
  BY <1>0, <1>1, <1>2, <1>3, Zenon DEF InboxOK, Latest
<1>num. NumberOK(p)'
  BY <1>0, <1>1, <1>2, <1>3, <1>6, Zenon DEF NumberOK, Of, Claiming, NetOK, ClaimOK, Running, Hold
<1>11. ServingOK(p)'
  BY <1>0, <1>1, <1>2, <1>3, <1>6, Zenon DEF ServingOK, Fresh, Claiming, NetOK, RunnerOK, ClaimOK, Running, Hold
<1> QED
  BY <1>0, <1>1, <1>2, <1>3, <1>5, <1>7, <1>8, <1>9, <1>10, <1>num, <1>11, LocalStep, Zenon DEF Unadopted, Hold

\* The task starts, or could not be started (RunTask).
LEMMA RunTaskStep ==
  ASSUME IInv, NEW p \in Placements, RunTask(p), UNCHANGED scope
  PROVE  IInv'
<1>0. /\ r[p] \in Runner /\ NetOK(p) /\ RunnerOK(p) /\ ClaimOK(p) /\ InboxOK(p) /\ NumberOK(p)
      /\ ServingOK(p) /\ TypeOK
      /\ r \in [Placements -> Runner]
  BY Parts, Zenon
<1>1. PICK pc \in {"warm", "claim", "clearPorts"} :
        /\ r[p].pc = "start" /\ r' = [r EXCEPT ![p].pc = pc]
        /\ (pc = "warm" => r[p].role = "candidate" /\ ~r[p].ready)
        /\ (pc = "claim" => r[p].role # "candidate" \/ r[p].ready)
        /\ UNCHANGED <<target, announced, inbox, op, claim, veth, stuck, earlier, route, tracked, current,
                       ports, up, exits, boots>>
        /\ task' \in [Placements -> Nat] /\ faults' \in Nat /\ (faults' = 0 => faults = 0)
        /\ faults' = faults \/ Fault
  <2>1. /\ r[p].pc = "start"
        /\ UNCHANGED <<target, announced, inbox, op, claim, veth, stuck, earlier, route, tracked, current,
                       ports, up, exits, boots>>
    BY Zenon DEF RunTask, links, kernel, manager, store
  <2>2. task \in [Placements -> Nat] /\ faults \in Nat /\ r[p].n \in Nat
    BY <1>0, Zenon DEF TypeOK, Runner
  <2>3. CASE /\ task' = [task EXCEPT ![p] = r[p].n]
             /\ r' = [r EXCEPT ![p].pc = IF r[p].role = "candidate" /\ ~r[p].ready THEN "warm" ELSE "claim"]
             /\ UNCHANGED faults
    BY <2>1, <2>2, <2>3, Zenon
  <2>4. CASE /\ Fault \/ UNCHANGED faults
             /\ r' = [r EXCEPT ![p].pc = "clearPorts"] /\ UNCHANGED task
    <3>1. faults' \in Nat /\ (faults' = 0 => faults = 0)
      BY <1>0, <2>4, Counting, Zenon
    <3> QED
      BY <2>1, <2>2, <2>4, <3>1, Zenon
  <2> QED
    BY <2>3, <2>4, Zenon DEF RunTask
<1>3. /\ r'[p].pc = pc /\ r'[p].ready = r[p].ready /\ r'[p].n = r[p].n /\ r'[p].net = r[p].net
      /\ r'[p].role = r[p].role /\ \A q \in Placements \ {p} : r'[q] = r[q]
  BY <1>0, <1>1, Zenon DEF Runner
<1>4. r' \in [Placements -> Runner]
  BY <1>0, <1>1, Zenon DEF Runner, Running, Hold
<1>5. TypeOK'
  BY <1>0, <1>1, <1>4, Zenon DEF TypeOK
<1>6. containerID(p)' = containerID(p) /\ Of(containerID(p), p)
  BY <1>0, <1>3, IdNet, Zenon DEF containerID
<1>7. NetOK(p)'
  BY <1>0, <1>1, <1>3, <1>6, Zenon DEF NetOK, Running, Hold
<1>8. RunnerOK(p)'
  BY <1>0, <1>1, <1>3, Zenon DEF RunnerOK
<1>9. ClaimOK(p)'
  BY <1>0, <1>1, <1>3, Zenon DEF ClaimOK, Claiming, RunnerOK, Of
<1>10. InboxOK(p)'
  BY <1>0, <1>1, <1>3, Zenon DEF InboxOK, Latest
<1>num. NumberOK(p)'
  BY <1>0, <1>1, <1>3, <1>6, Zenon DEF NumberOK, Of, Claiming, NetOK, ClaimOK, Running, Hold
<1>11. ServingOK(p)'
  BY <1>0, <1>1, <1>3, <1>6 DEF ServingOK, Fresh, Claiming, NetOK, RunnerOK, ClaimOK, Running, Hold
<1> QED
  BY <1>0, <1>1, <1>3, <1>5, <1>7, <1>8, <1>9, <1>10, <1>num, <1>11, LocalStep, Zenon DEF Unadopted, Hold

\* The task exits (taskExited): the run is ending from here on.
LEMMA TaskExitedStep ==
  ASSUME IInv, NEW p \in Placements, taskExited(p), UNCHANGED scope
  PROVE  IInv'
<1>0. /\ r[p] \in Runner /\ NetOK(p) /\ RunnerOK(p) /\ ClaimOK(p) /\ InboxOK(p) /\ NumberOK(p)
      /\ ServingOK(p) /\ TypeOK
      /\ r \in [Placements -> Runner]
  BY Parts, Zenon
<1>1. PICK first \in BOOLEAN :
        /\ r[p].pc \in {"warm", "up"} /\ r' = [r EXCEPT ![p].pc = "clearPorts", ![p].told = first]
        /\ UNCHANGED <<op, claim, task, veth, stuck, earlier, route, tracked, current, ports, up, exits,
                       faults, boots>>
        /\ updateStatus(p, FALSE) \/ UNCHANGED <<target, announced, inbox>>
  BY Zenon DEF taskExited, links, kernel, manager, budgets, store
<1>2. /\ inbox' \in [Placements -> Seq(Targets)] /\ announced' \in [Placements -> BOOLEAN]
      /\ target' = target /\ \A q \in Placements \ {p} : inbox'[q] = inbox[q]
      /\ \/ inbox'[p] # <<>> /\ inbox'[p][Len(inbox'[p])] = target[p]
         \/ inbox'[p] = inbox[p]
      /\ "TERMINATE" \in Elems(inbox'[p]) => target[p] = "TERMINATE"
  <2>1. CASE updateStatus(p, FALSE)
    BY <2>1, StatusUpdated, Zenon
  <2>2. CASE UNCHANGED <<target, announced, inbox>>
    BY <1>0, <2>2, Zenon DEF TypeOK, InboxOK
  <2> QED
    BY <1>1, <2>1, <2>2, Zenon
<1>3. /\ r'[p].pc = "clearPorts" /\ r'[p].ready = r[p].ready /\ r'[p].n = r[p].n /\ r'[p].net = r[p].net
      /\ r'[p].role = r[p].role /\ \A q \in Placements \ {p} : r'[q] = r[q]
  BY <1>0, <1>1, Zenon DEF Runner
<1>4. r' \in [Placements -> Runner]
  BY <1>0, <1>1, Zenon DEF Runner, Running, Hold
<1>5. TypeOK'
  BY <1>0, <1>1, <1>2, <1>4, Zenon DEF TypeOK
<1>6. containerID(p)' = containerID(p) /\ Of(containerID(p), p)
  BY <1>0, <1>3, IdNet, Zenon DEF containerID
<1>7. NetOK(p)'
  BY <1>0, <1>1, <1>3, <1>6, Zenon DEF NetOK, Running, Hold
<1>8. RunnerOK(p)'
  BY <1>0, <1>1, <1>3, Zenon DEF RunnerOK
<1>9. ClaimOK(p)'
  BY <1>0, <1>1, <1>2, <1>3, Zenon DEF ClaimOK, Claiming, RunnerOK, Of
<1>10. InboxOK(p)'
  BY <1>0, <1>1, <1>2, <1>3, Zenon DEF InboxOK, Latest
<1>num. NumberOK(p)'
  BY <1>0, <1>1, <1>2, <1>3, <1>6, Zenon DEF NumberOK, Of, Claiming, NetOK, ClaimOK, Running, Hold
<1>11. ServingOK(p)'
  BY <1>0, <1>1, <1>2, <1>3, <1>6 DEF ServingOK, Fresh, Claiming, NetOK, RunnerOK, ClaimOK, Running, Hold
<1> QED
  BY <1>0, <1>1, <1>2, <1>3, <1>5, <1>7, <1>8, <1>9, <1>10, <1>num, <1>11, LocalStep, Zenon DEF Unadopted, Hold

-----------------------------------------------------------------------------
(* Claims. *)

\* The callers of a claim once it has ended (afterClaim).
Ended(p, by, ok) ==
  /\ r' \in [Placements -> Runner] /\ op' \in [Placements -> OperatorState] /\ task' \in [Placements -> Nat]
  /\ inbox' \in [Placements -> Seq(Targets)] /\ announced' \in [Placements -> BOOLEAN] /\ target' = target
  /\ \A q \in Placements \ {p} : r'[q] = r[q] /\ op'[q] = op[q] /\ inbox'[q] = inbox[q]
  /\ r'[p].n = r[p].n /\ r'[p].net = r[p].net /\ r'[p].ready = r[p].ready /\ op'[p].seen = op[p].seen
  /\ "TERMINATE" \in Elems(inbox'[p]) => target[p] = "TERMINATE"
  /\ by \in {"loop", "adopt"} =>
       /\ op'[p] = op[p] /\ r'[p].role = r[p].role
       /\ ok => r'[p].pc = "up" /\ inbox'[p] # <<>> /\ inbox'[p][Len(inbox'[p])] = target[p]
       /\ ~ok => r'[p].pc = "clearPorts" /\ inbox'[p] = inbox[p]
  /\ by \in {"serve", "promote"} =>
       /\ r'[p].pc = r[p].pc /\ inbox'[p] = inbox[p] /\ r'[p].sweep = r[p].sweep
       /\ by = "serve" \/ ok => r'[p].role = "current" /\ op'[p].pc = "idle"
       /\ by = "promote" /\ ~ok => r'[p].role = r[p].role /\ op'[p].pc = "stop"

\* What a claim leaves its callers in.
LEMMA AfterClaim ==
  ASSUME IInv, NEW p \in Placements, NEW by \in {"loop", "adopt", "serve", "promote"}, NEW ok \in BOOLEAN,
         afterClaim(p, by, ok)
  PROVE  Ended(p, by, ok)
<1>0. /\ r[p] \in Runner /\ op[p] \in OperatorState /\ r \in [Placements -> Runner]
      /\ op \in [Placements -> OperatorState]
      /\ task \in [Placements -> Nat] /\ inbox \in [Placements -> Seq(Targets)]
      /\ announced \in [Placements -> BOOLEAN] /\ InboxOK(p)
  BY Zenon DEF IInv, TypeOK
<1>in. "TERMINATE" \in Elems(inbox[p]) => target[p] = "TERMINATE"
  BY <1>0, Zenon DEF InboxOK
<1>1. CASE /\ by \in {"loop", "adopt"} /\ ok
           /\ r' = [r EXCEPT ![p].pc = "up"] /\ updateStatus(p, TRUE) /\ UNCHANGED <<op, task>>
  <2>1. /\ inbox' \in [Placements -> Seq(Targets)] /\ announced' \in [Placements -> BOOLEAN]
        /\ target' = target /\ \A q \in Placements \ {p} : inbox'[q] = inbox[q]
        /\ inbox'[p] # <<>> /\ inbox'[p][Len(inbox'[p])] = target[p]
        /\ "TERMINATE" \in Elems(inbox'[p]) => target[p] = "TERMINATE"
    BY <1>1, StatusUpdated, Zenon
  <2>2. r' \in [Placements -> Runner] /\ \A q \in Placements \ {p} : r'[q] = r[q]
    BY <1>0, <1>1, Zenon DEF Runner, Running
  <2>3. /\ r'[p].n = r[p].n /\ r'[p].net = r[p].net /\ r'[p].ready = r[p].ready
        /\ r'[p].pc = "up" /\ r'[p].role = r[p].role
    BY <1>0, <1>1, Zenon DEF Runner
  <2> QED
    BY <1>0, <1>1, <2>1, <2>2, <2>3, Zenon DEF Ended
<1>2. CASE /\ by \in {"loop", "adopt"} /\ ~ok
           /\ r' = [r EXCEPT ![p].pc = "clearPorts", ![p].sweep = (by = "adopt")]
           /\ task' = [task EXCEPT ![p] = 0] /\ UNCHANGED <<op, store>>
  <2>1. r' \in [Placements -> Runner] /\ \A q \in Placements \ {p} : r'[q] = r[q]
    BY <1>0, <1>2, Zenon DEF Runner, Hold
  <2>2. /\ r'[p].n = r[p].n /\ r'[p].net = r[p].net /\ r'[p].ready = r[p].ready
        /\ r'[p].pc = "clearPorts" /\ r'[p].role = r[p].role
    BY <1>0, <1>2, Zenon DEF Runner
  <2>3. task' \in [Placements -> Nat] /\ UNCHANGED <<target, announced, inbox>>
    BY <1>0, <1>2, Zenon DEF store
  <2> QED
    BY <1>0, <1>in, <1>2, <2>1, <2>2, <2>3, Zenon DEF Ended
<1>3. CASE /\ by = "serve" \/ (by = "promote" /\ ok)
           /\ op' = [op EXCEPT ![p].pc = "idle"] /\ r' = [r EXCEPT ![p].role = "current"]
           /\ UNCHANGED <<task, store>>
  <2>1. r' \in [Placements -> Runner] /\ \A q \in Placements \ {p} : r'[q] = r[q]
    BY <1>0, <1>3, Zenon DEF Runner
  <2>2. /\ r'[p].n = r[p].n /\ r'[p].net = r[p].net /\ r'[p].ready = r[p].ready
        /\ r'[p].pc = r[p].pc /\ r'[p].role = "current" /\ r'[p].sweep = r[p].sweep
    BY <1>0, <1>3, Zenon DEF Runner
  <2>3. UNCHANGED <<task, target, announced, inbox>>
    BY <1>3, Zenon DEF store
  <2>4. op' \in [Placements -> OperatorState] /\ \A q \in Placements \ {p} : op'[q] = op[q]
    BY <1>0, <1>3, Zenon DEF OperatorState
  <2>5. op'[p].pc = "idle" /\ op'[p].seen = op[p].seen
    BY <1>0, <1>3, Zenon DEF OperatorState
  <2> QED
    BY <1>0, <1>in, <1>3, <2>1, <2>2, <2>3, <2>4, <2>5, Zenon DEF Ended
<1>4. CASE /\ by = "promote" /\ ~ok
           /\ op' = [op EXCEPT ![p].pc = "stop"] /\ r' = [r EXCEPT ![p].stopping = TRUE]
           /\ task' = [task EXCEPT ![p] = 0] /\ UNCHANGED store
  <2>1. r' \in [Placements -> Runner] /\ \A q \in Placements \ {p} : r'[q] = r[q]
    BY <1>0, <1>4, Zenon DEF Runner
  <2>2. /\ r'[p].n = r[p].n /\ r'[p].net = r[p].net /\ r'[p].ready = r[p].ready
        /\ r'[p].pc = r[p].pc /\ r'[p].role = r[p].role /\ r'[p].sweep = r[p].sweep
    BY <1>0, <1>4, Zenon DEF Runner
  <2>3. task' \in [Placements -> Nat] /\ UNCHANGED <<target, announced, inbox>>
    BY <1>0, <1>4, Zenon DEF store
  <2>4. op' \in [Placements -> OperatorState] /\ \A q \in Placements \ {p} : op'[q] = op[q]
    BY <1>0, <1>4, Zenon DEF OperatorState
  <2>5. op'[p].pc = "stop" /\ op'[p].seen = op[p].seen
    BY <1>0, <1>4, Zenon DEF OperatorState
  <2> QED
    BY <1>0, <1>in, <1>4, <2>1, <2>2, <2>3, <2>4, <2>5, Zenon DEF Ended
<1> QED
  BY <1>1, <1>2, <1>3, <1>4, Zenon DEF afterClaim

\* The run loop begins its claim, or has none to make (claimInboundAddress).
LEMMA LoopClaimStep ==
  ASSUME IInv, NEW p \in Placements, claimInboundAddress(p), UNCHANGED scope
  PROVE  IInv'
<1>0. /\ r[p] \in Runner /\ NetOK(p) /\ RunnerOK(p) /\ ClaimOK(p) /\ InboxOK(p) /\ NumberOK(p)
      /\ ServingOK(p) /\ TypeOK
      /\ r \in [Placements -> Runner]
  BY Parts, Zenon
<1>1. PICK by \in {"loop", "adopt"} :
        /\ r[p].pc \in {"claim", "adopted"} /\ claim[p].pc = "none"
        /\ UNCHANGED <<veth, stuck, earlier, route, tracked, current, ports, up, exits, faults, boots>>
        /\ \/ /\ Claims(p, r[p].serving) /\ begin(p, by) /\ r' = [r EXCEPT ![p].pc = "claiming"]
              /\ UNCHANGED <<target, announced, inbox, op, task>>
           \/ afterClaim(p, by, TRUE) /\ UNCHANGED claim
  BY Zenon DEF claimInboundAddress, links, kernel, manager, budgets, store
<1>id. /\ containerID(p) \in Net /\ containerID(p) # None /\ Of(containerID(p), p)
       /\ containerID(p)[2] = r[p].n /\ r[p].n \in Nat
  BY <1>0, IdNet, Zenon
<1>2. CASE /\ Claims(p, r[p].serving) /\ begin(p, by) /\ r' = [r EXCEPT ![p].pc = "claiming"]
           /\ UNCHANGED <<target, announced, inbox, op, task>>
  <2>1. /\ r'[p].pc = "claiming" /\ r'[p].ready = r[p].ready /\ r'[p].n = r[p].n /\ r'[p].net = r[p].net
        /\ r'[p].role = r[p].role /\ \A q \in Placements \ {p} : r'[q] = r[q]
    BY <1>0, <1>2, Zenon DEF Runner
  <2>2. r' \in [Placements -> Runner]
    BY <1>0, <1>2, Zenon DEF Runner, Running
  <2>3. /\ claim'[p].pc = "read" /\ claim'[p].by = by /\ claim'[p].net = r[p].net
        /\ \A q \in Placements \ {p} : claim'[q] = claim[q]
    BY <1>0, <1>2, Zenon DEF begin, TypeOK
  <2>4. claim' \in [Placements -> Claim]
    <3>1. [pc |-> "read", by |-> by, net |-> r[p].net, old |-> None] \in Claim
      BY <1>0, Zenon DEF Claim, Runner
    <3> QED
      BY <1>0, <1>2, <3>1, Zenon DEF begin, TypeOK
  <2>5. TypeOK'
    BY <1>0, <1>1, <1>2, <2>2, <2>4, Zenon DEF TypeOK
  <2>6. containerID(p)' = containerID(p) /\ r[p].net = containerID(p) /\ target[p] = "SERVING"
    BY <1>0, <1>1, <1>2, <2>1, Zenon DEF containerID, NetOK, Running, Claims, placementIsServing
  <2>7. NetOK(p)'
    BY <1>0, <1>1, <2>1, <2>6, Zenon DEF NetOK, Running, Hold
  <2>8. RunnerOK(p)'
    BY <1>0, <1>1, <1>2, <2>1, Zenon DEF RunnerOK
  <2>9. ClaimOK(p)'
    BY <1>0, <1>id, <1>1, <1>2, <2>1, <2>3, <2>6 DEF ClaimOK, Claiming
  <2>10. InboxOK(p)'
    BY <1>0, <1>1, <1>2, <2>1, Zenon DEF InboxOK, Latest
  <2>n. claim'[p].net[2] <= r'[p].n
    BY <1>id, <2>1, <2>3, <2>6
  <2>num. NumberOK(p)'
    BY <1>0, <1>1, <1>2, <2>1, <2>6, <2>n, Zenon DEF NumberOK, Claiming
  <2>11. ServingOK(p)'
    BY <1>0, <1>id, <1>1, <1>2, <2>1, <2>3, <2>6 DEF ServingOK, Fresh, Claiming, NetOK, RunnerOK, Running, Hold
  <2> QED
    BY <1>0, <1>1, <1>2, <2>1, <2>3, <2>5, <2>7, <2>8, <2>9, <2>10, <2>num, <2>11, LocalStep,
       Zenon DEF Unadopted, Hold
<1>3. CASE afterClaim(p, by, TRUE) /\ UNCHANGED claim
  <2>0. PICK ok \in BOOLEAN : ok /\ afterClaim(p, by, ok) /\ by \in {"loop", "adopt", "serve", "promote"}
    BY <1>3, Zenon
  <2>1. /\ r' \in [Placements -> Runner] /\ op' \in [Placements -> OperatorState] /\ task' \in [Placements -> Nat]
        /\ inbox' \in [Placements -> Seq(Targets)] /\ announced' \in [Placements -> BOOLEAN] /\ target' = target
        /\ \A q \in Placements \ {p} : r'[q] = r[q] /\ op'[q] = op[q] /\ inbox'[q] = inbox[q]
        /\ r'[p].n = r[p].n /\ r'[p].net = r[p].net /\ r'[p].ready = r[p].ready
        /\ "TERMINATE" \in Elems(inbox'[p]) => target[p] = "TERMINATE"
        /\ op'[p] = op[p] /\ r'[p].role = r[p].role
        /\ r'[p].pc = "up" /\ inbox'[p] # <<>> /\ inbox'[p][Len(inbox'[p])] = target[p]
    <3>1. Ended(p, by, ok)
      BY <2>0, AfterClaim, Zenon
    <3>2. by \in {"loop", "adopt"} /\ ok
      BY <2>0, Zenon
    <3> QED
      BY <3>1, <3>2, Zenon DEF Ended
  <2>5. TypeOK'
    BY <1>0, <1>1, <1>3, <2>1, Zenon DEF TypeOK
  <2>6. containerID(p)' = containerID(p) /\ r[p].net = containerID(p)
    BY <1>0, <1>1, <2>1, Zenon DEF containerID, NetOK, Running
  <2>7. NetOK(p)'
    BY <1>0, <1>1, <2>1, <2>6, Zenon DEF NetOK, Running, Hold
  <2>8. RunnerOK(p)'
    BY <1>0, <1>1, <2>1, Zenon DEF RunnerOK
  <2>9. ClaimOK(p)'
    BY <1>0, <1>1, <1>3, <2>1, Zenon DEF ClaimOK, Claiming
  <2>10. InboxOK(p)'
    BY <1>0, <1>1, <2>1, Zenon DEF InboxOK, Latest
  <2>num. NumberOK(p)'
    BY <1>0, <1>id, <1>1, <1>3, <2>1, <2>6, Zenon DEF NumberOK, Of, Claiming, NetOK, Running, Hold
  <2>11. ServingOK(p)'
    BY <1>0, <1>id, <1>1, <1>3, <2>1, <2>6, Zenon DEF ServingOK, Fresh, Claiming, NetOK, RunnerOK, Running, Hold
  <2> QED
    BY <1>0, <1>1, <1>3, <2>1, <2>5, <2>7, <2>8, <2>9, <2>10, <2>num, <2>11, LocalStep, Zenon DEF Unadopted, Hold
<1> QED
  BY <1>1, <1>2, <1>3, Zenon

\* One placement serves at a time.
LEMMA OneServes ==
  ASSUME IInv, NEW p \in Placements, NEW q \in Placements, p # q, target[p] = "SERVING"
  PROVE  target[q] # "SERVING"
BY DEF IInv, TargetOK, Placements

\* While a placement claims, nothing is held for the other (whole: no handover falls
\* inside a claim).
LEMMA OtherWaits ==
  ASSUME IInv, NEW p \in Placements, Claiming(p), scope.whole, NEW q \in Placements \ {p}
  PROVE  target[q] # "SERVING" /\ ~Claiming(q)
<1>1. target[p] = "SERVING"
  BY Zenon DEF IInv, ClaimOK
<1>2. target[q] # "SERVING"
  BY <1>1, OneServes, Zenon
<1> QED
  BY <1>2, Zenon DEF IInv, ClaimOK

\* A claim ends (claimInboundAddressLocked returns).  It ends well with the address
\* registered for its network.
LEMMA ClaimEnds ==
  ASSUME IInv, NEW p \in Placements, Claiming(p), NEW ok \in BOOLEAN,
         claim' = [claim EXCEPT ![p] = NoClaim], afterClaim(p, claim[p].by, ok),
         UNCHANGED <<scope, up, veth, stuck, earlier, tracked, ports, exits, boots>>, faults' = faults \/ Fault,
         ok => /\ route' = route /\ current' = claim[p].net
               /\ (claim[p].pc = "read" /\ current = claim[p].net) \/ claim[p].pc = "current",
         ~ok => /\ current' = current
                /\ \/ /\ claim[p].pc = "activate" /\ route' = route
                      /\ claim[p].net \notin veth \cup stuck \/ faults' # 0
                   \/ /\ claim[p].pc = "rollback" /\ faults # 0
                      /\ \/ route' = Restored(claim[p].old)
                         \/ route' = route /\ faults' \notin {0, 1}
  PROVE  IInv'
<1>0. /\ r[p] \in Runner /\ NetOK(p) /\ RunnerOK(p) /\ ClaimOK(p) /\ InboxOK(p) /\ NumberOK(p)
      /\ ServingOK(p) /\ TypeOK
      /\ r \in [Placements -> Runner]
  BY Parts, Zenon
<1>id. /\ containerID(p) \in Net /\ containerID(p) # None /\ Of(containerID(p), p)
       /\ containerID(p)[2] = r[p].n /\ r[p].n \in Nat
  BY <1>0, IdNet, Zenon
<1>by. PICK by \in {"loop", "adopt", "serve", "promote"} : by = claim[p].by
  BY <1>0, Zenon DEF ClaimOK
<1>c. /\ Of(claim[p].net, p)
      /\ \/ /\ by \in {"serve", "promote"} /\ op[p].pc = "claim" /\ r[p].ready /\ r[p].pc # "claiming"
            /\ by = "promote" => r[p].role = "candidate"
         \/ by \in {"loop", "adopt"} /\ r[p].pc = "claiming"
      /\ r[p].pc \in {"claiming", "adopted", "up"} => claim[p].net = r[p].net
      /\ r[p].pc \notin {"warm", "adopt", "adoptStopped", "off"}
      /\ scope.whole => target[p] = "SERVING"
  BY <1>0, <1>by, Zenon DEF ClaimOK
<1>e. Ended(p, by, ok)
  BY <1>by, AfterClaim, Zenon
<1>1. /\ r' \in [Placements -> Runner] /\ op' \in [Placements -> OperatorState] /\ task' \in [Placements -> Nat]
      /\ inbox' \in [Placements -> Seq(Targets)] /\ announced' \in [Placements -> BOOLEAN] /\ target' = target
      /\ \A q \in Placements \ {p} : r'[q] = r[q] /\ op'[q] = op[q] /\ inbox'[q] = inbox[q]
      /\ r'[p].n = r[p].n /\ r'[p].net = r[p].net /\ r'[p].ready = r[p].ready /\ op'[p].seen = op[p].seen
      /\ "TERMINATE" \in Elems(inbox'[p]) => target[p] = "TERMINATE"
      /\ by \in {"loop", "adopt"} =>
           /\ op'[p] = op[p] /\ r'[p].role = r[p].role
           /\ ok => r'[p].pc = "up" /\ inbox'[p] # <<>> /\ inbox'[p][Len(inbox'[p])] = target[p]
           /\ ~ok => r'[p].pc = "clearPorts" /\ inbox'[p] = inbox[p]
      /\ by \in {"serve", "promote"} =>
           /\ r'[p].pc = r[p].pc /\ inbox'[p] = inbox[p] /\ r'[p].sweep = r[p].sweep
           /\ by = "serve" \/ ok => r'[p].role = "current" /\ op'[p].pc = "idle"
           /\ by = "promote" /\ ~ok => r'[p].role = r[p].role /\ op'[p].pc = "stop"
  BY <1>e, Zenon DEF Ended
<1>2. claim'[p].pc = "none" /\ \A q \in Placements \ {p} : claim'[q] = claim[q]
  BY <1>0, Zenon DEF TypeOK, NoClaim
<1>3. claim' \in [Placements -> Claim]
  <2>1. NoClaim \in Claim
    BY Zenon DEF NoClaim, Claim
  <2> QED
    BY <1>0, <2>1, Zenon DEF TypeOK
<1>4. claim[p].net \in Net \cup {None} /\ (route' = route \/ route' \in veth \cup stuck)
  BY <1>0, Zenon DEF TypeOK, Claim, Restored
<1>f. faults' \in Nat /\ (faults' = 0 => faults = 0) /\ (faults' \in {0, 1} => faults \in {0, 1})
  BY <1>0, Counting, Zenon
<1>5. TypeOK'
  <2>1. route' \in Net \cup {None} /\ current' \in Net \cup {None}
    BY <1>0, <1>4, Zenon DEF TypeOK
  <2> QED
    BY <1>0, <1>1, <1>3, <1>f, <2>1, Zenon DEF TypeOK
<1>6. containerID(p)' = containerID(p)
  BY <1>1, Zenon DEF containerID
<1>7. NetOK(p)'
  BY <1>0, <1>1, <1>c, <1>6, Zenon DEF NetOK, Running, Hold
<1>8. RunnerOK(p)'
  BY <1>0, <1>1, <1>c, Zenon DEF RunnerOK
<1>9. ClaimOK(p)'
  BY <1>1, <1>2, <1>c, Zenon DEF ClaimOK, Claiming
<1>10. InboxOK(p)'
  <2>1. Latest(p)' = target[p]
    BY <1>0, <1>1, Zenon DEF InboxOK, Latest
  <2> QED
    BY <1>0, <1>1, <1>c, <2>1, Zenon DEF InboxOK
<1>num. NumberOK(p)'
  <2> SUFFICES ASSUME scope.whole PROVE NumberOK(p)'
    BY Zenon DEF NumberOK
  <2>0. r[p].pc \in Running => r[p].net = containerID(p)
    BY <1>0, Zenon DEF NetOK
  <2>1. r'[p].pc = "setup" => current' # containerID(p)
    BY <1>0, <1>1, <1>c, Zenon DEF NumberOK
  <2>2. Of(current', p) => current'[2] <= r[p].n
    BY <1>0, <1>1, Zenon DEF NumberOK
  <2>3. CASE ok
    <3>1. r'[p].role # "current" => by \in {"loop", "adopt"} /\ r'[p].pc = "up" /\ current' = containerID(p)
      BY <1>1, <1>c, <2>0, <2>3, Zenon DEF Running
    <3>2. r'[p].pc \notin {"adopt", "adoptStopped", "off"}
      BY <1>1, <1>c, Zenon
    <3> QED
      BY <1>1, <1>2, <1>6, <2>1, <2>2, <3>1, <3>2, Zenon DEF NumberOK, Claiming
  <2>4. CASE ~ok
    <3>1. /\ current' = current /\ (r'[p].role # "current" => r[p].role # "current")
          /\ op'[p].pc # "off" => op[p].pc # "off"
      BY <1>1, <1>c, <2>4, Zenon
    <3>2. r'[p].pc \notin {"adopt", "adoptStopped", "off"}
      BY <1>1, <1>c, Zenon
    <3>3. r[p].pc \in {"claiming", "up", "clearPorts", "dropCurrent"}
            => r'[p].pc \in {"claiming", "up", "clearPorts", "dropCurrent"}
      BY <1>1, <1>c, Zenon
    <3> QED
      BY <1>0, <1>1, <1>2, <1>6, <2>1, <2>2, <3>1, <3>2, <3>3, Zenon DEF NumberOK, Claiming
  <2> QED
    BY <2>3, <2>4, Zenon
<1>11. ServingOK(p)'
  <2> SUFFICES ASSUME scope.whole, faults' = 0, faults = 0, target[p] = "SERVING" PROVE ServingOK(p)'
    BY <1>1, <1>f, Zenon DEF ServingOK
  <2>0. /\ r[p].net # None => r[p].net = containerID(p) /\ r[p].pc \in Running \cup Hold
        /\ r[p].pc \in Running => r[p].net = containerID(p) /\ containerID(p) \in veth
    BY <1>0, Zenon DEF NetOK
  <2>c. ~ok => current' = current /\ route' = route /\ claim[p].net \notin veth \cup stuck
    BY Zenon
  <2>1. r'[p].net # None /\ current' = r'[p].net /\ r'[p].pc \notin Hold => route' = current' /\ ports' = current'
    BY <1>0, <1>1, <1>c, <2>0, <2>c DEF ServingOK, Fresh, Claiming, Hold
  <2>6. r'[p].pc = "up" /\ inbox'[p] = <<>> /\ r'[p].role = "current" => current' = r'[p].net
    BY <1>1, <1>c, <2>0, <2>c, ZenonT(40) DEF Running
  <2> QED
    BY <1>1, <1>2, <2>1, <2>6, Zenon DEF ServingOK, Fresh, Claiming
<1>12. CurrentOK'
  <2>1. CASE current' = current
    BY <1>1, <2>1, Zenon DEF IInv, CurrentOK
  <2>2. CASE current' # current
    <3>1. scope.whole => target[p] = "SERVING" /\ Of(current', p)
      BY <1>c, <2>2, Zenon
    <3> QED
      BY <1>1, <3>1, Zenon DEF IInv, TargetOK, CurrentOK, Placements, Of
  <2> QED
    BY <2>1, <2>2, Zenon
<1>13. AdoptOK'
  <2>1. Unadopted(r[p]) => Unadopted(r'[p])
    BY <1>1, <1>c, Zenon DEF Unadopted, Hold
  <2>2. r'[p].pc \notin {"adopt", "off"}
    BY <1>1, <1>c, Zenon
  <2> QED
    BY <1>1, <2>1, <2>2, AdoptStays, Zenon
<1>14. ASSUME NEW q \in Placements \ {p}
       PROVE  /\ \A x \in veth' : Of(x, q) => x \in veth
              /\ r[q].pc \in Running => containerID(q) \in veth' \cap tracked'
              /\ scope.whole => current' = current \/ ~Of(current', q)
              /\ scope.whole /\ faults = 0 /\ target[q] = "SERVING" =>
                  /\ current' = current \/ (~Of(current, q) /\ ~Of(current', q))
                  /\ ports' = ports \/ ~Of(ports, q)
                  /\ r[q].pc \in Running /\ route = containerID(q) => route' = route
  BY <1>c, OtherWaits, Zenon DEF IInv, NetOK, Of
<1>15. (route' # None => route' \in veth' \cup stuck') /\ (boots = 0 => veth' \subseteq tracked')
  BY <1>4, Zenon DEF IInv, KernelOK
<1>16. r'[p].pc \notin {"adopt", "adoptStopped", "off"}
  BY <1>1, <1>c, Zenon
<1>17. RestoredOK'
  <2> SUFFICES ASSUME Few' PROVE RestoredOK'
    BY Zenon DEF RestoredOK
  <2>0. Few /\ scope.whole /\ faults' \in {0, 1} /\ RestoredOK
    BY <1>f, Zenon DEF IInv, Few
  <2>1. \A q \in Placements \ {p} : claim[q].pc = "none"
    BY <2>0, OtherWaits, Zenon DEF Claiming
  <2>2. \A q \in Placements : claim'[q].pc = "none"
    BY <1>2, <2>1, Zenon
  <2>3. claim[p].pc \notin Moving => \A q \in Placements : claim[q].pc \notin Moving
    BY <2>1, Zenon DEF Moving
  <2>4. ASSUME current' \in veth PROVE route' = current'
    <3>1. CASE ok /\ claim[p].pc = "read"
      BY <2>0, <2>3, <2>4, <3>1, Zenon DEF RestoredOK, Moving
    <3>2. CASE ok /\ claim[p].pc = "current"
      BY <2>0, <2>4, <3>2, Zenon DEF RestoredOK
    <3>3. CASE ~ok /\ claim[p].pc = "activate"
      BY <2>0, <2>3, <2>4, <3>3, Zenon DEF RestoredOK, Moving
    <3>4. CASE ~ok /\ claim[p].pc = "rollback"
      <4>1. current # None
        BY <1>0, <2>4, <3>4, RouteAssumption, Zenon DEF TypeOK, Net, Placements
      <4>2. current = claim[p].old
        BY <2>0, <3>4, <4>1, Zenon DEF RestoredOK, Moving
      <4> QED
        BY <2>0, <2>4, <3>4, <4>2, Zenon DEF Restored
    <3> QED
      BY <3>1, <3>2, <3>3, <3>4, Zenon
  <2> QED
    BY <2>2, <2>4, Zenon DEF RestoredOK, Moving
<1> QED
  BY <1>1, <1>2, <1>5, <1>7, <1>8, <1>9, <1>10, <1>num, <1>11, <1>12, <1>13, <1>14, <1>15, <1>16, <1>17, StepOf, Zenon

\* A claim takes its next step: it finds the address registered for another network,
\* routes it, publishes the ports, or begins to undo a claim whose ports failed.
LEMMA ClaimMoves ==
  ASSUME IInv, NEW p \in Placements, NEW pc \in {"activate", "ports", "current", "rollback"}, Claiming(p),
         claim' \in [Placements -> Claim], \A q \in Placements \ {p} : claim'[q] = claim[q],
         claim'[p].pc = pc, claim'[p].by = claim[p].by, claim'[p].net = claim[p].net,
         UNCHANGED <<scope, target, announced, inbox, op, r, task, veth, stuck, earlier, tracked, current,
                     up, exits, boots>>,
         faults' = faults \/ Fault, claim'[p].old = IF pc = "activate" THEN current ELSE claim[p].old,
         \/ pc = "activate" /\ claim[p].pc = "read" /\ current # claim[p].net /\ UNCHANGED <<route, ports>>
         \/ /\ pc = "ports" /\ claim[p].pc = "activate" /\ route' = claim[p].net /\ UNCHANGED ports
            /\ claim[p].net \in veth \cup stuck
         \/ pc = "current" /\ claim[p].pc = "ports" /\ ports' = containerID(p) /\ UNCHANGED route
         \/ pc = "rollback" /\ claim[p].pc = "ports" /\ faults' # 0 /\ UNCHANGED <<route, ports>>
  PROVE  IInv'
<1>0. /\ r[p] \in Runner /\ NetOK(p) /\ RunnerOK(p) /\ ClaimOK(p) /\ InboxOK(p) /\ NumberOK(p)
      /\ ServingOK(p) /\ TypeOK
      /\ r \in [Placements -> Runner]
  BY Parts, Zenon
<1>id. /\ containerID(p) \in Net /\ containerID(p) # None /\ containerID(p)' = containerID(p)
  BY <1>0, IdNet, Zenon DEF containerID
<1>1. Claiming(p)' /\ Of(claim[p].net, p) /\ claim[p].net # None /\ claim[p].net \in Net \cup {None}
  BY <1>0, Zenon DEF Claiming, ClaimOK, Of, TypeOK, Claim
<1>f. faults' \in Nat /\ (faults' = 0 => faults = 0) /\ (faults' \in {0, 1} => faults \in {0, 1})
  BY <1>0, Counting, Zenon
<1>5. TypeOK'
  <2>1. route' \in Net \cup {None} /\ ports' \in Net \cup {None}
    BY <1>0, <1>id, <1>1, Zenon DEF TypeOK
  <2> QED
    BY <1>0, <1>f, <2>1, Zenon DEF TypeOK
<1>7. NetOK(p)'
  BY <1>0, <1>id, Zenon DEF NetOK
<1>8. RunnerOK(p)'
  BY <1>0, Zenon DEF RunnerOK
<1>9. ClaimOK(p)'
  <2>1. claim'[p].pc = "rollback" => faults' # 0
    BY Zenon
  <2> QED
    BY <1>0, <1>1, <2>1, Zenon DEF ClaimOK, Of
<1>10. InboxOK(p)'
  BY <1>0, Zenon DEF InboxOK, Latest
<1>num. NumberOK(p)'
  BY <1>0, <1>id, <1>1, Zenon DEF NumberOK, Of
<1>11. ServingOK(p)'
  <2> SUFFICES ASSUME scope.whole, faults' = 0, faults = 0, target[p] = "SERVING" PROVE ServingOK(p)'
    BY <1>f, Zenon DEF ServingOK
  <2>1. /\ pc # "rollback"
        /\ current # claim[p].net /\ (r[p].net # None => current # r[p].net)
    BY <1>0, Zenon DEF ServingOK, Claiming
  <2>2. Fresh(p)' => Fresh(p) /\ claim[p].net = containerID(p)
    BY <1>0, <1>1, Zenon DEF Fresh, NetOK
  <2>3. pc \in {"ports", "current"} /\ Fresh(p)' => route' = claim[p].net
    BY <1>0, <2>1, <2>2, Zenon DEF ServingOK
  <2>4. pc = "current" /\ Fresh(p)' => ports' = claim[p].net
    BY <2>1, <2>2, Zenon
  <2> QED
    BY <1>0, <1>1, <1>id, <2>1, <2>3, <2>4, Zenon DEF ServingOK, Claiming, Of
<1>12. CurrentOK'
  BY Zenon DEF IInv, CurrentOK
<1>13. AdoptOK'
  BY Zenon DEF IInv, AdoptOK, containerID
<1>14. ASSUME NEW q \in Placements \ {p}
       PROVE  /\ \A x \in veth' : Of(x, q) => x \in veth
              /\ r[q].pc \in Running => containerID(q) \in veth' \cap tracked'
              /\ scope.whole => current' = current \/ ~Of(current', q)
              /\ scope.whole /\ faults = 0 /\ target[q] = "SERVING" =>
                  /\ current' = current \/ (~Of(current, q) /\ ~Of(current', q))
                  /\ ports' = ports \/ ~Of(ports, q)
                  /\ r[q].pc \in Running /\ route = containerID(q) => route' = route
  BY OtherWaits, Zenon DEF IInv, NetOK
<1>15. (route' # None => route' \in veth' \cup stuck') /\ (boots = 0 => veth' \subseteq tracked')
  BY Zenon DEF IInv, KernelOK
<1>16. RestoredOK'
  <2> SUFFICES ASSUME Few' PROVE RestoredOK'
    BY Zenon DEF RestoredOK
  <2>0. Few /\ scope.whole /\ RestoredOK
    BY <1>f, Zenon DEF IInv, Few
  <2>1. \A q \in Placements \ {p} : claim[q].pc = "none" /\ claim'[q].pc = "none"
    BY <2>0, OtherWaits, Zenon DEF Claiming
  <2>2. CASE pc = "activate"
    <3>1. \A q \in Placements : claim[q].pc \notin Moving
      BY <2>1, <2>2, Zenon DEF Moving
    <3>2. current \in veth => route' = current
      BY <2>0, <2>2, <3>1, Zenon DEF RestoredOK
    <3> QED
      BY <2>1, <2>2, <3>2, Zenon DEF RestoredOK, Moving
  <2>3. CASE pc # "activate"
    <3>1. claim[p].pc \in Moving \cup {"activate"} /\ claim'[p].old = claim[p].old
      BY <2>3, Zenon DEF Moving
    <3>2. current # None => current = claim'[p].old
      BY <2>0, <3>1, Zenon DEF RestoredOK
    <3>3. pc \in {"ports", "current"} /\ claim[p].net \in veth => route' = claim[p].net
      BY <2>0, Zenon DEF RestoredOK
    <3>4. claim'[p].pc \in Moving
      BY <2>3, Zenon DEF Moving
    <3> QED
      BY <2>1, <3>2, <3>3, <3>4, Zenon DEF RestoredOK, Moving
  <2> QED
    BY <2>2, <2>3, Zenon
<1> QED
  BY <1>5, <1>7, <1>8, <1>9, <1>10, <1>num, <1>11, <1>12, <1>13, <1>14, <1>15, <1>16, StepOf, Zenon

\* Every step of claimInboundAddressLocked.
LEMMA ClaimStep ==
  ASSUME IInv, NEW p \in Placements, claimInboundAddressLocked(p), UNCHANGED scope
  PROVE  IInv'
<1>0. /\ TypeOK /\ claim[p] \in Claim /\ claim \in [Placements -> Claim] /\ faults \in Nat
      /\ current \in Net \cup {None}
  BY Parts, Fields, Zenon DEF TypeOK
<1>1. UNCHANGED <<scope, up, exits, boots>>
  BY Zenon DEF claimInboundAddressLocked
<1>2. ASSUME NEW pc \in {"ports", "current", "rollback"}, step(p, pc)
      PROVE  /\ claim' \in [Placements -> Claim] /\ \A q \in Placements \ {p} : claim'[q] = claim[q]
             /\ claim'[p].pc = pc /\ claim'[p].by = claim[p].by /\ claim'[p].net = claim[p].net
             /\ claim'[p].old = claim[p].old /\ UNCHANGED <<target, announced, inbox, op, r, task>>
  <2>1. claim' = [claim EXCEPT ![p].pc = pc] /\ UNCHANGED <<target, announced, inbox, op, r, task>>
    BY <1>2, Zenon DEF step, store
  <2>2. claim' \in [Placements -> Claim] /\ \A q \in Placements \ {p} : claim'[q] = claim[q]
    BY <1>0, <2>1, Zenon DEF Claim
  <2>3. /\ claim'[p].pc = pc /\ claim'[p].by = claim[p].by /\ claim'[p].net = claim[p].net
        /\ claim'[p].old = claim[p].old
    BY <1>0, <2>1, Zenon DEF Claim
  <2> QED
    BY <2>1, <2>2, <2>3, Zenon
<1>3. ASSUME claim[p].pc = "read", current = claim[p].net, endClaim(p, TRUE), UNCHANGED <<kernel, manager, faults>>
      PROVE  IInv'
  <2>1. PICK ok \in BOOLEAN : ok /\ endClaim(p, ok)
    BY <1>3, Zenon
  <2>2. Claiming(p) /\ claim' = [claim EXCEPT ![p] = NoClaim] /\ afterClaim(p, claim[p].by, ok)
    BY <1>3, <2>1, Zenon DEF Claiming, endClaim
  <2>3. UNCHANGED <<veth, stuck, earlier, tracked, ports, route, current, faults>>
    BY <1>3, Zenon DEF links, kernel, manager
  <2> QED
    BY <1>1, <1>3, <2>1, <2>2, <2>3, ClaimEnds, Zenon
<1>4. ASSUME claim[p].pc = "read", current # claim[p].net,
             claim' = [claim EXCEPT ![p].pc = "activate", ![p].old = current],
             UNCHANGED <<store, op, r, task>>, UNCHANGED <<kernel, manager, faults>>
      PROVE  IInv'
  <2>1. claim' \in [Placements -> Claim] /\ \A q \in Placements \ {p} : claim'[q] = claim[q]
    BY <1>0, <1>4, Zenon DEF Claim
  <2>2. /\ claim'[p].pc = "activate" /\ claim'[p].by = claim[p].by /\ claim'[p].net = claim[p].net
        /\ claim'[p].old = current
    BY <1>0, <1>4, Zenon DEF Claim
  <2>3. UNCHANGED <<target, announced, inbox, op, r, task, veth, stuck, earlier, tracked, ports, route,
                    current, faults>> /\ Claiming(p)
    BY <1>4, Zenon DEF links, kernel, manager, store, Claiming
  <2>4. PICK pc \in {"activate", "ports", "current", "rollback"} : pc = "activate"
    BY Zenon
  <2> QED
    BY <1>0, <1>1, <1>4, <2>1, <2>2, <2>3, <2>4, ClaimMoves, Zenon
<1>5. ASSUME claim[p].pc = "activate", claim[p].net \in veth \cup stuck, route' = claim[p].net, step(p, "ports"),
             UNCHANGED <<links, manager, faults>>
      PROVE  IInv'
  <2>1. PICK pc \in {"ports", "current", "rollback"} : pc = "ports"
    BY Zenon
  <2>2. UNCHANGED <<veth, stuck, earlier, tracked, ports, current, faults>> /\ Claiming(p) /\ step(p, pc)
    BY <1>5, <2>1, Zenon DEF links, manager, Claiming
  <2> QED
    BY <1>0, <1>1, <1>2, <1>5, <2>1, <2>2, ClaimMoves, Zenon
<1>6. ASSUME claim[p].pc = "activate", (claim[p].net \notin veth \cup stuck /\ UNCHANGED faults) \/ Fault,
             endClaim(p, FALSE), UNCHANGED route, UNCHANGED <<links, manager>>
      PROVE  IInv'
  <2>1. PICK ok \in BOOLEAN : ~ok /\ endClaim(p, ok)
    BY <1>6, Zenon
  <2>2. Claiming(p) /\ claim' = [claim EXCEPT ![p] = NoClaim] /\ afterClaim(p, claim[p].by, ok)
    BY <1>6, <2>1, Zenon DEF Claiming, endClaim
  <2>3. UNCHANGED <<veth, stuck, earlier, tracked, ports, current>>
    BY <1>6, Zenon DEF links, manager
  <2>4. Fault => faults' # 0
    BY <1>0, Counting, Zenon
  <2> QED
    BY <1>1, <1>6, <2>1, <2>2, <2>3, <2>4, ClaimEnds, Zenon
<1>7. ASSUME claim[p].pc = "ports", ports' = containerID(p), step(p, "current"), UNCHANGED faults,
             UNCHANGED <<kernel, tracked, current>>
      PROVE  IInv'
  <2>1. PICK pc \in {"ports", "current", "rollback"} : pc = "current"
    BY Zenon
  <2>2. UNCHANGED <<veth, stuck, earlier, route, tracked, current, faults>> /\ Claiming(p) /\ step(p, pc)
    BY <1>7, <2>1, Zenon DEF links, kernel, Claiming
  <2> QED
    BY <1>0, <1>1, <1>2, <1>7, <2>1, <2>2, ClaimMoves, Zenon
<1>8. ASSUME claim[p].pc = "ports", Fault, step(p, "rollback"), UNCHANGED ports,
             UNCHANGED <<kernel, tracked, current>>
      PROVE  IInv'
  <2>1. PICK pc \in {"ports", "current", "rollback"} : pc = "rollback"
    BY Zenon
  <2>2. UNCHANGED <<veth, stuck, earlier, route, tracked, current, ports>> /\ Claiming(p) /\ step(p, pc)
    BY <1>8, <2>1, Zenon DEF links, kernel, Claiming
  <2>3. faults' \in Nat /\ faults' # 0
    BY <1>0, <1>8, Counting, Zenon
  <2> QED
    BY <1>0, <1>1, <1>2, <1>8, <2>1, <2>2, <2>3, ClaimMoves, Zenon
<1>9. ASSUME claim[p].pc = "current", current' = claim[p].net, endClaim(p, TRUE),
             UNCHANGED <<kernel, tracked, ports, faults>>
      PROVE  IInv'
  <2>1. PICK ok \in BOOLEAN : ok /\ endClaim(p, ok)
    BY <1>9, Zenon
  <2>2. Claiming(p) /\ claim' = [claim EXCEPT ![p] = NoClaim] /\ afterClaim(p, claim[p].by, ok)
    BY <1>9, <2>1, Zenon DEF Claiming, endClaim
  <2>3. UNCHANGED <<veth, stuck, earlier, route, tracked, ports, faults>>
    BY <1>9, Zenon DEF links, kernel
  <2> QED
    BY <1>1, <1>9, <2>1, <2>2, <2>3, ClaimEnds, Zenon
<1>10. ASSUME claim[p].pc = "rollback",
              (route' = Restored(claim[p].old) /\ UNCHANGED faults) \/ (Fault /\ UNCHANGED route),
              endClaim(p, FALSE), UNCHANGED <<links, manager>>
       PROVE  IInv'
  <2>1. PICK ok \in BOOLEAN : ~ok /\ endClaim(p, ok)
    BY <1>10, Zenon
  <2>2. Claiming(p) /\ claim' = [claim EXCEPT ![p] = NoClaim] /\ afterClaim(p, claim[p].by, ok)
    BY <1>10, <2>1, Zenon DEF Claiming, endClaim
  <2>3. UNCHANGED <<veth, stuck, earlier, tracked, ports, current>> /\ faults # 0
    BY <1>10, Zenon DEF links, manager, IInv, ClaimOK
  <2>4. Fault => faults' \notin {0, 1}
    BY <1>0, <2>3, Counting, Zenon
  <2> QED
    BY <1>1, <1>10, <2>1, <2>2, <2>3, <2>4, ClaimEnds, Zenon
<1> QED
  BY <1>3, <1>4, <1>5, <1>6, <1>7, <1>8, <1>9, <1>10, Zenon DEF claimInboundAddressLocked

-----------------------------------------------------------------------------
(* Networks come and go. *)

\* The route after links were removed: it is kept with its link.
LEMMA RouteKept ==
  ASSUME IInv, NEW nets \in SUBSET Net
  PROVE  /\ RouteVia(route, nets) \in Net \cup {None}
         /\ RouteVia(route, nets) # None => RouteVia(route, nets) \in nets
         /\ route \in nets => RouteVia(route, nets) = route
         /\ veth \cup stuck \subseteq nets => RouteVia(route, nets) = route
BY RouteAssumption, Zenon DEF IInv, TypeOK, KernelOK, RouteVia, Net, Placements

\* A run's network is set up, or it is not and the next run is tried (setupContainerNet).
LEMMA SetupStep ==
  ASSUME IInv, NEW p \in Placements, setupContainerNet(p), UNCHANGED scope
  PROVE  IInv'
<1>0. /\ r[p] \in Runner /\ NetOK(p) /\ RunnerOK(p) /\ ClaimOK(p) /\ InboxOK(p) /\ NumberOK(p)
      /\ ServingOK(p) /\ TypeOK
      /\ r \in [Placements -> Runner]
  BY Parts, Zenon
<1>id. /\ containerID(p) \in Net /\ containerID(p) # None /\ Of(containerID(p), p)
       /\ containerID(p)[2] = r[p].n /\ r[p].n \in Nat
  BY <1>0, IdNet, Zenon
<1>other. ASSUME NEW q \in Placements \ {p} PROVE containerID(q) # containerID(p) /\ ~Of(containerID(p), q)
  BY <1>id, IdNet, Parts, Zenon DEF Of
<1>1. /\ r[p].pc = "setup" /\ UNCHANGED <<op, claim, task, current, ports, up, exits, boots>>
  BY Zenon DEF setupContainerNet
<1>2. /\ r[p].net = None /\ containerID(p) \notin veth /\ veth \ {containerID(p)} = veth
      /\ \A x \in veth : ~Of(x, p)
  BY <1>0, <1>1, Zenon DEF NetOK, Running, Hold
<1>3. /\ RouteVia(route, veth \cup stuck) = route /\ veth \subseteq Net /\ stuck \subseteq Net
      /\ route \in Net \cup {None} /\ faults \in Nat /\ (route # None => route \in veth \cup stuck)
      /\ (boots = 0 => veth \subseteq tracked) /\ tracked \subseteq Net
  <2>1. veth \cup stuck \in SUBSET Net
    BY <1>0, Zenon DEF TypeOK
  <2>2. RouteVia(route, veth \cup stuck) = route
    BY <2>1, RouteKept, Zenon
  <2> QED
    BY <1>0, <2>2, Zenon DEF TypeOK, IInv, KernelOK
<1>u. ~Unadopted(r[p])
  BY <1>1, Zenon DEF Unadopted, Hold
<1>4. CASE r' = [r EXCEPT ![p].pc = "done"] /\ updateStatus(p, FALSE) /\ UNCHANGED <<kernel, tracked, faults>>
  <2>1. /\ inbox' \in [Placements -> Seq(Targets)] /\ announced' \in [Placements -> BOOLEAN]
        /\ target' = target /\ \A q \in Placements \ {p} : inbox'[q] = inbox[q]
        /\ inbox'[p] # <<>> /\ inbox'[p][Len(inbox'[p])] = target[p]
        /\ "TERMINATE" \in Elems(inbox'[p]) => target[p] = "TERMINATE"
    BY <1>4, StatusUpdated, Zenon
  <2>2. UNCHANGED <<veth, stuck, earlier, route, tracked, faults>>
    BY <1>4, Zenon DEF links, kernel
  <2>3. /\ r'[p].pc = "done" /\ r'[p].ready = r[p].ready /\ r'[p].n = r[p].n /\ r'[p].net = r[p].net
        /\ r'[p].role = r[p].role /\ \A q \in Placements \ {p} : r'[q] = r[q]
    BY <1>0, <1>4, Zenon DEF Runner
  <2>4. r' \in [Placements -> Runner]
    BY <1>0, <1>4, Zenon DEF Runner
  <2>5. TypeOK'
    BY <1>0, <1>1, <2>1, <2>2, <2>4, Zenon DEF TypeOK
  <2>6. containerID(p)' = containerID(p)
    BY <2>3, Zenon DEF containerID
  <2>7. NetOK(p)'
    BY <1>0, <1>2, <2>2, <2>3, <2>6, Zenon DEF NetOK, Running, Hold
  <2>8. RunnerOK(p)'
    BY <1>0, <1>1, <2>3, Zenon DEF RunnerOK
  <2>9. ClaimOK(p)'
    BY <1>0, <1>1, <2>1, <2>2, <2>3, Zenon DEF ClaimOK, Claiming, Of
  <2>10. InboxOK(p)'
    BY <1>0, <1>1, <2>1, <2>3, Zenon DEF InboxOK, Latest
  <2>num. NumberOK(p)'
    BY <1>0, <1>1, <1>2, <2>1, <2>2, <2>3, <2>6, Zenon DEF NumberOK, Of, Claiming, Hold
  <2>11. ServingOK(p)'
    BY <1>0, <1>1, <1>2, <2>1, <2>2, <2>3, <2>6, Zenon DEF ServingOK, Fresh, Claiming, RunnerOK, Hold
  <2> QED
    BY <1>0, <1>1, <1>u, <2>1, <2>2, <2>3, <2>5, <2>7, <2>8, <2>9, <2>10, <2>num, <2>11, LocalStep, Zenon
<1>5. CASE /\ veth' = veth \cup {containerID(p)} /\ route' = RouteVia(route, veth \cup stuck)
           /\ tracked' = tracked \cup {containerID(p)}
           /\ r' = [r EXCEPT ![p].pc = "start", ![p].net = containerID(p)] /\ UNCHANGED <<store, stuck,
                                                                                          earlier, faults>>
  <2>1. UNCHANGED <<target, announced, inbox, stuck, earlier, faults>>
    BY <1>5, Zenon DEF store
  <2>3. /\ r'[p].pc = "start" /\ r'[p].ready = r[p].ready /\ r'[p].n = r[p].n /\ r'[p].net = containerID(p)
        /\ r'[p].role = r[p].role /\ \A q \in Placements \ {p} : r'[q] = r[q]
    BY <1>0, <1>5, Zenon DEF Runner
  <2>4. r' \in [Placements -> Runner]
    BY <1>0, <1>id, <1>5, Zenon DEF Runner, Running
  <2>5. TypeOK'
    <3>1. veth' \subseteq Net /\ tracked' \subseteq Net /\ route' = route
      BY <1>id, <1>3, <1>5, Zenon
    <3> QED
      BY <1>0, <1>1, <2>1, <2>4, <3>1, Zenon DEF TypeOK
  <2>6. containerID(p)' = containerID(p)
    BY <2>3, Zenon DEF containerID
  <2>7. NetOK(p)'
    BY <1>2, <1>5, <2>3, <2>6, Zenon DEF NetOK, Running
  <2>8. RunnerOK(p)'
    BY <1>0, <1>1, <2>3, Zenon DEF RunnerOK
  <2>9. ClaimOK(p)'
    BY <1>0, <1>1, <2>1, <2>3, Zenon DEF ClaimOK, Claiming, Of
  <2>10. InboxOK(p)'
    BY <1>0, <1>1, <2>1, <2>3, Zenon DEF InboxOK, Latest
  <2>num. NumberOK(p)'
    BY <1>0, <1>1, <1>id, <2>1, <2>3, <2>6, Zenon DEF NumberOK, Of, Claiming
  <2>11. ServingOK(p)'
    BY <1>0, <1>1, <1>id, <2>1, <2>3, <2>6, Zenon DEF NumberOK, ServingOK, Fresh, Claiming
  <2>12. CurrentOK'
    BY <1>1, <2>1, Zenon DEF IInv, CurrentOK
  <2>13. AdoptOK'
    <3>1. /\ \A q \in Placements \ {p} : r'[q] = r[q]
          /\ tracked' \subseteq tracked \cup {containerID(p)}
          /\ \A q \in Placements \ {p} : r[q].pc = "adopt" /\ containerID(q) \in veth' =>
               containerID(q) \in veth /\ (Unadopted(r[p]) => Unadopted(r'[p]))
          /\ r'[p].pc \notin {"adopt", "off"}
      BY <1>5, <1>other, <1>u, <2>3, Zenon
    <3> QED
      BY <3>1, AdoptStays, Zenon
  <2>14. ASSUME NEW q \in Placements \ {p}
         PROVE  /\ \A x \in veth' : Of(x, q) => x \in veth
                /\ r[q].pc \in Running => containerID(q) \in veth' \cap tracked'
                /\ scope.whole => current' = current \/ ~Of(current', q)
                /\ scope.whole /\ faults = 0 /\ target[q] = "SERVING" =>
                    /\ current' = current \/ (~Of(current, q) /\ ~Of(current', q))
                    /\ ports' = ports \/ ~Of(ports, q)
                    /\ r[q].pc \in Running /\ route = containerID(q) => route' = route
    BY <1>1, <1>3, <1>5, <1>other, Zenon DEF IInv, NetOK
  <2>15. (route' # None => route' \in veth' \cup stuck') /\ (boots = 0 => veth' \subseteq tracked')
    BY <1>3, <1>5, Zenon
  <2>16. RestoredOK'
    <3>1. scope.whole => \A x \in veth' :
            x \in veth \/ (x # current /\ \A q \in Placements : Claiming(q) => claim[q].net # x)
      <4>1. scope.whole => containerID(p) # current /\ (Claiming(p) => claim[p].net # containerID(p))
        BY <1>0, <1>1, Zenon DEF NumberOK
      <4>2. ASSUME NEW q \in Placements \ {p}, Claiming(q) PROVE claim[q].net # containerID(p)
        <5>1. Of(claim[q].net, q)
          BY <4>2, Zenon DEF IInv, ClaimOK
        <5> QED
          BY <1>other, <4>2, <5>1, Zenon
      <4> QED
        BY <1>5, <4>1, <4>2, Zenon
    <3>2. UNCHANGED <<scope, boots, claim, current>> /\ route' = route /\ (faults' = faults \/ Fault)
      BY <1>1, <1>3, <1>5, <2>1, Zenon
    <3> QED
      BY <2>5, <3>1, <3>2, RestoredStays, Zenon
  <2> QED
    BY <1>1, <2>1, <2>3, <2>5, <2>7, <2>8, <2>9, <2>10, <2>num, <2>11, <2>12, <2>13, <2>14, <2>15, <2>16,
       StepOf, Zenon
<1>6. CASE /\ faults' = faults \/ Fault
           /\ veth' = veth /\ stuck' \in {stuck, stuck \cup {containerID(p)}} /\ UNCHANGED earlier
           /\ route' = RouteVia(route, veth \cup stuck) /\ tracked' = tracked \ {containerID(p)}
           /\ r' = Respawn(p) /\ updateStatus(p, FALSE)
  <2>1. /\ inbox' \in [Placements -> Seq(Targets)] /\ announced' \in [Placements -> BOOLEAN]
        /\ target' = target /\ \A q \in Placements \ {p} : inbox'[q] = inbox[q]
        /\ inbox'[p] # <<>> /\ inbox'[p][Len(inbox'[p])] = target[p]
        /\ "TERMINATE" \in Elems(inbox'[p]) => target[p] = "TERMINATE"
    BY <1>6, StatusUpdated, Zenon
  <2>2. /\ faults' \in Nat /\ (faults' = 0 => faults = 0) /\ r[p].n + 1 \in Nat
    <3>1. r[p].n + 1 \in Nat
      BY <1>id
    <3> QED
      BY <1>0, <1>6, <3>1, Counting, Zenon
  <2>3. /\ r'[p].pc = "setup" /\ r'[p].ready = r[p].ready /\ r'[p].n = r[p].n + 1 /\ r'[p].net = None
        /\ r'[p].role = r[p].role /\ \A q \in Placements \ {p} : r'[q] = r[q]
    BY <1>0, <1>6, Zenon DEF Runner, Respawn
  <2>4. r' \in [Placements -> Runner]
    BY <1>0, <1>6, <2>2, ZenonT(40) DEF Runner, Respawn
  <2>5. TypeOK'
    <3>1. veth' \subseteq Net /\ stuck' \subseteq Net /\ tracked' \subseteq Net /\ route' = route
      BY <1>id, <1>3, <1>6, Zenon
    <3> QED
      BY <1>0, <1>1, <1>6, <2>1, <2>2, <2>4, <3>1, Zenon DEF TypeOK
  <2>6. containerID(p)' = <<p, r[p].n + 1>> /\ Of(containerID(p)', p)
    <3>1. <<p, r[p].n + 1>> # None
      BY <2>2, RouteAssumption DEF Placements
    <3> QED
      BY <2>3, <3>1, Zenon DEF containerID, Of
  <2>7. NetOK(p)'
    BY <1>2, <1>6, <2>3, <2>6, Zenon DEF NetOK, Running
  <2>8. RunnerOK(p)'
    BY <1>0, <1>1, <2>3, Zenon DEF RunnerOK
  <2>9. ClaimOK(p)'
    BY <1>0, <1>1, <2>1, <2>2, <2>3, Zenon DEF ClaimOK, Claiming, Of
  <2>10. InboxOK(p)'
    BY <1>0, <1>1, <2>1, <2>3, Zenon DEF InboxOK, Latest
  <2>num. NumberOK(p)'
    <3> SUFFICES ASSUME scope.whole PROVE NumberOK(p)'
      BY <2>1, <2>2, Zenon DEF NumberOK
    <3>1. Of(current, p) => current \in Net /\ current[2] <= r[p].n
      BY <1>0, Zenon DEF NumberOK, TypeOK, Of
    <3>2. Claiming(p) => Of(claim[p].net, p) /\ claim[p].net \in Net /\ claim[p].net[2] <= r[p].n
      BY <1>0, Zenon DEF NumberOK, ClaimOK, TypeOK, Claim, Of
    <3>3. ASSUME NEW x \in Net, x[2] <= r[p].n PROVE x # <<p, r[p].n + 1>> /\ x[2] <= r[p].n + 1
      BY <1>id, <3>3 DEF Net
    <3>4. current' # containerID(p)' /\ (Claiming(p) => claim[p].net # containerID(p)')
      BY <1>1, <2>6, <3>1, <3>2, <3>3, Zenon
    <3>5. /\ Of(current', p) => current'[2] <= r'[p].n
          /\ Claiming(p) => claim[p].net[2] <= r'[p].n
      BY <1>1, <2>3, <3>1, <3>2, <3>3, Zenon
    <3>6. r[p].role # "current" /\ up /\ (target[p] = "SERVING" \/ op[p].pc # "off") => ~Of(current, p)
      BY <1>0, <1>1, Zenon DEF NumberOK
    <3> QED
      BY <1>0, <1>1, <2>1, <2>3, <3>4, <3>5, <3>6, Zenon DEF NumberOK, Claiming, Of
  <2>11. ServingOK(p)'
    <3>1. Claiming(p) => claim[p].net # None
      BY <1>0, Zenon DEF ClaimOK, Of
    <3> QED
      BY <1>0, <1>1, <2>1, <2>2, <2>3, <3>1, Zenon DEF ServingOK, Fresh, Claiming
  <2>12. CurrentOK'
    BY <1>1, <2>1, Zenon DEF IInv, CurrentOK
  <2>13. AdoptOK'
    BY <1>6, <1>u, <2>3, AdoptStays, Zenon
  <2>14. ASSUME NEW q \in Placements \ {p}
         PROVE  /\ \A x \in veth' : Of(x, q) => x \in veth
                /\ r[q].pc \in Running => containerID(q) \in veth' \cap tracked'
                /\ scope.whole => current' = current \/ ~Of(current', q)
                /\ scope.whole /\ faults = 0 /\ target[q] = "SERVING" =>
                    /\ current' = current \/ (~Of(current, q) /\ ~Of(current', q))
                    /\ ports' = ports \/ ~Of(ports, q)
                    /\ r[q].pc \in Running /\ route = containerID(q) => route' = route
    BY <1>1, <1>3, <1>6, <1>other, Zenon DEF IInv, NetOK
  <2>15. (route' # None => route' \in veth' \cup stuck') /\ (boots = 0 => veth' \subseteq tracked')
    BY <1>2, <1>3, <1>6, Zenon
  <2>16. RestoredOK'
    <3>1. scope.whole => \A x \in veth' :
            x \in veth \/ (x # current /\ \A q \in Placements : Claiming(q) => claim[q].net # x)
      BY <1>6, Zenon
    <3>2. UNCHANGED <<scope, boots, claim, current>> /\ route' = route /\ (faults' = faults \/ Fault)
      BY <1>1, <1>3, <1>6, Zenon
    <3> QED
      BY <2>5, <3>1, <3>2, RestoredStays, Zenon
  <2> QED
    BY <1>1, <1>6, <2>1, <2>2, <2>3, <2>5, <2>7, <2>8, <2>9, <2>10, <2>num, <2>11, <2>12, <2>13, <2>14,
       <2>15, <2>16, StepOf, Zenon
<1> QED
  BY <1>2, <1>4, <1>5, <1>6, Zenon DEF setupContainerNet

\* The run's ports are closed and its registration is dropped, each if it is still the
\* run's (ClearHostPorts, DropCurrentNet).
LEMMA ReleaseStep ==
  ASSUME IInv, NEW p \in Placements, NEW pc \in {"dropCurrent", "teardown"},
         r' = [r EXCEPT ![p].pc = pc],
         \/ r[p].pc = "clearPorts" /\ pc = "dropCurrent" /\ ports' = ClearHostPorts(containerID(p)) /\ UNCHANGED current
         \/ r[p].pc = "dropCurrent" /\ pc = "teardown" /\ current' = DropCurrentNet(containerID(p)) /\ UNCHANGED ports,
         UNCHANGED <<scope, target, announced, inbox, op, claim, task, veth, stuck, earlier, route, tracked,
                     up, exits, faults, boots>>
  PROVE  IInv'
<1>0. /\ r[p] \in Runner /\ NetOK(p) /\ RunnerOK(p) /\ ClaimOK(p) /\ InboxOK(p) /\ NumberOK(p)
      /\ ServingOK(p) /\ TypeOK
      /\ r \in [Placements -> Runner]
  BY Parts, Zenon
<1>id. /\ containerID(p) \in Net /\ containerID(p) # None /\ Of(containerID(p), p)
       /\ containerID(p)[2] = r[p].n /\ r[p].n \in Nat
  BY <1>0, IdNet, Zenon
<1>1. /\ r'[p].pc = pc /\ r'[p].ready = r[p].ready /\ r'[p].n = r[p].n /\ r'[p].net = r[p].net
      /\ r'[p].role = r[p].role /\ r'[p].sweep = r[p].sweep /\ \A q \in Placements \ {p} : r'[q] = r[q]
  BY <1>0, Zenon DEF Runner
<1>2. r' \in [Placements -> Runner]
  BY <1>0, Zenon DEF Runner, Hold
<1>3. /\ ports' = ports \/ (ports = containerID(p) /\ ports' = None)
      /\ current' = current \/ (current = containerID(p) /\ current' = None)
      /\ pc = "teardown" => current' # containerID(p)
  BY <1>id, Zenon DEF ClearHostPorts, DropCurrentNet
<1>5. TypeOK'
  <2>1. ports' \in Net \cup {None} /\ current' \in Net \cup {None}
    BY <1>0, <1>3, Zenon DEF TypeOK
  <2> QED
    BY <1>0, <1>2, <2>1, Zenon DEF TypeOK
<1>6. containerID(p)' = containerID(p)
  BY <1>1, Zenon DEF containerID
<1>7. NetOK(p)'
  BY <1>0, <1>1, <1>6, Zenon DEF NetOK, Running, Hold
<1>8. RunnerOK(p)'
  BY <1>0, <1>1, Zenon DEF RunnerOK
<1>9. ClaimOK(p)'
  BY <1>0, <1>1, Zenon DEF ClaimOK, Claiming, Of
<1>10. InboxOK(p)'
  BY <1>0, <1>1, Zenon DEF InboxOK, Latest
<1>num. NumberOK(p)'
  <2> SUFFICES ASSUME scope.whole PROVE NumberOK(p)'
    BY Zenon DEF NumberOK
  <2>1. Of(current', p) => current' = current
    BY <1>3, Zenon DEF Of
  <2>2. /\ r[p].role # "current" /\ up /\ (target[p] = "SERVING" \/ op[p].pc # "off") /\ Of(current', p)
            => current' = containerID(p) /\ pc = "dropCurrent"
    BY <1>0, <1>3, <2>1, Zenon DEF NumberOK
  <2>3. (Of(current', p) => current'[2] <= r[p].n) /\ (Claiming(p) => claim[p].net[2] <= r[p].n)
    BY <1>0, <2>1, Zenon DEF NumberOK
  <2> QED
    BY <1>1, <1>6, <2>2, <2>3, Zenon DEF NumberOK, Claiming
<1>11. ServingOK(p)'
  <2> SUFFICES ASSUME scope.whole, faults = 0, target[p] = "SERVING" PROVE ServingOK(p)'
    BY Zenon DEF ServingOK
  <2>1. Claiming(p) => Of(claim[p].net, p)
    BY <1>0, Zenon DEF ClaimOK
  <2>3. claim[p].pc \in {"activate", "ports", "current"} => current' # claim[p].net
    BY <1>0, <1>3, <2>1, Zenon DEF ServingOK, Claiming, Of
  <2>4. Claiming(p) /\ r[p].net # None /\ claim[p].net # r[p].net => current' # r[p].net
    BY <1>0, <1>3, Zenon DEF ServingOK
  <2> QED
    BY <1>1, <1>6, <2>3, <2>4, Zenon DEF ServingOK, Fresh, Claiming, Hold
<1>12. CurrentOK'
  BY <1>3, Zenon DEF IInv, CurrentOK, Of
<1>13. AdoptOK'
  <2>1. Unadopted(r[p]) => Unadopted(r'[p])
    BY <1>1, Zenon DEF Unadopted, Hold
  <2> QED
    BY <1>1, <2>1, AdoptStays, Zenon
<1>14. ASSUME NEW q \in Placements \ {p}
       PROVE  /\ \A x \in veth' : Of(x, q) => x \in veth
              /\ r[q].pc \in Running => containerID(q) \in veth' \cap tracked'
              /\ scope.whole => current' = current \/ ~Of(current', q)
              /\ scope.whole /\ faults = 0 /\ target[q] = "SERVING" =>
                  /\ current' = current \/ (~Of(current, q) /\ ~Of(current', q))
                  /\ ports' = ports \/ ~Of(ports, q)
                  /\ r[q].pc \in Running /\ route = containerID(q) => route' = route
  BY <1>id, <1>3, Zenon DEF IInv, NetOK, Of
<1>15. (route' # None => route' \in veth' \cup stuck') /\ (boots = 0 => veth' \subseteq tracked')
  BY Zenon DEF IInv, KernelOK
<1>16. RestoredOK'
  BY <1>3, <1>5, RestoredStays, Zenon
<1> QED
  BY <1>1, <1>5, <1>7, <1>8, <1>9, <1>10, <1>num, <1>11, <1>12, <1>13, <1>14, <1>15, <1>16, StepOf, Zenon

\* The run's network is removed, with the untracked ones where sweep is set, and the
\* loop ends or begins its next run (cleanupContainerNet).
LEMMA TeardownStep ==
  ASSUME IInv, NEW p \in Placements, r[p].pc = "teardown",
         tracked' = tracked \ {containerID(p)},
         veth' = veth \ (IF r[p].sweep THEN {containerID(p)} \cup (veth \ tracked') ELSE {containerID(p)}),
         stuck' \subseteq Net, route' = RouteVia(route, veth' \cup stuck'), faults' = faults \/ Fault,
         r' = [r EXCEPT ![p].pc = "done", ![p].net = None] \/ r' = Respawn(p),
         updateStatus(p, FALSE) \/ UNCHANGED <<target, announced, inbox>>,
         UNCHANGED <<scope, op, claim, task, current, ports, earlier, up, exits, boots>>
  PROVE  IInv'
<1>0. /\ r[p] \in Runner /\ NetOK(p) /\ RunnerOK(p) /\ ClaimOK(p) /\ InboxOK(p) /\ NumberOK(p)
      /\ ServingOK(p) /\ TypeOK
      /\ r \in [Placements -> Runner]
  BY Parts, Zenon
<1>id. /\ containerID(p) \in Net /\ containerID(p) # None /\ Of(containerID(p), p)
       /\ containerID(p)[2] = r[p].n /\ r[p].n \in Nat
  BY <1>0, IdNet, Zenon
<1>other. ASSUME NEW q \in Placements \ {p} PROVE containerID(q) # containerID(p) /\ ~Of(containerID(p), q)
  BY <1>id, IdNet, Parts, Zenon DEF Of
<1>1. /\ inbox' \in [Placements -> Seq(Targets)] /\ announced' \in [Placements -> BOOLEAN]
      /\ target' = target /\ \A q \in Placements \ {p} : inbox'[q] = inbox[q]
      /\ \/ inbox'[p] # <<>> /\ inbox'[p][Len(inbox'[p])] = target[p]
         \/ inbox'[p] = inbox[p]
      /\ "TERMINATE" \in Elems(inbox'[p]) => target[p] = "TERMINATE"
  <2>1. CASE updateStatus(p, FALSE)
    BY <2>1, StatusUpdated, Zenon
  <2>2. CASE UNCHANGED <<target, announced, inbox>>
    BY <1>0, <2>2, Zenon DEF TypeOK, InboxOK
  <2> QED
    BY <2>1, <2>2, Zenon
<1>2. PICK m \in {r[p].n, r[p].n + 1} :
        /\ r'[p].n = m /\ r'[p].pc \in {"done", "setup"} /\ (r'[p].pc = "setup" => m = r[p].n + 1)
        /\ r'[p].net = None /\ r'[p].ready = r[p].ready /\ r'[p].role = r[p].role
        /\ \A q \in Placements \ {p} : r'[q] = r[q]
  <2>1. CASE r' = [r EXCEPT ![p].pc = "done", ![p].net = None]
    BY <1>0, <2>1, Zenon DEF Runner
  <2>2. CASE r' = Respawn(p)
    BY <1>0, <2>2, Zenon DEF Runner, Respawn
  <2> QED
    BY <2>1, <2>2, Zenon
<1>3. r' \in [Placements -> Runner]
  <2>1. CASE r' = [r EXCEPT ![p].pc = "done", ![p].net = None]
    BY <1>0, <2>1, Zenon DEF Runner
  <2>2. CASE r' = Respawn(p)
    <3>1. r[p].n + 1 \in Nat
      BY <1>id
    <3> QED
      BY <1>0, <2>2, <3>1, ZenonT(40) DEF Runner, Respawn
  <2> QED
    BY <2>1, <2>2, Zenon
<1>4. /\ veth' \subseteq veth \ {containerID(p)} /\ (r[p].sweep => veth' \subseteq tracked')
      /\ \A x \in veth \cap tracked : x # containerID(p) => x \in veth' \cap tracked'
      /\ \A x \in veth' : ~Of(x, p)
  BY <1>0, Zenon DEF NetOK
<1>f. faults' \in Nat /\ (faults' = 0 => faults = 0)
  BY <1>0, Counting, Zenon
<1>5. TypeOK' /\ (route' # None => route' \in veth' \cup stuck') /\ (route \in veth' => route' = route)
  <2>1. veth' \in SUBSET Net /\ tracked' \subseteq Net
    BY <1>0, <1>4, Zenon DEF TypeOK
  <2>2. PICK nets \in SUBSET Net : nets = veth' \cup stuck'
    BY <2>1, Zenon
  <2>3. /\ route' \in Net \cup {None} /\ (route' # None => route' \in veth' \cup stuck')
        /\ (route \in veth' => route' = route)
    BY <2>2, RouteKept, Zenon
  <2> QED
    BY <1>0, <1>1, <1>3, <1>f, <2>1, <2>3, Zenon DEF TypeOK
<1>6. /\ containerID(p)' = <<p, m>> /\ Of(<<p, m>>, p) /\ m \in Nat /\ r[p].n <= m
  <2>1. m \in Nat /\ r[p].n <= m
    BY <1>id
  <2>2. <<p, m>> # None
    BY <2>1, RouteAssumption DEF Placements
  <2> QED
    BY <1>2, <2>1, <2>2, Zenon DEF containerID, Of
<1>7. NetOK(p)'
  BY <1>2, <1>4, <1>6, Zenon DEF NetOK, Running
<1>8. RunnerOK(p)'
  BY <1>0, <1>2, Zenon DEF RunnerOK
<1>9. ClaimOK(p)'
  BY <1>0, <1>1, <1>2, <1>f, Zenon DEF ClaimOK, Claiming, Of
<1>10. InboxOK(p)'
  BY <1>0, <1>1, <1>2, Zenon DEF InboxOK, Latest
<1>num. NumberOK(p)'
  <2> SUFFICES ASSUME scope.whole PROVE NumberOK(p)'
    BY Zenon DEF NumberOK
  <2>1. Of(current, p) => current \in Net /\ current[2] <= r[p].n
    BY <1>0, Zenon DEF NumberOK, TypeOK, Of
  <2>2. Claiming(p) => Of(claim[p].net, p) /\ claim[p].net \in Net /\ claim[p].net[2] <= r[p].n
    BY <1>0, Zenon DEF NumberOK, ClaimOK, TypeOK, Claim, Of
  <2>3. ASSUME NEW x \in Net, x[2] <= r[p].n PROVE (m = r[p].n + 1 => x # <<p, m>>) /\ x[2] <= m
    BY <1>id, <1>6, <2>3 DEF Net
  <2>4. r'[p].pc = "setup" => current # containerID(p)' /\ (Claiming(p) => claim[p].net # containerID(p)')
    BY <1>2, <1>6, <2>1, <2>2, <2>3, Zenon
  <2>5. (Of(current, p) => current[2] <= r'[p].n) /\ (Claiming(p) => claim[p].net[2] <= r'[p].n)
    BY <1>2, <2>1, <2>2, <2>3, Zenon
  <2>6. r[p].role # "current" /\ up /\ (target[p] = "SERVING" \/ op[p].pc # "off") => ~Of(current, p)
    BY <1>0, Zenon DEF NumberOK
  <2> QED
    BY <1>1, <1>2, <2>4, <2>5, <2>6, Zenon DEF NumberOK, Claiming, Of
<1>11. ServingOK(p)'
  <2>1. Claiming(p) => claim[p].net # None
    BY <1>0, Zenon DEF ClaimOK, Of
  <2> QED
    BY <1>0, <1>1, <1>2, <1>f, <2>1, Zenon DEF ServingOK, Fresh, Claiming
<1>12. CurrentOK'
  BY <1>1, Zenon DEF IInv, CurrentOK
<1>13. AdoptOK'
  <2>1. Unadopted(r[p]) => r[p].sweep
    BY Zenon DEF Unadopted
  <2>2. ASSUME NEW q \in Placements \ {p}, r[q].pc = "adopt", containerID(q) \in veth'
        PROVE  containerID(q) \in veth /\ ~Unadopted(r[p])
    BY <1>4, <2>1, <2>2, Zenon DEF IInv, AdoptOK
  <2>3. tracked' \subseteq tracked \cup {containerID(p)}
    BY Zenon
  <2> QED
    BY <1>2, <2>2, <2>3, AdoptStays, Zenon
<1>14. ASSUME NEW q \in Placements \ {p}
       PROVE  /\ \A x \in veth' : Of(x, q) => x \in veth
              /\ r[q].pc \in Running => containerID(q) \in veth' \cap tracked'
              /\ scope.whole => current' = current \/ ~Of(current', q)
              /\ scope.whole /\ faults = 0 /\ target[q] = "SERVING" =>
                  /\ current' = current \/ (~Of(current, q) /\ ~Of(current', q))
                  /\ ports' = ports \/ ~Of(ports, q)
                  /\ r[q].pc \in Running /\ route = containerID(q) => route' = route
  <2>1. r[q].pc \in Running => containerID(q) \in veth' \cap tracked'
    BY <1>4, <1>other, Zenon DEF IInv, NetOK
  <2> QED
    BY <1>4, <1>5, <2>1, Zenon
<1>15. boots = 0 => veth' \subseteq tracked'
  BY <1>4, Zenon DEF IInv, KernelOK
<1>16. RestoredOK'
  BY <1>4, <1>5, RestoredStays, Zenon
<1> QED
  BY <1>1, <1>2, <1>5, <1>7, <1>8, <1>9, <1>10, <1>num, <1>11, <1>12, <1>13, <1>14, <1>15, <1>16, StepOf, Zenon

\* Every step of cleanupContainerNet.
LEMMA CleanupStep ==
  ASSUME IInv, NEW p \in Placements, cleanupContainerNet(p), UNCHANGED scope
  PROVE  IInv'
<1>1. UNCHANGED <<op, claim, task, up, exits, boots>>
  BY Zenon DEF cleanupContainerNet
<1>2. ASSUME r[p].pc = "clearPorts", ports' = ClearHostPorts(containerID(p)), r' = [r EXCEPT ![p].pc = "dropCurrent"],
             UNCHANGED <<store, current, tracked, kernel, faults>>
      PROVE  IInv'
  <2>1. PICK pc \in {"dropCurrent", "teardown"} : pc = "dropCurrent"
    BY Zenon
  <2>2. UNCHANGED <<target, announced, inbox, current, tracked, veth, stuck, earlier,
                    route>> /\ r' = [r EXCEPT ![p].pc = pc]
    BY <1>2, <2>1, Zenon DEF store, links, kernel
  <2> QED
    BY <1>1, <1>2, <2>1, <2>2, ReleaseStep, Zenon
<1>3. ASSUME r[p].pc = "dropCurrent", current' = DropCurrentNet(containerID(p)), r' = [r EXCEPT ![p].pc = "teardown"],
             UNCHANGED <<store, ports, tracked, kernel, faults>>
      PROVE  IInv'
  <2>1. PICK pc \in {"dropCurrent", "teardown"} : pc = "teardown"
    BY Zenon
  <2>2. UNCHANGED <<target, announced, inbox, ports, tracked, veth, stuck, earlier,
                    route>> /\ r' = [r EXCEPT ![p].pc = pc]
    BY <1>3, <2>1, Zenon DEF store, links, kernel
  <2> QED
    BY <1>1, <1>3, <2>1, <2>2, ReleaseStep, Zenon
<1>4. ASSUME r[p].pc = "teardown", tracked' = tracked \ {containerID(p)},
             IF r[p].sweep THEN teardownContainerNet({containerID(p)} \cup (veth \ tracked'), {})
                           ELSE teardownContainerNet({containerID(p)}, stuck),
             route' = RouteVia(route, veth' \cup stuck'),
             r' = IF r[p].stopping THEN [r EXCEPT ![p].pc = "done", ![p].net = None] ELSE Respawn(p),
             IF r[p].told THEN UNCHANGED store ELSE updateStatus(p, FALSE), UNCHANGED <<ports, current, earlier>>
      PROVE  IInv'
  <2>1. updateStatus(p, FALSE) \/ UNCHANGED <<target, announced, inbox>>
    BY <1>4, Zenon DEF store
  <2>2. veth \subseteq Net /\ stuck \subseteq Net
    BY Zenon DEF IInv, TypeOK
  <2>3. /\ veth' = veth \ (IF r[p].sweep THEN {containerID(p)} \cup (veth \ tracked') ELSE {containerID(p)})
        /\ stuck' \subseteq Net /\ (faults' = faults \/ Fault)
    BY <1>4, <2>2, Zenon DEF teardownContainerNet
  <2> QED
    BY <1>1, <1>4, <2>1, <2>3, TeardownStep, Zenon
<1> QED
  BY <1>2, <1>3, <1>4, Zenon DEF cleanupContainerNet

\* A restarted agent's runner adopts its container, or gives it up (recoverContainerNet).
LEMMA RecoverStep ==
  ASSUME IInv, NEW p \in Placements, recoverContainerNet(p), UNCHANGED scope
  PROVE  IInv'
<1>0. /\ r[p] \in Runner /\ NetOK(p) /\ RunnerOK(p) /\ ClaimOK(p) /\ InboxOK(p) /\ NumberOK(p)
      /\ ServingOK(p) /\ TypeOK
      /\ r \in [Placements -> Runner]
  BY Parts, Zenon
<1>id. /\ containerID(p) \in Net /\ containerID(p) # None /\ Of(containerID(p), p)
       /\ containerID(p)[2] = r[p].n /\ r[p].n \in Nat
  BY <1>0, IdNet, Zenon
<1>other. ASSUME NEW q \in Placements \ {p} PROVE containerID(q) # containerID(p) /\ ~Of(containerID(p), q)
  BY <1>id, IdNet, Parts, Zenon DEF Of
<1>1. /\ r[p].pc \in {"adopt", "adoptStopped"}
      /\ UNCHANGED <<target, announced, inbox, op, claim, current, ports, up, exits, boots>>
  BY Zenon DEF recoverContainerNet, store
<1>2. r[p].net = None /\ ~Claiming(p) /\ faults \in Nat /\ task \in [Placements -> Nat]
  BY <1>0, <1>1, Zenon DEF NetOK, ClaimOK, Running, Hold, TypeOK
<1>3. CASE /\ r[p].pc = "adopt" /\ containerID(p) \in veth
           /\ tracked' = tracked \cup {containerID(p)} /\ teardownContainerNet(veth \ tracked', {})
           /\ route' = containerID(p)
           /\ r' = [r EXCEPT ![p].pc = "adopted", ![p].net = containerID(p), ![p].adopted = TRUE]
           /\ UNCHANGED <<task, earlier>>
  <2>1. /\ r'[p].pc = "adopted" /\ r'[p].ready = r[p].ready /\ r'[p].n = r[p].n /\ r'[p].net = containerID(p)
        /\ r'[p].role = r[p].role /\ \A q \in Placements \ {p} : r'[q] = r[q]
    BY <1>0, <1>3, Zenon DEF Runner
  <2>2. r' \in [Placements -> Runner]
    BY <1>0, <1>id, <1>3, Zenon DEF Runner, Running
  <2>3. veth' = veth \ (veth \ tracked') /\ stuck' \subseteq Net /\ (faults' = faults \/ Fault)
    <3>1. veth \subseteq Net /\ stuck \subseteq Net
      BY <1>0, Zenon DEF TypeOK
    <3> QED
      BY <1>3, <3>1, Zenon DEF teardownContainerNet
  <2>4. veth' = veth \cap tracked' /\ containerID(p) \in veth' /\ veth' \subseteq veth
    BY <1>3, <2>3, Zenon
  <2>f. faults' \in Nat /\ (faults' = 0 => faults = 0)
    BY <1>0, <2>3, Counting, Zenon
  <2>5. TypeOK'
    <3>1. veth' \subseteq Net /\ tracked' \subseteq Net /\ route' \in Net \cup {None}
      BY <1>0, <1>id, <1>3, <2>4, Zenon DEF TypeOK
    <3> QED
      BY <1>0, <1>1, <1>3, <2>2, <2>3, <2>f, <3>1, Zenon DEF TypeOK
  <2>6. containerID(p)' = containerID(p)
    BY <2>1, Zenon DEF containerID
  <2>7. NetOK(p)'
    BY <1>0, <1>3, <2>1, <2>4, <2>6, Zenon DEF NetOK, Running
  <2>8. RunnerOK(p)'
    BY <1>0, <1>1, <1>3, <2>1, Zenon DEF RunnerOK
  <2>9. ClaimOK(p)'
    BY <1>1, <1>2, <2>1, Zenon DEF ClaimOK, Claiming
  <2>10. InboxOK(p)'
    BY <1>0, <1>1, <2>1, Zenon DEF InboxOK, Latest
  <2>num. NumberOK(p)'
    BY <1>0, <1>1, <1>2, <1>3, <1>id, <2>1, <2>6, Zenon DEF NumberOK, Of, Claiming
  <2>11. ServingOK(p)'
    BY <1>0, <1>1, <1>2, <1>id, <2>1, <2>f, Zenon DEF NumberOK, ServingOK, Fresh, Claiming
  <2>12. CurrentOK'
    BY <1>1, Zenon DEF IInv, CurrentOK
  <2>13. ASSUME NEW q \in Placements \ {p} PROVE Unadopted(r[q]) /\ r[q].pc \notin Running
    BY <1>3, Zenon DEF IInv, AdoptOK, Unadopted, Running, Hold
  <2>14. AdoptOK'
    <3>1. ASSUME NEW q \in Placements \ {p}, r[q].pc = "adopt" PROVE containerID(q) \notin veth'
      BY <1>3, <1>other, <2>4, <3>1, Zenon DEF IInv, AdoptOK
    <3>2. tracked' \subseteq tracked \cup {containerID(p)}
      BY <1>3, Zenon
    <3> QED
      BY <2>1, <3>1, <3>2, AdoptStays, Zenon
  <2>15. ASSUME NEW q \in Placements \ {p}
         PROVE  /\ \A x \in veth' : Of(x, q) => x \in veth
                /\ r[q].pc \in Running => containerID(q) \in veth' \cap tracked'
                /\ scope.whole => current' = current \/ ~Of(current', q)
                /\ scope.whole /\ faults = 0 /\ target[q] = "SERVING" =>
                    /\ current' = current \/ (~Of(current, q) /\ ~Of(current', q))
                    /\ ports' = ports \/ ~Of(ports, q)
                    /\ r[q].pc \in Running /\ route = containerID(q) => route' = route
    BY <1>1, <2>4, <2>13, Zenon
  <2>16. (route' # None => route' \in veth' \cup stuck') /\ (boots = 0 => veth' \subseteq tracked')
    BY <1>3, <2>4, Zenon
  <2>17. RestoredOK'
    BY <1>1, Zenon DEF IInv, KernelOK, RestoredOK, Few
  <2> QED
    BY <1>1, <1>3, <2>3, <2>1, <2>5, <2>7, <2>8, <2>9, <2>10, <2>num, <2>11, <2>12, <2>14, <2>15, <2>16,
       <2>17, StepOf, Zenon
<1>4. CASE /\ Fault \/ UNCHANGED faults
           /\ task' = [task EXCEPT ![p] = 0]
           /\ r' = [r EXCEPT ![p].pc = "clearPorts", ![p].sweep = TRUE,
                             ![p].stopping = @ \/ r[p].pc = "adoptStopped"]
           /\ UNCHANGED <<tracked, kernel>>
  <2>1. /\ r'[p].pc = "clearPorts" /\ r'[p].ready = r[p].ready /\ r'[p].n = r[p].n /\ r'[p].net = None
        /\ r'[p].role = r[p].role /\ r'[p].sweep /\ \A q \in Placements \ {p} : r'[q] = r[q]
    BY <1>0, <1>2, <1>4, Zenon DEF Runner
  <2>2. r' \in [Placements -> Runner]
    BY <1>0, <1>4, Zenon DEF Runner, Hold
  <2>3. /\ UNCHANGED <<tracked, veth, stuck, earlier, route>> /\ faults' \in Nat /\ (faults' = 0 => faults = 0)
        /\ task' \in [Placements -> Nat] /\ (faults' = faults \/ Fault)
    <3>1. task' \in [Placements -> Nat]
      BY <1>2, <1>4
    <3> QED
      BY <1>0, <1>4, <3>1, Counting, Zenon DEF links, kernel
  <2>5. TypeOK'
    BY <1>0, <1>1, <2>2, <2>3, Zenon DEF TypeOK
  <2>6. containerID(p)' = containerID(p)
    BY <2>1, Zenon DEF containerID
  <2>7. NetOK(p)'
    BY <1>0, <2>1, <2>3, <2>6, Zenon DEF NetOK, Running, Hold
  <2>8. RunnerOK(p)'
    BY <1>0, <1>1, <2>1, Zenon DEF RunnerOK
  <2>9. ClaimOK(p)'
    BY <1>1, <1>2, <2>1, Zenon DEF ClaimOK, Claiming
  <2>10. InboxOK(p)'
    BY <1>0, <1>1, <2>1, Zenon DEF InboxOK, Latest
  <2>num. NumberOK(p)'
    BY <1>0, <1>1, <1>2, <2>1, <2>3, <2>6, Zenon DEF NumberOK, Of, Claiming
  <2>11. ServingOK(p)'
    BY <1>0, <1>1, <1>2, <2>1, <2>3, <2>6, Zenon DEF ServingOK, Fresh, Claiming
  <2>12. Unadopted(r'[p])
    BY <2>1, Zenon DEF Unadopted, Hold
  <2> QED
    BY <1>1, <2>1, <2>3, <2>5, <2>7, <2>8, <2>9, <2>10, <2>num, <2>11, <2>12, LocalStep, Zenon
<1> QED
  BY <1>3, <1>4, Zenon DEF recoverContainerNet

-----------------------------------------------------------------------------
(* The operator. *)

\* Stop returns, the run loop having ended (Stop).
LEMMA StopStep ==
  ASSUME IInv, NEW p \in Placements, Stop(p), UNCHANGED scope
  PROVE  IInv'
<1>0. /\ r[p] \in Runner /\ NetOK(p) /\ RunnerOK(p) /\ ClaimOK(p) /\ InboxOK(p) /\ NumberOK(p)
      /\ ServingOK(p) /\ TypeOK
      /\ r \in [Placements -> Runner]
  BY Parts, Zenon
<1>id. /\ containerID(p) \in Net /\ containerID(p) # None /\ Of(containerID(p), p)
  BY <1>0, IdNet, Zenon
<1>other. ASSUME NEW q \in Placements \ {p} PROVE containerID(q) # containerID(p) /\ ~Of(containerID(p), q)
  BY <1>id, IdNet, Parts, Zenon DEF Of
<1>1. /\ op[p].pc = "stop" /\ r[p].pc = "done" /\ teardownContainerNet({containerID(p)}, stuck)
      /\ route' = RouteVia(route, veth' \cup stuck')
      /\ tracked' = tracked \ {containerID(p)} /\ r' = [r EXCEPT ![p].role = "none"]
      /\ UNCHANGED <<target, announced, inbox, claim, task, current, ports, earlier, up, exits, boots>>
  BY Zenon DEF Stop, store
<1>2. PICK o \in {"off", "idle"} : op' = [op EXCEPT ![p].pc = o] /\ (o = "idle" => op[p].seen # "TERMINATE")
  <2>1. op' = [op EXCEPT ![p].pc = IF op[p].pc = "stop" /\ op[p].seen = "TERMINATE" THEN "off" ELSE "idle"]
    BY Zenon DEF Stop
  <2>2. CASE op[p].seen = "TERMINATE"
    BY <1>1, <2>1, <2>2, Zenon
  <2>3. CASE op[p].seen # "TERMINATE"
    BY <1>1, <2>1, <2>3, Zenon
  <2> QED
    BY <2>2, <2>3, Zenon
<1>3. op' \in [Placements -> OperatorState] /\ op'[p].pc = o /\ op'[p].seen = op[p].seen
      /\ \A q \in Placements \ {p} : op'[q] = op[q]
  <2>1. op \in [Placements -> OperatorState]
    BY <1>0, Zenon DEF TypeOK
  <2> QED
    BY <1>2, <2>1, Zenon DEF OperatorState
<1>4. /\ r'[p].pc = "done" /\ r'[p].ready = r[p].ready /\ r'[p].n = r[p].n /\ r'[p].net = r[p].net
      /\ r'[p].role = "none" /\ \A q \in Placements \ {p} : r'[q] = r[q]
  BY <1>0, <1>1, Zenon DEF Runner
<1>5. r' \in [Placements -> Runner]
  BY <1>0, <1>1, Zenon DEF Runner
<1>6. /\ containerID(p) \notin veth /\ veth' = veth /\ r[p].net = None /\ ~Claiming(p) /\ up
      /\ containerID(p)' = containerID(p) /\ stuck' = stuck /\ faults' = faults
  <2>1. containerID(p) \notin veth /\ r[p].net = None /\ ~Claiming(p) /\ up /\ containerID(p)' = containerID(p)
    BY <1>0, <1>1, <1>4, Zenon DEF NetOK, Running, Hold, ClaimOK, RunnerOK, containerID
  <2>2. ({containerID(p)} \cap veth) \cup (stuck \ stuck) = {} /\ veth \ {containerID(p)} = veth
    BY <2>1, Zenon
  <2> QED
    BY <1>1, <2>1, <2>2, Zenon DEF teardownContainerNet
<1>7. route' = route
  <2>1. veth \cup stuck \in SUBSET Net
    BY <1>0, Zenon DEF TypeOK
  <2> QED
    BY <1>1, <1>6, <2>1, RouteKept, Zenon
<1>8. TypeOK'
  <2>1. tracked' \subseteq Net
    BY <1>0, <1>1, Zenon DEF TypeOK
  <2> QED
    BY <1>0, <1>1, <1>3, <1>5, <1>6, <1>7, <2>1, Zenon DEF TypeOK
<1>9. NetOK(p)'
  BY <1>0, <1>4, <1>6, Zenon DEF NetOK, Running, Hold
<1>10. RunnerOK(p)'
  BY <1>0, <1>1, <1>3, <1>4, <1>6, Zenon DEF RunnerOK
<1>11. ClaimOK(p)'
  BY <1>1, <1>4, <1>6, Zenon DEF ClaimOK, Claiming
<1>12. InboxOK(p)'
  BY <1>0, <1>1, <1>3, <1>4, Zenon DEF InboxOK, Latest
<1>num. NumberOK(p)'
  <2>1. target[p] = "SERVING" \/ op'[p].pc # "off" => r[p].role # "current" /\ op[p].pc # "off"
    BY <1>0, <1>1, <1>2, <1>3, Zenon DEF InboxOK
  <2> QED
    BY <1>0, <1>1, <1>4, <1>6, <2>1, Zenon DEF NumberOK, Claiming
<1>13. ServingOK(p)'
  BY <1>0, <1>1, <1>4, <1>6, <1>7, Zenon DEF ServingOK, Fresh, Claiming, InboxOK
<1>14. CurrentOK'
  BY <1>1, Zenon DEF IInv, CurrentOK
<1>15. AdoptOK'
  <2>1. ~Unadopted(r[p])
    BY <1>1, Zenon DEF Unadopted, Hold
  <2>2. tracked' \subseteq tracked \cup {containerID(p)}
    BY <1>1, Zenon
  <2> QED
    BY <1>4, <1>6, <2>1, <2>2, AdoptStays, Zenon
<1>16. ASSUME NEW q \in Placements \ {p}
       PROVE  /\ \A x \in veth' : Of(x, q) => x \in veth
              /\ r[q].pc \in Running => containerID(q) \in veth' \cap tracked'
              /\ scope.whole => current' = current \/ ~Of(current', q)
              /\ scope.whole /\ faults = 0 /\ target[q] = "SERVING" =>
                  /\ current' = current \/ (~Of(current, q) /\ ~Of(current', q))
                  /\ ports' = ports \/ ~Of(ports, q)
                  /\ r[q].pc \in Running /\ route = containerID(q) => route' = route
  BY <1>1, <1>6, <1>7, <1>other, Zenon DEF IInv, NetOK
<1>17. (route' # None => route' \in veth' \cup stuck') /\ (boots = 0 => veth' \subseteq tracked')
  BY <1>1, <1>6, <1>7, Zenon DEF IInv, KernelOK
<1>18. RestoredOK'
  BY <1>1, <1>6, <1>7, <1>8, RestoredStays, Zenon
<1> QED
  BY <1>1, <1>3, <1>4, <1>6, <1>8, <1>9, <1>10, <1>11, <1>12, <1>num, <1>13, <1>14, <1>15, <1>16, <1>17,
     <1>18, StepOf, Zenon

\* An operator receives an update (reconcile): what it has seen, or is about to see, last
\* is the target.
LEMMA UpdateSeen ==
  ASSUME IInv, NEW p \in Placements, inbox[p] # <<>>, inbox' = [inbox EXCEPT ![p] = Tail(@)],
         op'[p].seen = Head(inbox[p]), UNCHANGED target
  PROVE  /\ inbox' \in [Placements -> Seq(Targets)] /\ \A q \in Placements \ {p} : inbox'[q] = inbox[q]
         /\ Head(inbox[p]) \in Targets /\ (Head(inbox[p]) = "TERMINATE" => target[p] = "TERMINATE")
         /\ Latest(p)' = target'[p] /\ ("TERMINATE" \in Elems(inbox'[p]) => target'[p] = "TERMINATE")
         /\ inbox'[p] = <<>> => Head(inbox[p]) = target[p]
<1>1. inbox \in [Placements -> Seq(Targets)] /\ inbox[p] \in Seq(Targets) /\ InboxOK(p)
  BY Zenon DEF IInv, TypeOK
<1>2. PICK box \in Seq(Targets) : box = inbox[p] /\ box # <<>>
  BY <1>1, Zenon
<1>3. inbox'[p] = Tail(box) /\ Head(inbox[p]) = Head(box) /\ \A q \in Placements \ {p} : inbox'[q] = inbox[q]
  BY <1>1, <1>2, Zenon
<1>4. /\ Head(box) \in Targets /\ Head(box) \in Elems(box)
      /\ Tail(box) \in Seq(Targets) /\ Elems(Tail(box)) \subseteq Elems(box)
      /\ Tail(box) # <<>> => Tail(box)[Len(Tail(box))] = box[Len(box)]
      /\ Tail(box) = <<>> => Head(box) = box[Len(box)]
  BY <1>2, Received, Zenon
<1>5. box[Len(box)] = target[p] /\ ("TERMINATE" \in Elems(box) => target[p] = "TERMINATE")
  BY <1>1, <1>2, Zenon DEF InboxOK, Latest
<1>6. inbox' \in [Placements -> Seq(Targets)]
  BY <1>1, <1>2, <1>4, Zenon
<1>7. Latest(p)' = target'[p]
  BY <1>3, <1>4, <1>5, Zenon DEF Latest
<1> QED
  BY <1>3, <1>4, <1>5, <1>6, <1>7, Zenon

\* Every kind of update (reconcile): the end of the placement, a new candidate, Serve, or
\* nothing to do.
LEMMA ReconcileStep ==
  ASSUME IInv, NEW p \in Placements, reconcile(p), UNCHANGED scope
  PROVE  IInv'
<1>0. /\ r[p] \in Runner /\ NetOK(p) /\ RunnerOK(p) /\ ClaimOK(p) /\ InboxOK(p) /\ NumberOK(p)
      /\ ServingOK(p) /\ TypeOK
      /\ r \in [Placements -> Runner] /\ op \in [Placements -> OperatorState] /\ op[p] \in OperatorState
      /\ task \in [Placements -> Nat] /\ claim \in [Placements -> Claim]
  BY Parts, Zenon DEF TypeOK
<1>id. /\ containerID(p) \in Net /\ containerID(p) # None /\ Of(containerID(p), p)
       /\ containerID(p)[2] = r[p].n /\ r[p].n \in Nat
  BY <1>0, IdNet, Zenon
<1>1. /\ op[p].pc = "idle" /\ inbox[p] # <<>> /\ inbox' = [inbox EXCEPT ![p] = Tail(@)]
      /\ UNCHANGED <<target, announced, veth, stuck, earlier, route, tracked, current, ports, up, exits,
                     faults, boots>>
  BY Zenon DEF reconcile, links, kernel, manager, budgets
<1>up. up
  BY <1>0, <1>1, Zenon DEF RunnerOK
<1> DEFINE t == Head(inbox[p])
<1>2. CASE /\ t = "TERMINATE" /\ op' = [op EXCEPT ![p] = [pc |-> "stop", seen |-> t]]
           /\ r' = [r EXCEPT ![p].stopping = TRUE] /\ task' = [task EXCEPT ![p] = 0] /\ UNCHANGED claim
  <2>1. op'[p].seen = t /\ op'[p].pc = "stop" /\ \A q \in Placements \ {p} : op'[q] = op[q]
    BY <1>0, <1>2, Zenon
  <2>2. /\ inbox' \in [Placements -> Seq(Targets)] /\ \A q \in Placements \ {p} : inbox'[q] = inbox[q]
        /\ target[p] = "TERMINATE" /\ Latest(p)' = target'[p] /\ t \in Targets
    BY <1>1, <1>2, <2>1, UpdateSeen, Zenon
  <2>3. /\ r'[p].pc = r[p].pc /\ r'[p].ready = r[p].ready /\ r'[p].n = r[p].n /\ r'[p].net = r[p].net
        /\ r'[p].role = r[p].role /\ r'[p].sweep = r[p].sweep /\ \A q \in Placements \ {p} : r'[q] = r[q]
    BY <1>0, <1>2, Zenon DEF Runner
  <2>4. r' \in [Placements -> Runner] /\ op' \in [Placements -> OperatorState] /\ task' \in [Placements -> Nat]
    <3>1. r' \in [Placements -> Runner]
      BY <1>0, <1>2, Zenon DEF Runner
    <3>2. op' \in [Placements -> OperatorState]
      BY <1>0, <1>2, <2>2, Zenon DEF OperatorState
    <3> QED
      BY <1>0, <1>2, <3>1, <3>2, Zenon
  <2>5. TypeOK'
    BY <1>0, <1>1, <1>2, <2>2, <2>4, Zenon DEF TypeOK
  <2>6. containerID(p)' = containerID(p)
    BY <2>3, Zenon DEF containerID
  <2>7. NetOK(p)'
    BY <1>0, <1>1, <2>3, <2>6, Zenon DEF NetOK
  <2>8. RunnerOK(p)'
    BY <1>0, <1>1, <1>up, <2>1, <2>3, Zenon DEF RunnerOK
  <2>9. ClaimOK(p)'
    BY <1>0, <1>1, <1>2, <2>3, Zenon DEF ClaimOK, Claiming, Of
  <2>10. InboxOK(p)'
    BY <1>1, <1>2, <2>1, <2>2, Zenon DEF InboxOK
  <2>num. NumberOK(p)'
    BY <1>0, <1>1, <1>2, <2>3, <2>6, Zenon DEF NumberOK, Claiming
  <2>11. ServingOK(p)'
    BY <1>1, <2>2, Zenon DEF ServingOK
  <2> QED
    BY <1>1, <1>2, <2>1, <2>2, <2>3, <2>5, <2>7, <2>8, <2>9, <2>10, <2>num, <2>11, LocalStep, Zenon DEF Unadopted
<1>3. CASE /\ r[p].role = "none" /\ r' = [r EXCEPT ![p] = FreshRunner("candidate")]
           /\ op' = [op EXCEPT ![p].seen = t] /\ UNCHANGED <<claim, task>>
  <2>1. op'[p].seen = t /\ op'[p].pc = "idle" /\ \A q \in Placements \ {p} : op'[q] = op[q]
    BY <1>0, <1>1, <1>3, Zenon DEF OperatorState
  <2>2. /\ inbox' \in [Placements -> Seq(Targets)] /\ \A q \in Placements \ {p} : inbox'[q] = inbox[q]
        /\ Latest(p)' = target'[p] /\ t \in Targets
        /\ "TERMINATE" \in Elems(inbox'[p]) => target'[p] = "TERMINATE"
    BY <1>1, <2>1, UpdateSeen, Zenon
  <2>3. /\ r'[p].pc = "setup" /\ ~r'[p].ready /\ r'[p].n = 1 /\ r'[p].net = None
        /\ r'[p].role = "candidate" /\ \A q \in Placements \ {p} : r'[q] = r[q]
    BY <1>0, <1>3, Zenon DEF FreshRunner
  <2>4. r' \in [Placements -> Runner] /\ op' \in [Placements -> OperatorState]
    <3>1. FreshRunner("candidate") \in Runner
      BY Zenon DEF Runner, FreshRunner
    <3>2. r' \in [Placements -> Runner]
      BY <1>0, <1>3, <3>1, Zenon
    <3>3. op' \in [Placements -> OperatorState]
      BY <1>0, <1>3, <2>2, Zenon DEF OperatorState
    <3> QED
      BY <3>2, <3>3, Zenon
  <2>5. TypeOK'
    BY <1>0, <1>1, <1>3, <2>2, <2>4, Zenon DEF TypeOK
  <2>6. /\ r[p].pc = "done" /\ ~Claiming(p) /\ containerID(p) \notin veth /\ \A x \in veth : ~Of(x, p)
    BY <1>0, <1>1, <1>3, <1>up, Zenon DEF RunnerOK, ClaimOK, NetOK
  <2>7. containerID(p)' = <<p, 1>> /\ Of(<<p, 1>>, p)
    BY <2>3, RouteAssumption DEF containerID, Of, Placements
  <2>8. NetOK(p)'
    BY <1>1, <2>3, <2>6, <2>7, Zenon DEF NetOK, Running
  <2>9. RunnerOK(p)'
    BY <1>1, <1>up, <2>1, <2>3, Zenon DEF RunnerOK
  <2>10. ClaimOK(p)'
    BY <1>3, <2>3, <2>6, Zenon DEF ClaimOK, Claiming
  <2>11. InboxOK(p)'
    BY <2>1, <2>2, <2>3, Zenon DEF InboxOK
  <2>num. NumberOK(p)'
    <3>1. scope.whole => ~Of(current, p)
      BY <1>0, <1>1, <1>3, <1>up, <2>6, Zenon DEF NumberOK
    <3> QED
      BY <1>1, <1>3, <2>3, <2>6, <2>7, <3>1, Zenon DEF NumberOK, Claiming
  <2>12. ServingOK(p)'
    BY <1>1, <1>3, <2>3, <2>6, Zenon DEF ServingOK, Fresh, Claiming
  <2>13. ~Unadopted(r[p])
    BY <2>6, Zenon DEF Unadopted, Hold
  <2> QED
    BY <1>1, <1>3, <2>1, <2>2, <2>3, <2>5, <2>8, <2>9, <2>10, <2>11, <2>num, <2>12, <2>13, LocalStep, Zenon
<1>4. CASE /\ r[p].role = "current" /\ claim[p].pc = "none" /\ r' = [r EXCEPT ![p].serving = TRUE]
           /\ IF Claims(p, TRUE)
                THEN begin(p, "serve") /\ op' = [op EXCEPT ![p] = [pc |-> "claim", seen |-> t]]
                ELSE UNCHANGED claim /\ op' = [op EXCEPT ![p].seen = t]
           /\ UNCHANGED task
  <2>3. /\ r'[p].pc = r[p].pc /\ r'[p].ready = r[p].ready /\ r'[p].n = r[p].n /\ r'[p].net = r[p].net
        /\ r'[p].role = r[p].role /\ r'[p].sweep = r[p].sweep /\ \A q \in Placements \ {p} : r'[q] = r[q]
    BY <1>0, <1>4, Zenon DEF Runner
  <2>4. r' \in [Placements -> Runner]
    BY <1>0, <1>4, Zenon DEF Runner
  <2>6. containerID(p)' = containerID(p)
    BY <2>3, Zenon DEF containerID
  <2>7. NetOK(p)'
    BY <1>0, <1>1, <2>3, <2>6, Zenon DEF NetOK
  <2>8. CASE Claims(p, TRUE)
    <3>0. begin(p, "serve") /\ op' = [op EXCEPT ![p] = [pc |-> "claim", seen |-> t]]
      BY <1>4, <2>8, Zenon
    <3>1. op'[p].seen = t /\ op'[p].pc = "claim" /\ \A q \in Placements \ {p} : op'[q] = op[q]
      BY <1>0, <3>0, Zenon
    <3>2. /\ inbox' \in [Placements -> Seq(Targets)] /\ \A q \in Placements \ {p} : inbox'[q] = inbox[q]
          /\ Latest(p)' = target'[p] /\ t \in Targets
          /\ "TERMINATE" \in Elems(inbox'[p]) => target'[p] = "TERMINATE"
      BY <1>1, <3>1, UpdateSeen, Zenon
    <3>3. /\ claim'[p].pc = "read" /\ claim'[p].by = "serve" /\ claim'[p].net = r[p].net
          /\ \A q \in Placements \ {p} : claim'[q] = claim[q]
      BY <1>0, <3>0, Zenon DEF begin
    <3>4. claim' \in [Placements -> Claim] /\ op' \in [Placements -> OperatorState]
      <4>1. [pc |-> "read", by |-> "serve", net |-> r[p].net, old |-> None] \in Claim
        BY <1>0, Zenon DEF Claim, Runner
      <4>2. claim' \in [Placements -> Claim]
        BY <1>0, <3>0, <4>1, Zenon DEF begin
      <4>3. op' \in [Placements -> OperatorState]
        BY <1>0, <3>0, <3>2, Zenon DEF OperatorState
      <4> QED
        BY <4>2, <4>3, Zenon
    <3>5. TypeOK'
      BY <1>0, <1>1, <1>4, <2>4, <3>2, <3>4, Zenon DEF TypeOK
    <3>6. r[p].net = containerID(p) /\ r[p].pc \in Running \cup Hold /\ target[p] = "SERVING"
      BY <1>0, <2>8, Zenon DEF NetOK, Claims, placementIsServing
    <3>7. r[p].ready /\ r[p].pc \notin {"warm", "claiming", "setup", "adopt", "adoptStopped", "off"}
      BY <1>0, <1>4, <3>6, Zenon DEF RunnerOK, ClaimOK, Claiming, Running, Hold
    <3>8. RunnerOK(p)'
      BY <1>0, <1>1, <1>4, <1>up, <2>3, <3>1, Zenon DEF RunnerOK
    <3>9. ClaimOK(p)'
      BY <1>id, <1>1, <2>3, <3>1, <3>3, <3>6, <3>7, Zenon DEF ClaimOK, Claiming
    <3>10. InboxOK(p)'
      BY <3>1, <3>2, Zenon DEF InboxOK
    <3>n. claim'[p].net[2] <= r'[p].n
      BY <1>id, <2>3, <3>3, <3>6
    <3>num. NumberOK(p)'
      BY <1>0, <1>1, <1>4, <2>3, <2>6, <3>7, <3>n, Zenon DEF NumberOK, Claiming
    <3>11. ServingOK(p)'
      BY <1>0, <1>id, <1>1, <1>4, <2>3, <2>6, <3>3, <3>6, <3>7 DEF ServingOK, Fresh, Claiming
    <3> QED
      BY <1>1, <1>4, <2>3, <2>7, <3>1, <3>2, <3>3, <3>5, <3>8, <3>9, <3>10, <3>num, <3>11, LocalStep,
         Zenon DEF Unadopted
  <2>9. CASE ~Claims(p, TRUE)
    <3>0. claim' = claim /\ op' = [op EXCEPT ![p].seen = t]
      BY <1>4, <2>9, Zenon
    <3>1. op'[p].seen = t /\ op'[p].pc = "idle" /\ \A q \in Placements \ {p} : op'[q] = op[q]
      BY <1>0, <1>1, <3>0, Zenon DEF OperatorState
    <3>2. /\ inbox' \in [Placements -> Seq(Targets)] /\ \A q \in Placements \ {p} : inbox'[q] = inbox[q]
          /\ Latest(p)' = target'[p] /\ t \in Targets
          /\ "TERMINATE" \in Elems(inbox'[p]) => target'[p] = "TERMINATE"
      BY <1>1, <3>1, UpdateSeen, Zenon
    <3>3. claim' = claim /\ op' \in [Placements -> OperatorState]
      BY <1>0, <3>0, <3>2, Zenon DEF OperatorState
    <3>5. TypeOK'
      BY <1>0, <1>1, <1>4, <2>4, <3>2, <3>3, Zenon DEF TypeOK
    <3>6. r[p].pc = "up" => target[p] # "SERVING"
      BY <1>0, <1>id, <2>9, Zenon DEF NetOK, Claims, placementIsServing, Running
    <3>8. RunnerOK(p)'
      BY <1>0, <1>1, <1>up, <2>3, <3>1, Zenon DEF RunnerOK
    <3>9. ClaimOK(p)'
      BY <1>0, <1>1, <1>4, <2>3, <3>3, Zenon DEF ClaimOK, Claiming
    <3>10. InboxOK(p)'
      BY <3>1, <3>2, Zenon DEF InboxOK
    <3>num. NumberOK(p)'
      BY <1>0, <1>1, <1>4, <2>3, <2>6, <3>3, <3>6, Zenon DEF NumberOK, Of, Claiming
    <3>11. ServingOK(p)'
      BY <1>0, <1>1, <1>4, <2>3, <2>6, <3>3, <3>6 DEF ServingOK, Fresh, Claiming
    <3> QED
      BY <1>1, <2>3, <2>7, <3>1, <3>2, <3>3, <3>5, <3>8, <3>9, <3>10, <3>num, <3>11, LocalStep, Zenon DEF Unadopted
  <2> QED
    BY <2>8, <2>9, Zenon
<1>5. CASE /\ r[p].role = "candidate" \/ (r[p].role = "current" /\ t # "SERVING")
           /\ op' = [op EXCEPT ![p].seen = t] /\ UNCHANGED <<r, claim, task>>
  <2>1. op'[p].seen = t /\ op'[p].pc = "idle" /\ \A q \in Placements \ {p} : op'[q] = op[q]
    BY <1>0, <1>1, <1>5, Zenon DEF OperatorState
  <2>2. /\ inbox' \in [Placements -> Seq(Targets)] /\ \A q \in Placements \ {p} : inbox'[q] = inbox[q]
        /\ Latest(p)' = target'[p] /\ t \in Targets
        /\ "TERMINATE" \in Elems(inbox'[p]) => target'[p] = "TERMINATE"
        /\ inbox'[p] = <<>> => t = target[p]
    BY <1>1, <2>1, UpdateSeen, Zenon
  <2>3. op' \in [Placements -> OperatorState]
    BY <1>0, <1>5, <2>2, Zenon DEF OperatorState
  <2>5. TypeOK'
    BY <1>0, <1>1, <1>5, <2>2, <2>3, Zenon DEF TypeOK
  <2>6. containerID(p)' = containerID(p)
    BY <1>5, Zenon DEF containerID
  <2>7. NetOK(p)'
    BY <1>0, <1>1, <1>5, <2>6, Zenon DEF NetOK
  <2>8. RunnerOK(p)'
    BY <1>0, <1>1, <1>5, <1>up, <2>1, Zenon DEF RunnerOK
  <2>9. ClaimOK(p)'
    BY <1>0, <1>1, <1>5, <2>1, Zenon DEF ClaimOK, Claiming, Of
  <2>10. InboxOK(p)'
    BY <2>1, <2>2, Zenon DEF InboxOK
  <2>num. NumberOK(p)'
    BY <1>0, <1>1, <1>5, <2>1, <2>6, Zenon DEF NumberOK, Claiming
  <2>11. ServingOK(p)'
    <3>1. inbox'[p] = <<>> /\ target[p] = "SERVING" => r[p].role # "current"
      BY <1>5, <2>2, Zenon
    <3> QED
      BY <1>0, <1>1, <1>5, <2>6, <3>1, Zenon DEF ServingOK, Fresh, Claiming
  <2> QED
    BY <1>1, <1>5, <2>1, <2>2, <2>5, <2>7, <2>8, <2>9, <2>10, <2>num, <2>11, LocalStep, Zenon
<1> QED
  BY <1>2, <1>3, <1>4, <1>5, Zenon DEF reconcile

\* A ready candidate is promoted, with a claim under a serving target (Promote).
LEMMA PromoteStep ==
  ASSUME IInv, NEW p \in Placements, Promote(p), UNCHANGED scope
  PROVE  IInv'
<1>0. /\ r[p] \in Runner /\ NetOK(p) /\ RunnerOK(p) /\ ClaimOK(p) /\ InboxOK(p) /\ NumberOK(p)
      /\ ServingOK(p) /\ TypeOK
      /\ r \in [Placements -> Runner] /\ op \in [Placements -> OperatorState] /\ op[p] \in OperatorState
      /\ claim \in [Placements -> Claim]
  BY Parts, Zenon DEF TypeOK
<1>id. /\ containerID(p) \in Net /\ containerID(p) # None /\ Of(containerID(p), p)
       /\ containerID(p)[2] = r[p].n /\ r[p].n \in Nat
  BY <1>0, IdNet, Zenon
<1>1. /\ op[p].pc = "idle" /\ r[p].role = "candidate" /\ r[p].ready
      /\ UNCHANGED <<target, announced, inbox, task, veth, stuck, earlier, route, tracked, current, ports,
                     up, exits, faults, boots>>
  BY Zenon DEF Promote, store, links, kernel, manager, budgets
<1>up. up
  BY <1>0, <1>1, Zenon DEF RunnerOK
<1>2. CASE /\ Claims(p, TRUE) /\ claim[p].pc = "none" /\ begin(p, "promote")
           /\ op' = [op EXCEPT ![p].pc = "claim"] /\ r' = [r EXCEPT ![p].serving = TRUE]
  <2>1. /\ r'[p].pc = r[p].pc /\ r'[p].ready = r[p].ready /\ r'[p].n = r[p].n /\ r'[p].net = r[p].net
        /\ r'[p].role = r[p].role /\ r'[p].sweep = r[p].sweep /\ \A q \in Placements \ {p} : r'[q] = r[q]
    BY <1>0, <1>2, Zenon DEF Runner
  <2>2. op'[p].seen = op[p].seen /\ op'[p].pc = "claim" /\ \A q \in Placements \ {p} : op'[q] = op[q]
    BY <1>0, <1>2, Zenon DEF OperatorState
  <2>3. /\ claim'[p].pc = "read" /\ claim'[p].by = "promote" /\ claim'[p].net = r[p].net
        /\ \A q \in Placements \ {p} : claim'[q] = claim[q]
    BY <1>0, <1>2, Zenon DEF begin
  <2>4. r' \in [Placements -> Runner] /\ claim' \in [Placements -> Claim] /\ op' \in [Placements -> OperatorState]
    <3>1. [pc |-> "read", by |-> "promote", net |-> r[p].net, old |-> None] \in Claim
      BY <1>0, Zenon DEF Claim, Runner
    <3>2. claim' \in [Placements -> Claim]
      BY <1>0, <1>2, <3>1, Zenon DEF begin
    <3>3. op' \in [Placements -> OperatorState]
      BY <1>0, <1>2, Zenon DEF OperatorState
    <3>4. r' \in [Placements -> Runner]
      BY <1>0, <1>2, Zenon DEF Runner
    <3> QED
      BY <3>2, <3>3, <3>4, Zenon
  <2>5. TypeOK'
    BY <1>0, <1>1, <2>4, Zenon DEF TypeOK
  <2>6. r[p].net = containerID(p) /\ r[p].pc \in Running \cup Hold /\ target[p] = "SERVING"
    BY <1>0, <1>2, Zenon DEF NetOK, Claims, placementIsServing
  <2>7. /\ r[p].pc \notin {"warm", "claiming", "setup", "adopt", "adoptStopped", "off"}
        /\ containerID(p)' = containerID(p)
    BY <1>0, <1>1, <1>2, <2>1, <2>6, Zenon DEF RunnerOK, ClaimOK, Claiming, Running, Hold, containerID
  <2>8. NetOK(p)'
    BY <1>0, <1>1, <2>1, <2>7, Zenon DEF NetOK
  <2>9. RunnerOK(p)'
    BY <1>0, <1>1, <1>up, <2>1, <2>2, Zenon DEF RunnerOK
  <2>10. ClaimOK(p)'
    BY <1>id, <1>1, <2>1, <2>2, <2>3, <2>6, <2>7, Zenon DEF ClaimOK, Claiming
  <2>11. InboxOK(p)'
    BY <1>0, <1>1, <2>1, <2>2, Zenon DEF InboxOK, Latest
  <2>n. claim'[p].net[2] <= r'[p].n
    BY <1>id, <2>1, <2>3, <2>6
  <2>num. NumberOK(p)'
    BY <1>0, <1>1, <2>1, <2>7, <2>n, Zenon DEF NumberOK, Claiming
  <2>12. ServingOK(p)'
    BY <1>0, <1>id, <1>1, <1>2, <2>1, <2>3, <2>6, <2>7 DEF ServingOK, Fresh, Claiming
  <2> QED
    BY <1>1, <1>2, <2>1, <2>2, <2>3, <2>5, <2>8, <2>9, <2>10, <2>11, <2>num, <2>12, LocalStep, Zenon DEF Unadopted
<1>3. CASE /\ ~(op[p].seen = "SERVING" /\ Claims(p, TRUE))
           /\ r' = [r EXCEPT ![p].role = "current", ![p].serving = @ \/ op[p].seen = "SERVING"]
           /\ UNCHANGED <<op, claim>>
  <2>1. /\ r'[p].pc = r[p].pc /\ r'[p].ready = r[p].ready /\ r'[p].n = r[p].n /\ r'[p].net = r[p].net
        /\ r'[p].role = "current" /\ r'[p].sweep = r[p].sweep /\ \A q \in Placements \ {p} : r'[q] = r[q]
    BY <1>0, <1>3, Zenon DEF Runner
  <2>2. r' \in [Placements -> Runner]
    BY <1>0, <1>3, Zenon DEF Runner
  <2>3. TypeOK'
    BY <1>0, <1>1, <1>3, <2>2, Zenon DEF TypeOK
  <2>4. containerID(p)' = containerID(p)
    BY <2>1, Zenon DEF containerID
  <2>5. NetOK(p)'
    BY <1>0, <1>1, <2>1, <2>4, Zenon DEF NetOK
  <2>6. RunnerOK(p)'
    BY <1>0, <1>1, <1>3, <1>up, <2>1, Zenon DEF RunnerOK
  <2>7. ClaimOK(p)'
    BY <1>0, <1>1, <1>3, <2>1 DEF ClaimOK, Claiming, Of
  <2>8. InboxOK(p)'
    BY <1>0, <1>1, <1>3, <2>1, Zenon DEF InboxOK, Latest
  <2>9. r[p].pc = "up" /\ inbox[p] = <<>> => target[p] # "SERVING"
    BY <1>0, <1>3, <1>id, Zenon DEF InboxOK, Latest, NetOK, Running, Claims, placementIsServing
  <2>num. NumberOK(p)'
    BY <1>0, <1>1, <1>3, <2>1, <2>4, Zenon DEF NumberOK, Claiming
  <2>10. ServingOK(p)'
    BY <1>0, <1>1, <1>3, <2>1, <2>4, <2>9 DEF ServingOK, Fresh, Claiming
  <2> QED
    BY <1>1, <1>3, <2>1, <2>3, <2>5, <2>6, <2>7, <2>8, <2>num, <2>10, LocalStep, Zenon DEF Unadopted
<1> QED
  BY <1>2, <1>3, Zenon DEF Promote

-----------------------------------------------------------------------------
(* The environment. *)

\* A container exits by itself.
LEMMA ExitStep ==
  ASSUME IInv, NEW p \in Placements, ContainerExit(p), UNCHANGED scope
  PROVE  IInv'
<1>1. UNCHANGED <<target, announced, inbox, op, r, claim, veth, stuck, earlier, route, tracked, current,
                  ports, up, faults, boots, scope>>
  BY Zenon DEF ContainerExit, store, links, kernel, manager
<1>2. TypeOK'
  <2>1. TypeOK /\ task \in [Placements -> Nat] /\ exits \in Nat
    BY Zenon DEF IInv, TypeOK
  <2>2. task' \in [Placements -> Nat] /\ exits' \in Nat
    BY <2>1 DEF ContainerExit
  <2> QED
    BY <1>1, <2>1, <2>2, Zenon DEF TypeOK
<1>3. TargetOK' /\ KernelOK' /\ AdoptOK' /\ CurrentOK' /\ RestoredOK'
  BY <1>1, Zenon DEF IInv, TargetOK, KernelOK, AdoptOK, CurrentOK, RestoredOK, Few, containerID
<1>4. ASSUME NEW q \in Placements
      PROVE  NetOK(q)' /\ RunnerOK(q)' /\ ClaimOK(q)' /\ InboxOK(q)' /\ NumberOK(q)' /\ ServingOK(q)'
  <2>1. NetOK(q)' /\ RunnerOK(q)' /\ ClaimOK(q)' /\ InboxOK(q)'
    BY <1>1, <1>4, ZenonT(40) DEF IInv, NetOK, RunnerOK, ClaimOK, InboxOK, Claiming, Latest, containerID, Of
  <2>2. NumberOK(q)'
    BY <1>1, <1>4, Zenon DEF IInv, NumberOK, Claiming, containerID, Of
  <2>3. ServingOK(q)'
    BY <1>1, <1>4, Zenon DEF IInv, ServingOK, Fresh, Claiming
  <2> QED
    BY <2>1, <2>2, <2>3, Zenon
<1> QED
  BY <1>2, <1>3, <1>4, Zenon DEF IInv

\* A placement before Old is over.
LEMMA EarlierStep ==
  ASSUME IInv, EarlierEnds, UNCHANGED scope
  PROVE  IInv'
<1>1. UNCHANGED <<target, announced, inbox, op, r, claim, task, veth, stuck, route, tracked, current, ports, up, exits,
                  faults, boots, scope>>
  BY Zenon DEF EarlierEnds, store, manager, budgets
<1>2. TypeOK'
  <2>1. TypeOK /\ earlier \in Nat
    BY Zenon DEF IInv, TypeOK
  <2>2. earlier' \in Nat
    BY <2>1 DEF EarlierEnds
  <2> QED
    BY <1>1, <2>1, <2>2, Zenon DEF TypeOK
<1>3. TargetOK' /\ KernelOK' /\ AdoptOK' /\ CurrentOK' /\ RestoredOK'
  BY <1>1, Zenon DEF IInv, TargetOK, KernelOK, AdoptOK, CurrentOK, RestoredOK, Few, containerID
<1>4. ASSUME NEW q \in Placements
      PROVE  NetOK(q)' /\ RunnerOK(q)' /\ ClaimOK(q)' /\ InboxOK(q)' /\ NumberOK(q)' /\ ServingOK(q)'
  <2>1. NetOK(q)' /\ RunnerOK(q)' /\ ClaimOK(q)' /\ InboxOK(q)'
    BY <1>1, <1>4, Zenon DEF IInv, NetOK, RunnerOK, ClaimOK, InboxOK, Claiming, Latest, containerID, Of
  <2>2. NumberOK(q)'
    BY <1>1, <1>4, Zenon DEF IInv, NumberOK, Claiming, containerID, Of
  <2>3. ServingOK(q)'
    BY <1>1, <1>4, Zenon DEF IInv, ServingOK, Fresh, Claiming
  <2> QED
    BY <2>1, <2>2, <2>3, Zenon
<1> QED
  BY <1>2, <1>3, <1>4, Zenon DEF IInv

\* The agent dies: the runners, their claims and what the manager held are gone.
LEMMA CrashStep ==
  ASSUME IInv, Crash, UNCHANGED scope
  PROVE  IInv'
<1>0. TypeOK /\ boots \in Nat /\ \A p \in Placements : r[p].n \in Nat /\ target[p] \in Targets
  BY Fields, Zenon DEF IInv, TypeOK
<1>1. /\ boots' = boots + 1 /\ up' = FALSE /\ tracked' = {} /\ current' = None /\ ports' = None
      /\ UNCHANGED <<target, announced, task, veth, stuck, earlier, route, exits, faults>>
  BY Zenon DEF Crash, links, kernel
<1>2. ASSUME NEW p \in Placements
      PROVE  /\ claim'[p] = NoClaim /\ op'[p] = [pc |-> "off", seen |-> target[p]] /\ inbox'[p] = <<>>
             /\ r'[p] = [FreshRunner("none") EXCEPT !.pc = "off", !.n = r[p].n]
  BY <1>2, Zenon DEF Crash
<1>3. ASSUME NEW p \in Placements
      PROVE  /\ claim'[p].pc = "none" /\ op'[p].pc = "off" /\ op'[p].seen = target[p]
             /\ r'[p].pc = "off" /\ r'[p].n = r[p].n /\ r'[p].net = None /\ r'[p].role = "none"
  <2>0. NoClaim.pc = "none" /\ [pc |-> "off", seen |-> target[p]].pc = "off"
        /\ [pc |-> "off", seen |-> target[p]].seen = target[p]
    BY Zenon DEF NoClaim
  <2>1. claim'[p].pc = "none" /\ op'[p].pc = "off" /\ op'[p].seen = target[p]
    BY <1>2, <1>3, <2>0, Zenon
  <2>2. PICK x : x = [FreshRunner("none") EXCEPT !.pc = "off", !.n = r[p].n]
    BY Zenon
  <2>3. x.pc = "off" /\ x.n = r[p].n /\ x.net = None /\ x.role = "none"
    BY <2>2, Zenon DEF FreshRunner
  <2> QED
    BY <1>2, <1>3, <2>1, <2>2, <2>3, Zenon
<1>4. TypeOK'
  <2>1. NoClaim \in Claim
    BY Zenon DEF NoClaim, Claim
  <2>2. ASSUME NEW p \in Placements
        PROVE  /\ [FreshRunner("none") EXCEPT !.pc = "off", !.n = r[p].n] \in Runner
               /\ [pc |-> "off", seen |-> target[p]] \in OperatorState /\ <<>> \in Seq(Targets)
    <3>1. FreshRunner("none") \in Runner /\ r[p].n \in Nat /\ target[p] \in Targets
      BY <1>0, <2>2, Zenon DEF FreshRunner, Runner
    <3>2. [FreshRunner("none") EXCEPT !.pc = "off", !.n = r[p].n] \in Runner
      BY <3>1, Zenon DEF Runner
    <3> QED
      BY <3>1, <3>2 DEF OperatorState
  <2>3. /\ claim' \in [Placements -> Claim] /\ op' \in [Placements -> OperatorState]
        /\ r' \in [Placements -> Runner] /\ inbox' \in [Placements -> Seq(Targets)]
    BY <2>1, <2>2, Zenon DEF Crash
  <2>4. boots' \in Nat
    BY <1>0, <1>1
  <2> QED
    BY <1>0, <1>1, <2>3, <2>4, Zenon DEF TypeOK
<1>5. TargetOK' /\ KernelOK' /\ AdoptOK' /\ CurrentOK' /\ RestoredOK'
  <2>1. boots' # 0
    BY <1>0, <1>1
  <2> QED
    BY <1>1, <1>3, <2>1, Zenon DEF IInv, TargetOK, KernelOK, AdoptOK, CurrentOK, RestoredOK, Few, Of
<1>6. ASSUME NEW p \in Placements
      PROVE  NetOK(p)' /\ RunnerOK(p)' /\ ClaimOK(p)' /\ InboxOK(p)' /\ NumberOK(p)' /\ ServingOK(p)'
  <2>1. NetOK(p)'
    BY <1>1, <1>3, <1>6, Zenon DEF IInv, NetOK, Running, containerID
  <2>2. RunnerOK(p)' /\ ClaimOK(p)'
    BY <1>1, <1>3, <1>6, Zenon DEF RunnerOK, ClaimOK, Claiming
  <2>3. InboxOK(p)'
    <3>1. Elems(<<>>) = {}
      BY DEF Elems
    <3> QED
      BY <1>1, <1>2, <1>3, <1>6, <3>1, Zenon DEF InboxOK, Latest
  <2>4. NumberOK(p)' /\ ServingOK(p)'
    BY <1>1, <1>3, <1>6, Zenon DEF NumberOK, ServingOK, Fresh, Claiming, Of
  <2> QED
    BY <2>1, <2>2, <2>3, <2>4, Zenon
<1> QED
  BY <1>4, <1>5, <1>6, Zenon DEF IInv

\* The agent starts again: every runner looks for its container.
LEMMA BootStep ==
  ASSUME IInv, Boot, UNCHANGED scope
  PROVE  IInv'
<1>0. TypeOK /\ boots # 0 /\ r \in [Placements -> Runner] /\ \A p \in Placements : target[p] \in Targets
  BY Fields, Zenon DEF IInv, TypeOK, KernelOK, Boot
<1>1. /\ ~up /\ up' = TRUE
      /\ UNCHANGED <<target, announced, claim, task, veth, stuck, earlier, route, tracked, current, ports,
                     exits, faults, boots>>
  BY Zenon DEF Boot, links, kernel, manager, budgets
<1>2. ASSUME NEW p \in Placements
      PROVE  /\ NetOK(p) /\ RunnerOK(p) /\ ClaimOK(p) /\ NumberOK(p) /\ ServingOK(p) /\ r[p].pc = "off"
             /\ r[p].net = None /\ ~Claiming(p)
             /\ containerID(p) \notin tracked
  BY <1>1, <1>2, Zenon DEF IInv, NetOK, RunnerOK, ClaimOK, AdoptOK, Running, Hold
<1>3. ASSUME NEW p \in Placements
      PROVE  /\ op'[p].pc = "idle" /\ op'[p].seen = target[p] /\ inbox'[p] = <<target[p]>>
             /\ r'[p].pc \in {"adopt", "adoptStopped"} /\ r'[p].n = r[p].n /\ r'[p].net = None
             /\ r'[p].role = "current" /\ r'[p].ready /\ containerID(p)' = containerID(p)
  <2>1. PICK pc \in {"adopt", "adoptStopped"} :
          r'[p] = [r[p] EXCEPT !.pc = pc, !.role = "current", !.ready = TRUE]
    BY <1>3, Zenon DEF Boot
  <2>2. /\ r'[p].pc \in {"adopt", "adoptStopped"} /\ r'[p].n = r[p].n /\ r'[p].net = r[p].net
        /\ r'[p].role = "current" /\ r'[p].ready
    BY <1>0, <1>3, <2>1 DEF Runner
  <2> QED
    BY <1>2, <1>3, <2>2, Zenon DEF Boot, containerID
<1>4. TypeOK'
  <2>1. ASSUME NEW p \in Placements, NEW pc \in {"adopt", "adoptStopped"}
        PROVE  [r[p] EXCEPT !.pc = pc, !.role = "current", !.ready = TRUE] \in Runner
    BY <1>0, <2>1, ZenonT(40) DEF Runner
  <2>2. ASSUME NEW p \in Placements
        PROVE  [pc |-> "idle", seen |-> target[p]] \in OperatorState /\ <<target[p]>> \in Seq(Targets)
    BY <1>0, <2>2 DEF OperatorState
  <2>3. r' \in [Placements -> Runner]
    BY <2>1, Zenon DEF Boot
  <2>4. op' \in [Placements -> OperatorState] /\ inbox' \in [Placements -> Seq(Targets)]
    BY <2>2, Zenon DEF Boot
  <2> QED
    BY <1>0, <1>1, <2>3, <2>4, Zenon DEF TypeOK
<1>5. TargetOK' /\ KernelOK' /\ CurrentOK' /\ RestoredOK'
  BY <1>0, <1>1, Zenon DEF IInv, TargetOK, KernelOK, CurrentOK, RestoredOK, Few
<1>6. AdoptOK'
  BY <1>1, <1>2, <1>3, Zenon DEF AdoptOK, Unadopted
<1>7. ASSUME NEW p \in Placements
      PROVE  NetOK(p)' /\ RunnerOK(p)' /\ ClaimOK(p)' /\ InboxOK(p)' /\ NumberOK(p)' /\ ServingOK(p)'
  <2>1. NetOK(p)'
    BY <1>1, <1>2, <1>3, <1>7, ZenonT(40) DEF NetOK, Running
  <2>2. RunnerOK(p)' /\ ClaimOK(p)'
    BY <1>1, <1>2, <1>3, <1>7, Zenon DEF RunnerOK, ClaimOK, Claiming
  <2>3. InboxOK(p)'
    <3>1. PICK t \in Targets : t = target[p]
      BY <1>0, <1>7, Zenon
    <3>2. <<t>> # <<>> /\ <<t>>[Len(<<t>>)] = t
      BY Zenon
    <3>3. Elems(<<t>>) = {t}
      BY DEF Elems
    <3> QED
      BY <1>1, <1>3, <1>7, <3>1, <3>2, <3>3, Zenon DEF InboxOK, Latest
  <2>4. NumberOK(p)' /\ ServingOK(p)'
    BY <1>1, <1>2, <1>3, <1>7, Zenon DEF NumberOK, ServingOK, Fresh, Claiming
  <2> QED
    BY <2>1, <2>2, <2>3, <2>4, Zenon
<1> QED
  BY <1>4, <1>5, <1>6, <1>7, Zenon DEF IInv

\* The scheduler's decision reaches the node's store (MustApplyAssignments): the operators
\* are told, and at a handover no claim is in progress and New holds nothing yet.
LEMMA AssignStep ==
  ASSUME IInv, MustApplyAssignments, UNCHANGED scope
  PROVE  IInv'
<1>0. /\ TypeOK /\ target \in [Placements -> Targets] /\ inbox \in [Placements -> Seq(Targets)] /\ TargetOK
      /\ Old \in Placements /\ New \in Placements /\ Old # New /\ \A p \in Placements : p = Old \/ p = New
  BY RouteAssumption, Zenon DEF IInv, TypeOK, Placements
<1>1. /\ inbox' = [p \in Placements |-> IF target'[p] = target[p] THEN inbox[p] ELSE notify(inbox[p], target'[p])]
      /\ UNCHANGED <<announced, op, r, claim, task, veth, stuck, earlier, route, tracked, current, ports, up,
                     exits, faults, boots, scope>>
  BY Zenon DEF MustApplyAssignments, links, kernel, manager, budgets
<1>2. /\ target' \in [Placements -> Targets] /\ TargetOK'
      /\ \A p \in Placements : target'[p] # target[p] =>
           /\ target[p] # "TERMINATE"
           /\ target'[p] = "SERVING" => p = New /\ target[Old] = "SERVING"
           /\ scope.whole => ~Claiming(p)
      /\ target'[Old] = "SERVING" => target[Old] = "SERVING"
  <2>1. CASE /\ target[Old] = "SERVING" /\ target[New] = "STANDBY"
             /\ scope.whole => \A p \in Placements : claim[p].pc = "none"
             /\ target' = [target EXCEPT ![Old] = "DRAINING", ![New] = "SERVING"]
    <3>1. target' \in [Placements -> Targets] /\ target'[Old] = "DRAINING" /\ target'[New] = "SERVING"
      BY <1>0, <2>1, Zenon DEF Targets
    <3> QED
      BY <1>0, <2>1, <3>1, Zenon DEF TargetOK, Claiming
  <2>2. CASE target[Old] = "DRAINING" /\ target' = [target EXCEPT ![Old] = "TERMINATE"]
    <3>1. target' \in [Placements -> Targets] /\ target'[Old] = "TERMINATE" /\ target'[New] = target[New]
      BY <1>0, <2>2, Zenon DEF Targets
    <3>2. scope.whole => ~Claiming(Old)
      BY <1>0, <2>2, Zenon DEF IInv, ClaimOK
    <3> QED
      BY <1>0, <2>2, <3>1, <3>2, Zenon DEF TargetOK
  <2>3. CASE target[New] = "STANDBY" /\ target' = [target EXCEPT ![New] = "TERMINATE"]
    <3>1. target' \in [Placements -> Targets] /\ target'[New] = "TERMINATE" /\ target'[Old] = target[Old]
      BY <1>0, <2>3, Zenon DEF Targets
    <3>2. scope.whole => ~Claiming(New)
      BY <1>0, <2>3, Zenon DEF IInv, ClaimOK
    <3> QED
      BY <1>0, <2>3, <3>1, <3>2, Zenon DEF TargetOK
  <2> QED
    BY <2>1, <2>2, <2>3, Zenon DEF MustApplyAssignments
<1>3. ASSUME NEW p \in Placements
      PROVE  /\ inbox'[p] \in Seq(Targets)
             /\ target'[p] = target[p] => inbox'[p] = inbox[p]
             /\ target'[p] # target[p] =>
                  /\ inbox'[p] # <<>> /\ inbox'[p][Len(inbox'[p])] = target'[p]
                  /\ Elems(inbox'[p]) \subseteq Elems(inbox[p]) \cup {target'[p]}
  <2>1. CASE target'[p] = target[p]
    <3>1. inbox'[p] = inbox[p]
      BY <1>1, <1>3, <2>1, Zenon
    <3> QED
      BY <1>0, <1>3, <2>1, <3>1, Zenon
  <2>2. CASE target'[p] # target[p]
    <3>1. inbox'[p] = notify(inbox[p], target'[p])
      BY <1>1, <1>3, <2>2, Zenon
    <3>2. PICK box \in Seq(Targets), t \in Targets : box = inbox[p] /\ t = target'[p]
      BY <1>0, <1>2, <1>3, Zenon
    <3>3. PICK new : new = notify(box, t)
      BY Zenon
    <3>4. new \in Seq(Targets) /\ new # <<>> /\ new[Len(new)] = t
      BY <3>3, Updated, Zenon
    <3>5. Elems(new) \subseteq Elems(box) \cup {t}
      BY <3>3, Updated, Zenon
    <3> QED
      BY <2>2, <3>1, <3>2, <3>3, <3>4, <3>5, Zenon
  <2> QED
    BY <2>1, <2>2, Zenon
<1>4. TypeOK'
  <2>1. inbox' \in [Placements -> Seq(Targets)]
    BY <1>1, <1>3, Zenon
  <2> QED
    BY <1>0, <1>1, <1>2, <2>1, Zenon DEF TypeOK
<1>5. KernelOK' /\ AdoptOK' /\ RestoredOK'
  BY <1>1, Zenon DEF IInv, KernelOK, AdoptOK, RestoredOK, Few, containerID
<1>6. CurrentOK'
  BY <1>1, <1>2, Zenon DEF IInv, CurrentOK
<1>7. ASSUME NEW p \in Placements
      PROVE  NetOK(p)' /\ RunnerOK(p)' /\ ClaimOK(p)' /\ InboxOK(p)' /\ NumberOK(p)' /\ ServingOK(p)'
  <2>0. /\ NetOK(p) /\ RunnerOK(p) /\ ClaimOK(p) /\ InboxOK(p) /\ NumberOK(p) /\ ServingOK(p)
        /\ containerID(p)' = containerID(p)
    BY <1>1, <1>7, Zenon DEF IInv, containerID
  <2>1. NetOK(p)' /\ RunnerOK(p)'
    BY <1>1, <2>0, Zenon DEF NetOK, RunnerOK
  <2>2. ClaimOK(p)'
    BY <1>1, <1>2, <1>7, <2>0, Zenon DEF ClaimOK, Claiming
  <2>num. NumberOK(p)'
    <3>1. scope.whole /\ target'[p] # target[p] /\ target'[p] = "SERVING" => ~Of(current, p)
      BY <1>2, <1>7, Zenon DEF IInv, CurrentOK
    <3> QED
      BY <1>1, <2>0, <3>1, Zenon DEF NumberOK, Claiming
  <2>3. CASE target'[p] = target[p]
    <3>1. inbox'[p] = inbox[p]
      BY <1>3, <1>7, <2>3, Zenon
    <3>2. InboxOK(p)'
      BY <1>1, <2>0, <2>3, <3>1, Zenon DEF InboxOK, Latest
    <3>3. ServingOK(p)'
      BY <1>1, <2>0, <2>3, <3>1, Zenon DEF ServingOK, Fresh, Claiming
    <3> QED
      BY <2>1, <2>2, <2>num, <3>2, <3>3, Zenon
  <2>4. CASE target'[p] # target[p]
    <3>1. /\ inbox'[p] # <<>> /\ inbox'[p][Len(inbox'[p])] = target'[p] /\ target[p] # "TERMINATE"
          /\ Elems(inbox'[p]) \subseteq Elems(inbox[p]) \cup {target'[p]}
      BY <1>2, <1>3, <1>7, <2>4, Zenon
    <3>2. InboxOK(p)'
      BY <1>1, <2>0, <3>1, Zenon DEF InboxOK, Latest
    <3>3. ServingOK(p)'
      <4> SUFFICES ASSUME scope.whole, target'[p] = "SERVING" PROVE ServingOK(p)'
        BY <1>1, Zenon DEF ServingOK
      <4>1. ~Claiming(p) /\ ~Of(current, p)
        BY <1>2, <1>7, <2>4, Zenon DEF IInv, CurrentOK
      <4>2. r[p].net # None => Of(r[p].net, p)
        BY <1>4, <1>7, <2>0, IdNet, Zenon DEF NetOK, IInv
      <4>3. Of(containerID(p), p)
        BY <1>7, IdNet, Zenon DEF IInv
      <4> QED
        BY <1>1, <2>0, <3>1, <4>1, <4>2, <4>3, Zenon DEF ServingOK, Fresh, Claiming
    <3> QED
      BY <2>1, <2>2, <2>num, <3>2, <3>3, Zenon
  <2> QED
    BY <2>3, <2>4, Zenon
<1> QED
  BY <1>2, <1>4, <1>5, <1>6, <1>7, Zenon DEF IInv

-----------------------------------------------------------------------------
(* The invariant holds. *)

\* It holds when the model starts: Old serves and New warms up behind it.
LEMMA InitOK ==
  ASSUME Init
  PROVE  IInv
<1>0. /\ Old \in Placements /\ New \in Placements /\ Old # New /\ \A p \in Placements : p = Old \/ p = New
      /\ <<Old, 1>> \in Net /\ <<Old, 1>> # None /\ <<New, 1>> # None /\ <<Old, 1>> # <<New, 1>>
  BY RouteAssumption DEF Placements, Net
<1>1. /\ target[Old] = "SERVING" /\ target[New] = "STANDBY" /\ target \in [Placements -> Targets]
  BY <1>0, Zenon DEF Init, Targets
<1>2. /\ veth = {<<Old, 1>>} /\ stuck = {} /\ earlier \in Nat /\ route = <<Old, 1>> /\ tracked = {<<Old, 1>>}
      /\ current = <<Old, 1>>
      /\ ports = <<Old, 1>> /\ up = TRUE /\ exits = 0 /\ faults = 0 /\ boots = 0 /\ scope \in Scope
  <2>1. scope \in Scope /\ earlier = scope.earlier
    BY RouteAssumption, Zenon DEF Init
  <2>2. earlier \in Nat
    BY <2>1, Zenon DEF Scope
  <2> QED
    BY <2>1, <2>2, Zenon DEF Init
<1>3. ASSUME NEW p \in Placements
      PROVE  /\ inbox[p] = <<>> /\ claim[p] = NoClaim /\ op[p] = [pc |-> "idle", seen |-> target[p]]
             /\ claim[p].pc = "none" /\ op[p].pc = "idle" /\ op[p].seen = target[p]
  <2>1. inbox[p] = <<>> /\ claim[p] = NoClaim /\ op[p] = [pc |-> "idle", seen |-> target[p]]
    BY <1>3, Zenon DEF Init
  <2>2. NoClaim.pc = "none"
    BY Zenon DEF NoClaim
  <2> QED
    BY <2>1, <2>2
<1>4. /\ r[Old] = [FreshRunner("current") EXCEPT !.pc = "up", !.net = <<Old, 1>>, !.ready = TRUE, !.serving = TRUE]
      /\ r[New] = FreshRunner("candidate")
  BY <1>0, Zenon DEF Init
<1>5. /\ r[Old].pc = "up" /\ r[Old].net = <<Old, 1>> /\ r[Old].ready /\ r[Old].n = 1 /\ r[Old].role = "current"
      /\ r[New].pc = "setup" /\ r[New].net = None /\ ~r[New].ready /\ r[New].n = 1 /\ r[New].role = "candidate"
  <2>1. PICK x : x = FreshRunner("current")
    BY Zenon
  <2>2. /\ r[Old].pc = "up" /\ r[Old].net = <<Old, 1>> /\ r[Old].ready /\ r[Old].n = 1 /\ r[Old].role = "current"
    BY <1>4, Zenon DEF FreshRunner
  <2> QED
    BY <1>4, <2>2 DEF FreshRunner
<1>6. containerID(Old) = <<Old, 1>> /\ containerID(New) = <<New, 1>>
  BY <1>5, Zenon DEF containerID
<1>7. TypeOK
  <2>1. FreshRunner("candidate") \in Runner /\ FreshRunner("current") \in Runner
    BY Zenon DEF Runner, FreshRunner
  <2>2. [FreshRunner("current") EXCEPT !.pc = "up", !.net = <<Old, 1>>, !.ready = TRUE, !.serving = TRUE] \in Runner
    BY <1>0, <2>1, Zenon DEF Runner, Running
  <2>3. r \in [Placements -> Runner]
    BY <2>1, <2>2, Zenon DEF Init
  <2>4. NoClaim \in Claim
    BY Zenon DEF NoClaim, Claim
  <2>5. claim \in [Placements -> Claim]
    BY <2>4, Zenon DEF Init
  <2>6. op \in [Placements -> OperatorState]
    <3>1. \A p \in Placements : [pc |-> "idle", seen |-> target[p]] \in OperatorState
      BY <1>1, Zenon DEF OperatorState
    <3> QED
      BY <3>1, Zenon DEF Init
  <2>7. /\ inbox \in [Placements -> Seq(Targets)] /\ announced \in [Placements -> BOOLEAN]
        /\ task \in [Placements -> Nat]
    BY DEF Init
  <2> QED
    BY <1>0, <1>1, <1>2, <2>3, <2>5, <2>6, <2>7, Zenon DEF TypeOK
<1>8. TargetOK /\ KernelOK /\ AdoptOK /\ CurrentOK /\ RestoredOK
  <2>1. KernelOK
    BY <1>0, <1>2, <1>5, Zenon DEF KernelOK
  <2>2. AdoptOK
    BY <1>0, <1>5, Zenon DEF AdoptOK
  <2>3. RestoredOK
    BY <1>2, <1>3, Zenon DEF RestoredOK, Moving
  <2> QED
    BY <1>0, <1>1, <1>2, <2>1, <2>2, <2>3, Zenon DEF TargetOK, CurrentOK, Of
<1>9. NetOK(Old) /\ RunnerOK(Old) /\ ClaimOK(Old) /\ NumberOK(Old) /\ ServingOK(Old)
  <2>1. NetOK(Old)
    BY <1>0, <1>2, <1>5, <1>6, Zenon DEF NetOK, Of, Running
  <2>2. RunnerOK(Old) /\ ClaimOK(Old)
    BY <1>0, <1>2, <1>3, <1>5, Zenon DEF RunnerOK, ClaimOK, Claiming
  <2>3. NumberOK(Old) /\ ServingOK(Old)
    <3>1. current[2] <= r[Old].n /\ route = current /\ ports = current /\ current = r[Old].net
      BY <1>2, <1>5
    <3>2. ~Claiming(Old) /\ claim[Old].pc \notin {"activate", "ports", "current"}
      BY <1>0, <1>3, Zenon DEF Claiming
    <3> QED
      BY <1>5, <3>1, <3>2, Zenon DEF NumberOK, ServingOK, Fresh
  <2> QED
    BY <2>1, <2>2, <2>3, Zenon
<1>10. NetOK(New) /\ RunnerOK(New) /\ ClaimOK(New) /\ NumberOK(New) /\ ServingOK(New)
  <2>1. NetOK(New)
    BY <1>0, <1>2, <1>5, <1>6 DEF NetOK, Of, Running
  <2>2. RunnerOK(New) /\ ClaimOK(New)
    BY <1>0, <1>2, <1>3, <1>5, Zenon DEF RunnerOK, ClaimOK, Claiming
  <2>3. NumberOK(New) /\ ServingOK(New)
    <3>1. ~Of(current, New) /\ ~Claiming(New) /\ current # containerID(New)
      BY <1>0, <1>2, <1>3, <1>6, Zenon DEF Of, Claiming
    <3> QED
      BY <1>1, <1>5, <3>1, Zenon DEF NumberOK, ServingOK
  <2> QED
    BY <2>1, <2>2, <2>3, Zenon
<1>11. ASSUME NEW p \in Placements PROVE InboxOK(p)
  <2>1. Elems(<<>>) = {}
    BY DEF Elems
  <2> QED
    BY <1>3, <1>11, <2>1, Zenon DEF InboxOK, Latest
<1> QED
  BY <1>0, <1>7, <1>8, <1>9, <1>10, <1>11, Zenon DEF IInv

\* Every step keeps it.
LEMMA StepOK ==
  ASSUME IInv, Next
  PROVE  IInv'
<1>1. ASSUME NEW p \in Placements, Loop(p) \/ claimInboundAddressLocked(p) \/ Operator(p) \/ ContainerExit(p)
      PROVE  IInv'
  BY <1>1, SetupStep, RunTaskStep, ReadinessStep, TaskExitedStep, CleanupStep, LoopClaimStep, RecoverStep, ClaimStep,
     ReconcileStep, PromoteStep, StopStep, ExitStep, Zenon DEF Loop, Operator, Next
<1> QED
  BY <1>1, AssignStep, EarlierStep, CrashStep, BootStep, Zenon DEF Next

\* The inductive invariant.
LEMMA Invariant == Spec => []IInv
<1>1. IInv /\ UNCHANGED <<vars, scope>> => IInv'
  <2> SUFFICES ASSUME IInv, UNCHANGED <<vars, scope>> PROVE IInv'
    BY Zenon
  <2>1. UNCHANGED <<target, announced, inbox, op, r, claim, task, veth, stuck, earlier, route, tracked, current, ports,
                    up, exits, faults, boots, scope>>
    BY Zenon DEF vars, store, links, kernel, manager, budgets
  <2>2. TypeOK'
    BY <2>1, Zenon DEF IInv, TypeOK
  <2>3. TargetOK' /\ KernelOK' /\ AdoptOK' /\ CurrentOK' /\ RestoredOK'
    BY <2>1, Zenon DEF IInv, TargetOK, KernelOK, AdoptOK, CurrentOK, RestoredOK, Few, containerID
  <2>4. ASSUME NEW q \in Placements
        PROVE  NetOK(q)' /\ RunnerOK(q)' /\ ClaimOK(q)' /\ InboxOK(q)' /\ NumberOK(q)' /\ ServingOK(q)'
    BY <2>1, <2>4, ZenonT(40) DEF IInv, NetOK, RunnerOK, ClaimOK, InboxOK, NumberOK, ServingOK, Fresh, Claiming,
       Latest, containerID, Of
  <2> QED
    BY <2>2, <2>3, <2>4, Zenon DEF IInv
<1> QED
  BY <1>1, InitOK, StepOK, PTL DEF Spec

-----------------------------------------------------------------------------
(* The results. *)

\* Once the dust settles the serving placement's container has the route, the ports and the
\* registration, if no step failed and no handover fell inside a claim.  Before any restart
\* and with at most one failed step, the registered container is the routed one whenever no
\* claim is under way: a claim that could not publish the ports has restored the route.
THEOREM DustSettles == Spec => [](scope.whole => Settled)
<1>1. IInv => (scope.whole => Settled)
  <2>a. ASSUME IInv, scope.whole, boots = 0, faults <= 1, \A p \in Placements : claim[p].pc = "none", current \in veth
        PROVE  route = current
    <3>1. faults \in {0, 1}
      <4>1. faults \in Nat
        BY <2>a, Zenon DEF IInv, TypeOK
      <4> QED
        BY <2>a, <4>1
    <3> QED
      BY <2>a, <3>1, Zenon DEF IInv, RestoredOK, Few, Moving
  <2> SUFFICES ASSUME IInv, scope.whole, Quiet, faults = 0, NEW p \in Placements, target[p] = "SERVING", r[p].pc = "up"
               PROVE  route = r[p].net /\ current = r[p].net /\ ports = r[p].net
    BY <2>a, Zenon DEF Settled
  <2>0. /\ NetOK(p) /\ RunnerOK(p) /\ ServingOK(p) /\ r[p].role \in {"none", "candidate", "current"}
        /\ containerID(p) # None
    BY Fields, IdNet, Zenon DEF IInv
  <2>1. inbox[p] = <<>> /\ ~Claiming(p) /\ ~(r[p].role = "candidate" /\ r[p].ready)
    BY Zenon DEF Quiet, Claiming
  <2>2. r[p].role = "current" /\ r[p].net # None /\ r[p].pc \notin Hold
    BY <2>0, <2>1, Zenon DEF RunnerOK, NetOK, Running, Hold
  <2>3. current = r[p].net
    BY <2>0, <2>1, <2>2, Zenon DEF ServingOK
  <2> QED
    BY <2>0, <2>2, <2>3, Zenon DEF ServingOK
<1> QED
  BY <1>1, Invariant, PTL

\* What a step does to one of the route, the ports and the registration.
LEMMA MovedCases ==
  ASSUME NEW x, NEW y, NEW p \in Placements,
         \/ y = x
         \/ y # None /\ y[1] = p /\ target[p] = "SERVING"
         \/ y = None /\ x[1] = p /\ r[p].pc \in Hold
         \/ y = None /\ x \in stuck
         \/ claim[p].pc = "rollback" /\ claim[p].old = y
  PROVE  Moved(x, y)
BY Zenon DEF Moved, Ending, Hold

\* A claim moves them to its own network, which serves, or back.
LEMMA ClaimMovesTo ==
  ASSUME IInv, scope.whole, NEW p \in Placements, claimInboundAddressLocked(p)
  PROVE  Moved(route, route') /\ Moved(current, current') /\ Moved(ports, ports')
<1>1. Claiming(p)
  BY Zenon DEF claimInboundAddressLocked, Claiming
<1>2. /\ target[p] = "SERVING" /\ claim[p].net # None /\ claim[p].net[1] = p
      /\ containerID(p) # None /\ containerID(p)[1] = p
  BY <1>1, IdNet, Zenon DEF IInv, ClaimOK, Of
<1>3. \/ route' = route
      \/ route' = claim[p].net
      \/ claim[p].pc = "rollback" /\ claim[p].old = route'
  BY Zenon DEF claimInboundAddressLocked, links, kernel, Restored
<1>4. (current' = current \/ current' = claim[p].net) /\ (ports' = ports \/ ports' = containerID(p))
  BY Zenon DEF claimInboundAddressLocked, manager
<1>5. Moved(route, route')
  BY <1>2, <1>3, MovedCases, Zenon
<1>6. Moved(current, current')
  BY <1>2, <1>4, MovedCases, Zenon
<1>7. Moved(ports, ports')
  BY <1>2, <1>4, MovedCases, Zenon
<1> QED
  BY <1>5, <1>6, <1>7, Zenon

\* A teardown takes them from its own network only.
LEMMA CleanupMoves ==
  ASSUME IInv, boots = 0, NEW p \in Placements, cleanupContainerNet(p)
  PROVE  Moved(route, route') /\ Moved(current, current') /\ Moved(ports, ports')
<1>1. /\ r[p].pc \in Hold /\ containerID(p)[1] = p /\ veth \subseteq tracked
      /\ (route # None => route \in veth \cup stuck)
      /\ route \in Net \cup {None}
  BY IdNet, Zenon DEF IInv, TypeOK, KernelOK, cleanupContainerNet, Hold
<1>2. (current' = current \/ (current' = None /\ current = containerID(p)))
      /\ (ports' = ports \/ (ports' = None /\ ports = containerID(p)))
  BY Zenon DEF cleanupContainerNet, DropCurrentNet, ClearHostPorts
<1>3. route' = route \/ (route' = None /\ (route = containerID(p) \/ route \in stuck))
  <2>1. CASE UNCHANGED kernel
    BY <2>1, Zenon DEF links, kernel
  <2>2. CASE /\ tracked' = tracked \ {containerID(p)}
             /\ IF r[p].sweep THEN teardownContainerNet({containerID(p)} \cup (veth \ tracked'), {})
                              ELSE teardownContainerNet({containerID(p)}, stuck)
             /\ route' = RouteVia(route, veth' \cup stuck')
    <3>1. veth' = veth \ {containerID(p)}
      BY <1>1, <2>2, Zenon DEF teardownContainerNet
    <3> QED
      BY <1>1, <2>2, <3>1, Zenon DEF RouteVia
  <2> QED
    BY <2>1, <2>2, Zenon DEF cleanupContainerNet
<1>4. Moved(route, route')
  BY <1>1, <1>3, MovedCases, Zenon
<1>5. Moved(current, current')
  BY <1>1, <1>2, MovedCases, Zenon
<1>6. Moved(ports, ports')
  BY <1>1, <1>2, MovedCases, Zenon
<1> QED
  BY <1>4, <1>5, <1>6, Zenon

\* No other step of a runner moves them.
LEMMA NothingMoves ==
  ASSUME route' = route, current' = current, ports' = ports
  PROVE  Moved(route, route') /\ Moved(current, current') /\ Moved(ports, ports')
BY Zenon DEF Moved

\* Before any restart, the route, the ports and the registration leave a container only when
\* it is torn down itself or its link was left over, for a serving placement's container, or
\* to undo a claim, if no handover falls inside a claim (cleanupContainerNet,
\* claimInboundAddressLocked).
THEOREM OnlyHandedOver == Spec /\ scope.whole => HandedOver
<1>1. ASSUME IInv, scope.whole, Next, boots' = 0
      PROVE  Moved(route, route') /\ Moved(current, current') /\ Moved(ports, ports')
  <2>0. /\ veth \cup stuck \in SUBSET Net /\ boots \in Nat
    BY <1>1, Zenon DEF IInv, TypeOK
  <2>1. ASSUME NEW p \in Placements, setupContainerNet(p)
        PROVE  Moved(route, route') /\ Moved(current, current') /\ Moved(ports, ports')
    <3>1. veth \ {containerID(p)} = veth
      BY <1>1, <2>1, Zenon DEF IInv, NetOK, setupContainerNet
    <3>2. RouteVia(route, veth \cup stuck) = route
      BY <1>1, <2>0, RouteKept, Zenon
    <3>3. route' = route /\ current' = current /\ ports' = ports
      BY <2>1, <3>1, <3>2, Zenon DEF setupContainerNet, links, kernel
    <3> QED
      BY <3>3, NothingMoves, Zenon
  <2>2. ASSUME NEW p \in Placements, Stop(p)
        PROVE  Moved(route, route') /\ Moved(current, current') /\ Moved(ports, ports')
    <3>0. containerID(p) \notin veth
      BY <1>1, <2>2, Zenon DEF IInv, NetOK, Stop
    <3>1. veth \ {containerID(p)} = veth /\ ({containerID(p)} \cap veth) \cup (stuck \ stuck) = {}
      BY <3>0, Zenon
    <3>2. RouteVia(route, veth \cup stuck) = route
      BY <1>1, <2>0, RouteKept, Zenon
    <3>3. route' = route /\ current' = current /\ ports' = ports
      BY <2>2, <3>1, <3>2, Zenon DEF Stop, teardownContainerNet
    <3> QED
      BY <3>3, NothingMoves, Zenon
  <2>3. ASSUME NEW p \in Placements,
               RunTask(p) \/ waitForReadiness(p) \/ taskExited(p) \/ claimInboundAddress(p)
                 \/ reconcile(p) \/ Promote(p) \/ ContainerExit(p)
        PROVE  Moved(route, route') /\ Moved(current, current') /\ Moved(ports, ports')
    <3>1. route' = route /\ current' = current /\ ports' = ports
      BY <2>3, Zenon DEF RunTask, waitForReadiness, taskExited, claimInboundAddress, reconcile, Promote,
         ContainerExit,
                  links, kernel, manager
    <3> QED
      BY <3>1, NothingMoves, Zenon
  <2>4. ASSUME NEW p \in Placements, recoverContainerNet(p) PROVE FALSE
    BY <1>1, <2>4, Zenon DEF IInv, KernelOK, recoverContainerNet
  <2>5. ASSUME NEW p \in Placements, cleanupContainerNet(p)
        PROVE  Moved(route, route') /\ Moved(current, current') /\ Moved(ports, ports')
    <3>1. boots = 0
      BY <1>1, <2>5, Zenon DEF cleanupContainerNet, budgets
    <3> QED
      BY <1>1, <2>5, <3>1, CleanupMoves, Zenon
  <2>6. ASSUME NEW p \in Placements, claimInboundAddressLocked(p)
        PROVE  Moved(route, route') /\ Moved(current, current') /\ Moved(ports, ports')
    BY <1>1, <2>6, ClaimMovesTo, Zenon
  <2>7. ASSUME MustApplyAssignments
        PROVE  Moved(route, route') /\ Moved(current, current') /\ Moved(ports, ports')
    <3>1. route' = route /\ current' = current /\ ports' = ports
      BY <2>7, Zenon DEF MustApplyAssignments, links, kernel, manager
    <3> QED
      BY <3>1, NothingMoves, Zenon
  <2>e. ASSUME EarlierEnds
        PROVE  Moved(route, route') /\ Moved(current, current') /\ Moved(ports, ports')
    <3>1. route' = route /\ current' = current /\ ports' = ports
      BY <2>e, Zenon DEF EarlierEnds, manager
    <3> QED
      BY <3>1, NothingMoves, Zenon
  <2>8. ~Crash
    <3>1. boots + 1 # 0
      BY <2>0
    <3> QED
      BY <1>1, <3>1, Zenon DEF Crash
  <2>9. ~Boot
    BY <1>1, Zenon DEF Boot, IInv, KernelOK, budgets
  <2> QED
    BY <1>1, <2>1, <2>2, <2>3, <2>4, <2>5, <2>6, <2>7, <2>e, <2>8, <2>9, Zenon DEF Next, Loop, Operator
<1>2. IInv /\ scope.whole /\ [Next]_<<vars, scope>>
        => [boots' = 0 => Moved(route, route') /\ Moved(current, current') /\ Moved(ports, ports')]_vars
  BY <1>1, Zenon
<1>3. scope.whole /\ [Next]_<<vars, scope>> => (scope.whole)'
  BY Zenon DEF Next
<1> QED
  BY <1>2, <1>3, Invariant, PTL DEF Spec, HandedOver

\* The number of networks in an empty set and in a set of one (freeV4Slot counts them).
LEMMA SmallCounts ==
  ASSUME NEW x
  PROVE  Cardinality({}) = 0 /\ Cardinality({x}) = 1
<1> DEFINE Counts(S, f) ==
             f = [T \in SUBSET S |-> IF T = {} THEN 0 ELSE 1 + f[T \ {CHOOSE y : y \in T}]]
<1>1. \A S : Cardinality(S) = (CHOOSE f : Counts(S, f))[S]
  BY Zenon DEF Cardinality
<1>2. Counts({}, [T \in SUBSET {} |-> 0])
  <2>1. \A T \in SUBSET {} : T = {}
    BY Zenon
  <2> QED
    BY <2>1, Zenon
<1>3. Counts({x}, [T \in SUBSET {x} |-> IF T = {} THEN 0 ELSE 1])
  <2> DEFINE f == [T \in SUBSET {x} |-> IF T = {} THEN 0 ELSE 1]
  <2>1. \A T \in SUBSET {x} : T # {} => T \ {CHOOSE y : y \in T} = {}
    BY Zenon
  <2>2. f[{}] = 0
    BY Zenon
  <2>3. \A T \in SUBSET {x} :
          (IF T = {} THEN 0 ELSE 1)
          = (IF T = {} THEN 0 ELSE 1 + f[T \ {CHOOSE y : y \in T}])
    BY <2>1, <2>2
  <2> QED
    BY <2>3, Zenon
<1> HIDE DEF Counts
<1>4. Counts({}, CHOOSE f : Counts({}, f)) /\ Counts({x}, CHOOSE f : Counts({x}, f))
  BY <1>2, <1>3, Zenon
<1>5. \A f : Counts({}, f) => f[{}] = 0
  BY Zenon DEF Counts
<1>6. \A f : Counts({x}, f) => f[{x}] = 1
  <2>1. SUFFICES ASSUME NEW f, Counts({x}, f) PROVE f[{x}] = 1
    BY Zenon
  <2>2. {x} \ {CHOOSE y : y \in {x}} = {}
    BY Zenon
  <2>3. f[{}] = 0
    BY <2>1, Zenon DEF Counts
  <2>4. f[{x}] = 1 + f[{x} \ {CHOOSE y : y \in {x}}]
    BY <2>1, Zenon DEF Counts
  <2> QED
    BY <2>2, <2>3, <2>4
<1> QED
  BY <1>1, <1>4, <1>5, <1>6, Zenon

\* No network outlives its run, whatever exits, failed steps and restarts came before:
\* when a run's network is set up, none of an earlier run of its placement is left, and a
\* deployment with two slots (v4SlotsPerDeployment) has one free, unless a placement still
\* draining holds one or the kernel refused to delete a link (freeV4Slot).
THEOREM SlotsSuffice ==
  ASSUME Slots >= 2
  PROVE  Spec => []SlotFree
<1>1. IInv => SlotFree
  <2> SUFFICES ASSUME IInv, NEW p \in Placements, r[p].pc = "setup"
               PROVE  /\ \A x \in veth : x[1] = p => x = containerID(p)
                      /\ earlier = 0 /\ stuck = {} => freeV4Slot(veth \ {containerID(p)})
    BY Zenon DEF SlotFree
  <2>0. \A x \in veth : x \in Net /\ x # None
    BY RouteAssumption, Zenon DEF IInv, TypeOK, Net, Placements
  <2>1. PICK q \in Placements : q # p /\ \A s \in Placements : s = p \/ s = q
    BY RouteAssumption DEF Placements
  <2>2. \A x \in veth : (x[1] = p => x = containerID(p)) /\ (x[1] = q => x = containerID(q))
    BY <2>0, Zenon DEF IInv, NetOK, Of
  <2>3. ASSUME NEW x \in veth \ {containerID(p)} PROVE x = containerID(q)
    <3>1. x[1] = p \/ x[1] = q
      BY <2>0, <2>1, Zenon DEF Net
    <3> QED
      BY <2>2, <3>1, Zenon
  <2>4. veth \ {containerID(p)} = {} \/ veth \ {containerID(p)} = {containerID(q)}
    BY <2>3, Zenon
  <2>5. Cardinality({}) = 0 /\ Cardinality({containerID(q)}) = 1
    BY SmallCounts, Zenon
  <2>6. Cardinality(veth \ {containerID(p)}) \in {0, 1}
    BY <2>4, <2>5, Zenon
  <2>7. ASSUME earlier = 0, stuck = {} PROVE freeV4Slot(veth \ {containerID(p)})
    <3>1. Cardinality(stuck) = 0
      BY <2>5, <2>7, Zenon
    <3> QED
      BY <2>6, <2>7, <3>1, RouteAssumption DEF freeV4Slot
  <2> QED
    BY <2>2, <2>7, Zenon
<1> QED
  BY <1>1, Invariant, PTL
=============================================================================
