---------------------------- MODULE BarrierProofs ----------------------------
(***************************************************************************)
(* Proofs about the barrier and the streams of maps, for every number of   *)
(* secondaries, sessions, writes, breaks, failures and primary processes   *)
(* and every queue size: a decision the barrier calls in force is          *)
(* programmed, no kernel goes back, and no map is lost on its way.         *)
(*                                                                         *)
(* What is on its way to a secondary was put there by a session, and a     *)
(* session belongs to one primary process.  The invariant follows the maps *)
(* of this process (Ours) from the publisher through the queue, the wire   *)
(* and the cache to the kernel, each at most as new as the one before, and *)
(* the acknowledgements back.  The steps come in the order publisher,      *)
(* session, secondary, the primary's own applier.                          *)
(***************************************************************************)
EXTENDS RouteBarrier, TLAPS

Row == [stamp : Nat, content : {0, 1}]
Status == [applied : Nat, clean : BOOLEAN]

TypeOK ==
  /\ seq \in Nat /\ content \in [Nodes -> {0, 1}] /\ stamps \in [Nodes -> Row]
  /\ boot \in Nat /\ bootSeq \in Nat /\ rendered \in Nat
  /\ maps \in [Nodes -> Map] /\ applied \in [Nodes -> Nat \cup {None}]
  /\ DOMAIN touched = bootSeq + 1 .. seq /\ \A s \in DOMAIN touched : touched[s] \subseteq Nodes
  /\ live \in [Sessions -> BOOLEAN] /\ kicked \in [Sessions -> BOOLEAN] /\ open \in [Sessions -> BOOLEAN]
  /\ queue \in [Sessions -> Seq(Map)] /\ up \in [Sessions -> Seq(Status)]
  /\ hand \in [Sessions -> Status \cup {None}]
  /\ conn \in [Secondaries -> Slots \cup {None}] /\ fresh \in [Secondaries -> BOOLEAN]
  /\ down \in [Secondaries -> Seq(Map)] /\ cache \in [Secondaries -> Map \cup {None}]
  /\ slot \in Map \cup {None} /\ pending \in Map \cup {None}
  /\ kernel \in [Nodes -> Map \cup {None}]

\* A map this primary process rendered.
Ours(m) == m # None /\ m.boot = boot

\* The publisher: at most one write is not rendered, stamps do not run ahead of
\* it, and the map of a node that a rendered write changed is at least that new.
PubInv ==
  /\ bootSeq <= rendered /\ rendered <= seq /\ seq <= rendered + 1
  /\ \A n \in Nodes : /\ stamps[n].stamp <= rendered
                      /\ maps[n].stamp <= rendered /\ maps[n].boot = boot
                      /\ rendered = seq => maps[n].content = content[n]
  /\ \A s \in DOMAIN touched : \A n \in touched[s] :
       IF s <= rendered THEN s <= maps[n].stamp ELSE maps[n].content # content[n]

\* No node holds a map of a process yet to come, or one of this process that is
\* newer than the publisher's.
PastInv ==
  /\ \A n \in Nodes : kernel[n] # None => kernel[n].boot <= boot
  /\ \A n \in Secondaries : /\ cache[n] # None => cache[n].boot <= boot
                            /\ Ours(cache[n]) => cache[n].stamp <= maps[n].stamp
                            /\ \A i \in 1..Len(down[n]) :
                                 /\ down[n][i].boot <= boot
                                 /\ down[n][i].boot = boot => down[n][i].stamp <= maps[n].stamp

QueueInv ==
  /\ \A x \in Sessions : open[x] => live[x]
  /\ \A x \in Sessions : \A i \in 1..Len(queue[x]) :
       queue[x][i].boot = boot /\ queue[x][i].stamp <= maps[x[1]].stamp

Ordered(s) == \A i, j \in 1..Len(s) : i < j => s[i].stamp < s[j].stamp

\* What a connected secondary has accepted and what is on its way to it.  The
\* frames on the wire are of one process, this one if the session is live, and
\* a secondary that has had its first map holds one of that process.  If it holds
\* one of ours, so are the frames, and none of them is older.
Link(n) ==
  LET x == <<n, conn[n]>> IN
  /\ \A i, j \in 1..Len(down[n]) : down[n][i].boot = down[n][j].boot
  /\ live[x] => \A i \in 1..Len(down[n]) : down[n][i].boot = boot
  /\ ~fresh[n] => /\ cache[n] # None
                  /\ \A i \in 1..Len(down[n]) : down[n][i].boot = cache[n].boot
                  /\ live[x] => cache[n].boot = boot
  /\ Ours(cache[n]) => \A i \in 1..Len(down[n]) : down[n][i].boot = boot
  /\ Ours(cache[n]) /\ fresh[n] => /\ \A i \in 1..Len(down[n]) : cache[n].stamp <= down[n][i].stamp
                                   /\ live[x] => \A i \in 1..Len(queue[x]) : cache[n].stamp <= queue[x][i].stamp

LinkInv == \A n \in Secondaries : conn[n] # None => Link(n)

Newer(s, k) == \A i \in 1..Len(s) : k < s[i].stamp

\* A stream - the map c accepted unless f, d on the wire, q queued - is strictly
\* increasing, part by part and from one part to the next, up to the map m.
Rising(f, c, d, q, m) ==
  /\ Ordered(d) /\ Ordered(q) /\ \A i \in 1..Len(d) : Newer(q, d[i].stamp)
  /\ ~f => Newer(d, c.stamp) /\ Newer(q, c.stamp)
  /\ \A i \in 1..Len(d) : d[i].stamp <= m.stamp

\* A stream ends with the map m.
Ends(f, c, d, q, m) ==
  IF q # <<>> THEN q[Len(q)] = m
  ELSE IF d # <<>> THEN d[Len(d)] = m ELSE ~f /\ c = m

\* The stream of a live session is rising, and it ends with the publisher's map
\* while the subscription is open.
Flow(n) ==
  LET x == <<n, conn[n]>> IN
  /\ live[x] => Rising(fresh[n], cache[n], down[n], queue[x], maps[n])
  /\ open[x] => Ends(fresh[n], cache[n], down[n], queue[x], maps[n])

StreamInv == \A n \in Secondaries : conn[n] # None => Flow(n)

\* A secondary's kernel is not ahead of its cache, the primary's own kernel not
\* ahead of what its applier has yet to apply.
KernelInv ==
  /\ \A n \in Secondaries : Ours(kernel[n]) => Ours(cache[n]) /\ kernel[n].stamp <= cache[n].stamp
  /\ \A m \in {slot, pending} \ {None} :
       /\ m.boot = boot /\ m.stamp <= maps[Primary].stamp
       /\ Ours(kernel[Primary]) => kernel[Primary].stamp <= m.stamp
  /\ slot # None /\ pending # None => pending.stamp <= slot.stamp
  /\ Ours(kernel[Primary]) => kernel[Primary].stamp <= maps[Primary].stamp

\* The node has programmed one of our maps stamped k or later; 0 claims nothing.
Acked(n, k) == k > 0 => Ours(kernel[n]) /\ k <= kernel[n].stamp

ReportInv ==
  /\ \A n \in Nodes : applied[n] # None => Acked(n, applied[n])
  /\ \A x \in Sessions :
       /\ \A i \in 1..Len(up[x]) : up[x][i].clean => Acked(x[1], up[x][i].applied)
       /\ hand[x] # None /\ hand[x].clean => Acked(x[1], hand[x].applied)

\* The inductive invariant.
IInv == TypeOK /\ PubInv /\ PastInv /\ QueueInv /\ LinkInv /\ StreamInv /\ KernelInv /\ ReportInv

-----------------------------------------------------------------------------
(* Sequences of maps.                                                        *)

\* A sequence of one.
LEMMA One == ASSUME NEW m PROVE \A i \in 1..Len(<<m>>) : <<m>>[i] = m
OBVIOUS

\* Taking from a sequence.
LEMMA TailIs ==
  ASSUME NEW S, NEW s \in Seq(S), s # <<>>
  PROVE  /\ Head(s) \in S /\ Head(s) = s[1] /\ 1 \in 1..Len(s) /\ Len(s) \in Nat
         /\ Tail(s) \in Seq(S) /\ Len(Tail(s)) = Len(s) - 1
         /\ \A i \in 1..Len(Tail(s)) : i + 1 \in 1..Len(s) /\ 1 < i + 1 /\ Tail(s)[i] = s[i + 1]
         /\ Tail(s) # <<>> => Len(Tail(s)) \in 1..Len(Tail(s)) /\ Tail(s)[Len(Tail(s))] = s[Len(s)]
         /\ Tail(s) = <<>> => Head(s) = s[Len(s)]
<1> DEFINE r == Tail(s)
<1>1. Head(s) \in S /\ Head(s) = s[1] /\ Len(s) \in Nat /\ 1 \in 1..Len(s)
  OBVIOUS
<1>2. r \in Seq(S) /\ Len(r) = Len(s) - 1
  OBVIOUS
<1>3. \A i \in 1..Len(r) : r[i] = s[i + 1]
  OBVIOUS
<1> HIDE DEF r
<1>4. (r # <<>> => Len(r) \in 1..Len(r)) /\ (r = <<>> => Len(r) = 0)
  <2>1. \A q \in Seq(S) : (q # <<>> => Len(q) \in 1..Len(q)) /\ (q = <<>> => Len(q) = 0)
    OBVIOUS
  <2> QED
    BY <1>2, <2>1, Zenon
<1>5. \A i \in 1..Len(r) : i + 1 \in 1..Len(s) /\ 1 < i + 1
  BY <1>1, <1>2
<1>6. r # <<>> => r[Len(r)] = s[Len(s)]
  BY <1>1, <1>2, <1>3, <1>4
<1>7. r = <<>> => Head(s) = s[Len(s)]
  <2>1. r = <<>> => Len(s) = 1
    BY <1>1, <1>2, <1>4
  <2> QED
    BY <1>1, <2>1, Zenon
<1> QED
  BY <1>1, <1>2, <1>3, <1>4, <1>5, <1>6, <1>7, Zenon DEF r

\* The sequence a is s with m at its end.
Longer(a, s, m) ==
  /\ Len(s) \in Nat /\ Len(a) = Len(s) + 1 /\ a # <<>> /\ a[Len(a)] = m
  /\ \A i \in 1..Len(a) : (i \in 1..Len(s) /\ a[i] = s[i]) \/ (i = Len(a) /\ a[i] = m)

\* Adding to a sequence.
LEMMA AppendIs ==
  ASSUME NEW S, NEW s \in Seq(S), NEW m \in S
  PROVE  Append(s, m) \in Seq(S) /\ Longer(Append(s, m), s, m)
<1> DEFINE a == Append(s, m)
<1>1. a \in Seq(S) /\ Len(s) \in Nat /\ Len(a) = Len(s) + 1 /\ a # <<>>
  OBVIOUS
<1>2. a[Len(s) + 1] = m /\ \A i \in 1..Len(s) : a[i] = s[i]
  OBVIOUS
<1> HIDE DEF a
<1>3. \A i \in 1..Len(a) : i \in 1..Len(s) \/ i = Len(a)
  BY <1>1
<1>4. a[Len(a)] = m
  BY <1>1, <1>2, Zenon
<1> QED
  BY <1>1, <1>2, <1>3, <1>4, Zenon DEF a, Longer

\* The map k is newer than the publisher's map m and so than the whole stream.
Newest(f, c, d, q, m, k) ==
  /\ f \in BOOLEAN /\ d \in Seq(Map) /\ q \in Seq(Map) /\ m \in Map /\ k \in Map /\ m.stamp < k.stamp
  /\ \A i \in 1..Len(q) : q[i].stamp <= m.stamp
  /\ f \/ (c \in Map /\ c.stamp <= m.stamp)
  /\ Rising(f, c, d, q, m)

\* A stream stays rising and ended when a newer map is queued,
LEMMA Queued ==
  ASSUME NEW f, NEW c, NEW d, NEW q, NEW m, NEW k, Newest(f, c, d, q, m, k)
  PROVE  Rising(f, c, d, Append(q, k), k) /\ Ends(f, c, d, Append(q, k), k)
<1> DEFINE a == Append(q, k)
<1>0. /\ d \in Seq(Map) /\ q \in Seq(Map) /\ m \in Map /\ k \in Map /\ m.stamp < k.stamp
      /\ \A i \in 1..Len(q) : q[i].stamp <= m.stamp
      /\ f \/ (c \in Map /\ c.stamp <= m.stamp)
      /\ Rising(f, c, d, q, m)
  BY Zenon DEF Newest
<1>1. /\ Len(a) = Len(q) + 1 /\ Len(q) \in Nat /\ a # <<>> /\ a[Len(a)] = k
      /\ \A i \in 1..Len(a) : (i \in 1..Len(q) /\ a[i] = q[i]) \/ (i = Len(a) /\ a[i] = k)
  <2>1. Longer(a, q, k)
    BY <1>0, AppendIs, Zenon
  <2> HIDE DEF a
  <2> QED
    BY <2>1, Zenon DEF Longer
<1>a. (\A i \in 1..Len(q) : q[i] \in Map) /\ (\A i \in 1..Len(d) : d[i] \in Map)
  BY <1>0
<1>2. m.stamp \in Nat /\ k.stamp \in Nat /\ \A i \in 1..Len(q) : q[i].stamp \in Nat
  BY <1>0, <1>a, Zenon DEF Map
<1>3. \A i \in 1..Len(d) : d[i].stamp \in Nat
  BY <1>0, <1>a, Zenon DEF Map
<1> HIDE DEF a
<1>b. \A i \in 1..Len(q) : q[i].stamp < k.stamp
  BY <1>0, <1>2
<1>4. Ordered(a)
  <2> SUFFICES ASSUME NEW i \in 1..Len(a), NEW j \in 1..Len(a), i < j
               PROVE  a[i].stamp < a[j].stamp
    BY Zenon DEF Ordered
  <2>1. i \in 1..Len(q) /\ a[i] = q[i]
    BY <1>1
  <2>2. CASE j \in 1..Len(q) /\ a[j] = q[j]
    BY <1>0, <2>1, <2>2, Zenon DEF Rising, Ordered
  <2>3. CASE a[j] = k
    BY <1>b, <2>1, <2>3, Zenon
  <2> QED
    BY <1>1, <2>2, <2>3, Zenon
<1>5. ASSUME NEW e \in Nat, Newer(q, e), e <= m.stamp
      PROVE  Newer(a, e)
  BY <1>0, <1>1, <1>2, <1>5 DEF Newer
<1>6. \A i \in 1..Len(d) : Newer(a, d[i].stamp) /\ d[i].stamp <= k.stamp
  BY <1>0, <1>2, <1>3, <1>5 DEF Rising
<1>7. ~f => Newer(a, c.stamp)
  BY <1>0, <1>5, Zenon DEF Rising, Map
<1> QED
  BY <1>0, <1>1, <1>4, <1>6, <1>7, Zenon DEF Rising, Ends, a

\* when its first queued map goes onto the wire,
LEMMA Sent ==
  ASSUME NEW f \in BOOLEAN, NEW c, NEW d \in Seq(Map), NEW q \in Seq(Map), NEW m \in Map, q # <<>>,
         Head(q).stamp <= m.stamp, Rising(f, c, d, q, m)
  PROVE  /\ Rising(f, c, Append(d, Head(q)), Tail(q), m)
         /\ Ends(f, c, d, q, m) => Ends(f, c, Append(d, Head(q)), Tail(q), m)
<1> DEFINE h == Head(q)
           r == Tail(q)
           a == Append(d, h)
<1>1. /\ h \in Map /\ 1 \in 1..Len(q) /\ h = q[1]
      /\ \A i \in 1..Len(r) : i + 1 \in 1..Len(q) /\ 1 < i + 1 /\ r[i] = q[i + 1]
      /\ r # <<>> => r[Len(r)] = q[Len(q)]
      /\ r = <<>> => h = q[Len(q)]
  BY TailIs, Zenon
<1>2. /\ Len(a) = Len(d) + 1 /\ Len(d) \in Nat /\ a # <<>> /\ a[Len(a)] = h
      /\ \A i \in 1..Len(a) : (i \in 1..Len(d) /\ a[i] = d[i]) \/ (i = Len(a) /\ a[i] = h)
  <2>1. Longer(a, d, h)
    BY <1>1, AppendIs, Zenon
  <2> HIDE DEF a
  <2> QED
    BY <2>1, Zenon DEF Longer
<1> HIDE DEF h, r, a
<1>3. Ordered(a)
  <2> SUFFICES ASSUME NEW i \in 1..Len(a), NEW j \in 1..Len(a), i < j
               PROVE  a[i].stamp < a[j].stamp
    BY Zenon DEF Ordered
  <2>1. i \in 1..Len(d) /\ a[i] = d[i]
    BY <1>2
  <2>2. CASE j \in 1..Len(d) /\ a[j] = d[j]
    BY <2>1, <2>2, Zenon DEF Rising, Ordered
  <2>3. CASE a[j] = h
    BY <1>1, <2>1, <2>3, Zenon DEF Rising, Newer
  <2> QED
    BY <1>2, <2>2, <2>3, Zenon
<1>4. Newer(r, h.stamp)
  BY <1>1, Zenon DEF Rising, Ordered, Newer
<1>5. Ordered(r)
  <2> SUFFICES ASSUME NEW i \in 1..Len(r), NEW j \in 1..Len(r), i < j
               PROVE  r[i].stamp < r[j].stamp
    BY Zenon DEF Ordered
  <2>1. i + 1 \in 1..Len(q) /\ j + 1 \in 1..Len(q) /\ i + 1 < j + 1 /\ r[i] = q[i + 1] /\ r[j] = q[j + 1]
    BY <1>1
  <2> QED
    BY <2>1, Zenon DEF Rising, Ordered
<1>6. ASSUME NEW e, Newer(q, e)
      PROVE  Newer(r, e) /\ e < h.stamp
  BY <1>1, <1>6, Zenon DEF Newer
<1>7. \A i \in 1..Len(a) : Newer(r, a[i].stamp) /\ a[i].stamp <= m.stamp
  BY <1>2, <1>4, <1>6, Zenon DEF Rising, h
<1>8. ~f => Newer(a, c.stamp) /\ Newer(r, c.stamp)
  BY <1>2, <1>6, Zenon DEF Rising, Newer
<1>9. Ends(f, c, d, q, m) => Ends(f, c, a, r, m)
  <2> SUFFICES ASSUME q[Len(q)] = m
               PROVE  Ends(f, c, a, r, m)
    BY Zenon DEF Ends
  <2>1. CASE r # <<>>
    BY <1>1, <2>1, Zenon DEF Ends
  <2>2. CASE r = <<>>
    BY <1>1, <1>2, <2>2, Zenon DEF Ends
  <2> QED
    BY <2>1, <2>2, Zenon
<1> QED
  BY <1>3, <1>5, <1>7, <1>8, <1>9, Zenon DEF Rising, h, r, a

\* and when the secondary accepts the first map from the wire.
LEMMA Accepted ==
  ASSUME NEW f \in BOOLEAN, NEW c, NEW d \in Seq(Map), NEW q \in Seq(Map), NEW m \in Map, d # <<>>,
         Rising(f, c, d, q, m)
  PROVE  /\ Rising(FALSE, Head(d), Tail(d), q, m)
         /\ Ends(f, c, d, q, m) => Ends(FALSE, Head(d), Tail(d), q, m)
<1> DEFINE h == Head(d)
           r == Tail(d)
<1>1. /\ 1 \in 1..Len(d) /\ h = d[1]
      /\ \A i \in 1..Len(r) : i + 1 \in 1..Len(d) /\ 1 < i + 1 /\ r[i] = d[i + 1]
      /\ r # <<>> => r[Len(r)] = d[Len(d)]
      /\ r = <<>> => h = d[Len(d)]
  BY TailIs, Zenon
<1> HIDE DEF h, r
<1>2. Newer(r, h.stamp)
  BY <1>1, Zenon DEF Rising, Ordered, Newer
<1>3. Ordered(r)
  <2> SUFFICES ASSUME NEW i \in 1..Len(r), NEW j \in 1..Len(r), i < j
               PROVE  r[i].stamp < r[j].stamp
    BY Zenon DEF Ordered
  <2>1. i + 1 \in 1..Len(d) /\ j + 1 \in 1..Len(d) /\ i + 1 < j + 1 /\ r[i] = d[i + 1] /\ r[j] = d[j + 1]
    BY <1>1
  <2> QED
    BY <2>1, Zenon DEF Rising, Ordered
<1>4. Ordered(q) /\ Newer(q, h.stamp) /\ \A i \in 1..Len(r) : Newer(q, r[i].stamp) /\ r[i].stamp <= m.stamp
  BY <1>1, Zenon DEF Rising
<1>5. Ends(f, c, d, q, m) => Ends(FALSE, h, r, q, m)
  BY <1>1, Zenon DEF Ends
<1> QED
  BY <1>2, <1>3, <1>4, <1>5, Zenon DEF Rising, h, r

\* It stays rising under a newer map that it does not take,
LEMMA Raised ==
  ASSUME NEW f \in BOOLEAN, NEW c, NEW d \in Seq(Map), NEW q \in Seq(Map), NEW m \in Map, NEW k \in Map,
         m.stamp <= k.stamp, Rising(f, c, d, q, m)
  PROVE  Rising(f, c, d, q, k)
<1>1. \A i \in 1..Len(d) : d[i] \in Map /\ d[i].stamp <= m.stamp
  BY DEF Rising
<1>2. \A i \in 1..Len(d) : d[i].stamp <= k.stamp
  BY <1>1, SMTT(20) DEF Map
<1> QED
  BY <1>2, Zenon DEF Rising

\* and one map on the wire is such a stream.
LEMMA Begun ==
  ASSUME NEW c, NEW m \in Map
  PROVE  Rising(TRUE, c, <<m>>, <<>>, m) /\ Ends(TRUE, c, <<m>>, <<>>, m)
<1> DEFINE d == <<m>>
           e == <<>>
<1>1. d # <<>> /\ Len(d) = 1 /\ d[1] = m /\ e = <<>> /\ Len(e) = 0
  BY Zenon
<1>2. m.stamp \in Nat
  BY Zenon DEF Map
<1> HIDE DEF d, e
<1>3. Ordered(d) /\ Ordered(e) /\ \A k : Newer(e, k)
  BY <1>1 DEF Ordered, Newer
<1>4. \A i \in 1..Len(d) : d[i].stamp <= m.stamp
  BY <1>1, <1>2
<1> QED
  BY <1>1, <1>3, <1>4, Zenon DEF Rising, Ends, d, e

-----------------------------------------------------------------------------
(* The initial state.                                                        *)

\* Nodes and sessions.
LEMMA Names ==
  /\ Secondaries \subseteq Nodes /\ Primary \in Nodes /\ Primary \notin Secondaries
  /\ \A x \in Sessions : x[1] \in Secondaries
  /\ \A n \in Secondaries, c \in Slots : <<n, c>> \in Sessions /\ <<n, c>>[1] = n
  /\ None \notin Map /\ None \notin Int
BY BarrierAssumption, Zenon DEF Nodes, Sessions

\* The invariant holds of a first process with no session.
LEMMA InitIInv == Init => IInv
<1> SUFFICES ASSUME Init PROVE IInv
  BY Zenon
<1>1. TypeOK
  BY Names DEF Init, TypeOK, Map, Row
<1>2. PubInv
  BY DEF Init, PubInv
<1>3. PastInv /\ QueueInv /\ LinkInv /\ StreamInv
  BY DEF Init, PastInv, QueueInv, LinkInv, StreamInv, Ours
<1>4. KernelInv /\ ReportInv
  BY Names DEF Init, KernelInv, ReportInv, Ours
<1> QED
  BY <1>1, <1>2, <1>3, <1>4, Zenon DEF IInv

-----------------------------------------------------------------------------
(* Each part of the invariant is about a few of the variables.               *)

\* What Flow says of the state after a step.
LEMMA FlowNext ==
  ASSUME NEW n, NEW x, x = <<n, conn'[n]>>,
         live'[x] => Rising(fresh'[n], cache'[n], down'[n], queue'[x], maps'[n]),
         open'[x] => Ends(fresh'[n], cache'[n], down'[n], queue'[x], maps'[n])
  PROVE  Flow(n)'
BY Zenon DEF Flow, Rising, Ends, Ordered, Newer

\* A step that leaves the variables of a part alone keeps that part.
LEMMA Frames ==
  /\ UNCHANGED <<dbVars, pubVars>> => (PubInv => PubInv')
  /\ UNCHANGED <<boot, maps, secVars, kernel>> => (PastInv => PastInv')
  /\ UNCHANGED <<boot, maps, live, open, queue>> => (QueueInv => QueueInv')
  /\ UNCHANGED <<boot, maps, live, open, queue, secVars>> => (LinkInv => LinkInv')
  /\ UNCHANGED <<boot, maps, live, open, queue, secVars>> => (StreamInv => StreamInv')
  /\ UNCHANGED <<boot, maps, cache, kernel, localVars>> => (KernelInv => KernelInv')
  /\ UNCHANGED <<boot, kernel, applied, up, hand>> => (ReportInv => ReportInv')
<1>1. UNCHANGED <<dbVars, pubVars>> => (PubInv => PubInv')
  BY DEF dbVars, pubVars, PubInv
<1>2. UNCHANGED <<boot, maps, secVars, kernel>> => (PastInv => PastInv')
  BY Zenon DEF secVars, PastInv, Ours
<1>3. UNCHANGED <<boot, maps, live, open, queue>> => (QueueInv => QueueInv')
  BY Zenon DEF QueueInv
<1>4. UNCHANGED <<boot, maps, live, open, queue, secVars>> => (LinkInv => LinkInv')
  BY DEF secVars, LinkInv, Link, Ours
<1>5. UNCHANGED <<boot, maps, live, open, queue, secVars>> => (StreamInv => StreamInv')
  BY FlowNext, Zenon DEF secVars, StreamInv, Flow
<1>6. UNCHANGED <<boot, maps, cache, kernel, localVars>> => (KernelInv => KernelInv')
  BY Zenon DEF localVars, KernelInv, Ours
<1>7. UNCHANGED <<boot, kernel, applied, up, hand>> => (ReportInv => ReportInv')
  BY Zenon DEF ReportInv, Acked, Ours
<1> QED
  BY <1>1, <1>2, <1>3, <1>4, <1>5, <1>6, <1>7, Zenon

-----------------------------------------------------------------------------
(* The publisher's steps.                                                    *)

\* A write changes the tables and no map yet.
LEMMA CommitStep ==
  ASSUME IInv, NEW T \in SUBSET Nodes, Commit(T)
  PROVE  IInv'
<1>1. TypeOK'
  <2>1. seq' \in Nat /\ content' \in [Nodes -> {0, 1}]
    BY DEF IInv, TypeOK, Commit
  <2>2. DOMAIN touched' = bootSeq' + 1 .. seq' /\ \A s \in DOMAIN touched' : touched'[s] \subseteq Nodes
    BY DEF IInv, TypeOK, Commit
  <2> QED
    BY <2>1, <2>2, Zenon DEF IInv, TypeOK, Commit, sessVars, secVars, localVars
<1>2. PubInv'
  <2>1. /\ bootSeq' <= rendered' /\ rendered' <= seq' /\ seq' <= rendered' + 1
        /\ rendered' # seq'
    BY DEF IInv, TypeOK, PubInv, Commit
  <2>2. \A n \in Nodes : /\ stamps'[n].stamp <= rendered'
                         /\ maps'[n].stamp <= rendered' /\ maps'[n].boot = boot'
    BY Zenon DEF IInv, PubInv, Commit
  <2>3. ASSUME NEW s \in DOMAIN touched', NEW n \in touched'[s]
        PROVE  IF s <= rendered' THEN s <= maps'[n].stamp ELSE maps'[n].content # content'[n]
    <3>1. CASE s <= seq
      <4>1. s \in DOMAIN touched /\ touched'[s] = touched[s] /\ s <= rendered'
        BY <3>1 DEF IInv, TypeOK, Commit
      <4> QED
        BY <4>1, Zenon DEF IInv, PubInv, Commit
    <3>2. CASE ~(s <= seq)
      <4>1. touched'[s] = T /\ ~(s <= rendered')
        BY <3>2 DEF IInv, TypeOK, Commit
      <4>2. n \in Nodes /\ maps'[n].content = content[n] /\ content[n] \in {0, 1} /\ content'[n] = 1 - content[n]
        BY <4>1, Zenon DEF IInv, TypeOK, PubInv, Commit
      <4> QED
        BY <4>1, <4>2
    <3> QED
      BY <3>1, <3>2, Zenon
  <2> QED
    BY <2>1, <2>2, <2>3, Zenon DEF PubInv
<1>3. PastInv' /\ QueueInv' /\ LinkInv' /\ StreamInv' /\ KernelInv' /\ ReportInv'
  BY Frames, Zenon DEF IInv, Commit, sessVars, secVars, localVars
<1> QED
  BY <1>1, <1>2, <1>3, Zenon DEF IInv

\* What the commit handler does to the maps: a changed one is newer than the
\* node's last.
Rendered ==
  /\ maps' \in [Nodes -> Map] /\ seq \in Nat /\ rendered' = seq
  /\ \A n \in Nodes : /\ maps'[n].boot = boot /\ maps'[n].content = content[n]
                      /\ maps[n].stamp \in Nat /\ maps[n].stamp <= maps'[n].stamp /\ maps'[n].stamp <= seq
                      /\ n \in Changed => maps'[n].stamp = seq /\ maps[n].stamp < seq
                      /\ n \notin Changed => maps'[n] = maps[n]

\* What it leaves alone.
Kept ==
  /\ seq' = seq /\ content' = content /\ boot' = boot /\ bootSeq' = bootSeq /\ touched' = touched
  /\ live' = live /\ kicked' = kicked /\ up' = up /\ hand' = hand /\ applied' = applied
  /\ conn' = conn /\ fresh' = fresh /\ down' = down /\ cache' = cache
  /\ pending' = pending /\ kernel' = kernel

\* What it does to the queues: a changed map is queued for every subscription
\* that stays open.
Enqueued ==
  /\ queue' \in [Sessions -> Seq(Map)] /\ open' \in [Sessions -> BOOLEAN]
  /\ slot' \in Map \cup {None}
  /\ slot' = IF Primary \in Changed THEN maps'[Primary] ELSE slot
  /\ \A x \in Sessions :
       /\ open'[x] => open[x]
       /\ queue'[x] = queue[x] \/ (x[1] \in Changed /\ queue'[x] = Append(queue[x], maps'[x[1]]))
       /\ open'[x] /\ x[1] \in Changed => queue'[x] = Append(queue[x], maps'[x[1]])
       /\ x[1] \notin Changed => queue'[x] = queue[x]

\* The handler renders.
LEMMA HandleIs ==
  ASSUME IInv, handle
  PROVE  Rendered /\ Kept
<1>1. Rendered
  BY DEF IInv, TypeOK, PubInv, handle, renderNodesLocked, Changed, Map, Rendered
<1>2. Kept
  BY Zenon DEF handle, secVars, Kept
<1> QED
  BY <1>1, <1>2, Zenon

\* The queues.
LEMMA EnqueueIs ==
  ASSUME IInv, handle, Rendered
  PROVE  Enqueued
<1>r. \A n \in Nodes : maps'[n] \in Map
  BY Zenon DEF Rendered
<1>1. enqueueLocked
  BY Zenon DEF handle
<1>2. \A x \in Sessions : maps'[x[1]] \in Map /\ queue[x] \in Seq(Map) /\ open[x] \in BOOLEAN
  BY <1>r, Names, Zenon DEF IInv, TypeOK
<1>3. open' \in [Sessions -> BOOLEAN]
  BY <1>1, <1>2, Zenon DEF enqueueLocked
<1>4. queue' \in [Sessions -> Seq(Map)]
  BY <1>1, <1>2 DEF enqueueLocked
<1>5. slot' = (IF Primary \in Changed THEN maps'[Primary] ELSE slot) /\ slot' \in Map \cup {None}
  BY <1>1, <1>r, Names, Zenon DEF enqueueLocked, IInv, TypeOK
<1>6. ASSUME NEW x \in Sessions
      PROVE  /\ open'[x] => open[x] /\ (x[1] \in Changed => Len(queue[x]) < QueueSize)
             /\ queue'[x] = IF open[x] /\ x[1] \in Changed /\ Len(queue[x]) < QueueSize
                            THEN Append(queue[x], maps'[x[1]]) ELSE queue[x]
  BY <1>1, Zenon DEF enqueueLocked
<1> QED
  BY <1>3, <1>4, <1>5, <1>6, Zenon DEF Enqueued

\* The types, and the publisher's own invariant.
LEMMA HandlePub ==
  ASSUME IInv, handle, Rendered, Kept, Enqueued
  PROVE  TypeOK' /\ PubInv'
<1>3. /\ stamps' \in [Nodes -> Row]
      /\ \A n \in Nodes : stamps'[n].stamp <= seq
  <2>1. PICK saved \in BOOLEAN : persistStamps(saved)
    BY Zenon DEF handle
  <2> QED
    BY <2>1 DEF IInv, TypeOK, PubInv, persistStamps, Row, Kept
<1>t. TypeOK'
  BY <1>3, Zenon DEF IInv, TypeOK, Rendered, Kept, Enqueued
<1>p. PubInv'
  <2>1. ASSUME NEW s \in DOMAIN touched, NEW n \in touched[s]
        PROVE  s <= maps'[n].stamp
    <3>1. n \in Nodes /\ s \in Nat /\ s <= seq
      BY DEF IInv, TypeOK, Kept
    <3>2. CASE s <= rendered
      BY <3>1, <3>2, Zenon DEF IInv, PubInv, TypeOK, Map, Rendered
    <3>3. CASE ~(s <= rendered)
      <4>1. n \in Changed
        BY <3>1, <3>3, Zenon DEF IInv, PubInv, Changed
      <4> QED
        BY <3>1, <4>1, Zenon DEF Rendered
    <3> QED
      BY <3>2, <3>3, Zenon
  <2>2. bootSeq <= seq
    BY DEF IInv, TypeOK, PubInv, Kept
  <2> QED
    BY <1>3, <2>1, <2>2 DEF PubInv, IInv, TypeOK, Rendered, Kept
<1> QED
  BY <1>t, <1>p, Zenon

\* No node is ahead of the publisher.
LEMMA HandlePast ==
  ASSUME IInv, Rendered, Kept, Enqueued
  PROVE  PastInv' /\ QueueInv' /\ KernelInv'
<1>a. PastInv'
  <2>1. \A n \in Secondaries : \A i \in 1..Len(down[n]) : down[n][i] \in Map
    BY DEF IInv, TypeOK
  <2>2. \A n \in Secondaries : \A i \in 1..Len(down[n]) :
          down[n][i].boot <= boot /\ (down[n][i].boot = boot => down[n][i].stamp <= maps'[n].stamp)
    BY <2>1, Names, SMTT(20) DEF IInv, PastInv, Map, Rendered
  <2> QED
    BY <2>2, Names DEF IInv, TypeOK, PastInv, Ours, Map, Rendered, Kept
<1>q. QueueInv'
  <2>1. ASSUME NEW x \in Sessions, NEW i \in 1..Len(queue'[x])
        PROVE  queue'[x][i].boot = boot' /\ queue'[x][i].stamp <= maps'[x[1]].stamp
    <3>1. x[1] \in Nodes /\ queue[x] \in Seq(Map) /\ maps'[x[1]] \in Map
      BY Names, Zenon DEF IInv, TypeOK, Rendered
    <3>2. (i \in 1..Len(queue[x]) /\ queue'[x][i] = queue[x][i]) \/ queue'[x][i] = maps'[x[1]]
      <4>1. queue'[x] = queue[x] \/ queue'[x] = Append(queue[x], maps'[x[1]])
        BY Zenon DEF Enqueued
      <4>2. Longer(Append(queue[x], maps'[x[1]]), queue[x], maps'[x[1]])
        BY <3>1, AppendIs, Zenon
      <4> QED
        BY <4>1, <4>2, Zenon DEF Longer
    <3>3. CASE i \in 1..Len(queue[x]) /\ queue'[x][i] = queue[x][i]
      <4>1. queue[x][i] \in Map /\ queue[x][i].boot = boot /\ queue[x][i].stamp <= maps[x[1]].stamp
        BY <3>1, <3>3 DEF IInv, QueueInv
      <4>2. maps[x[1]].stamp \in Nat /\ maps[x[1]].stamp <= maps'[x[1]].stamp /\ maps'[x[1]].stamp \in Nat
        BY <3>1, Zenon DEF Map, Rendered
      <4>3. queue[x][i].stamp \in Nat
        BY <4>1, Zenon DEF Map
      <4> QED
        BY <3>3, <4>1, <4>2, <4>3 DEF Kept
    <3>4. CASE queue'[x][i] = maps'[x[1]]
      <4>1. maps'[x[1]].stamp <= maps'[x[1]].stamp
        BY <3>1, SMTT(20) DEF Map
      <4> QED
        BY <3>1, <3>4, <4>1, Zenon DEF Rendered, Kept
    <3> QED
      BY <3>2, <3>3, <3>4, Zenon
  <2> QED
    BY <2>1, Zenon DEF IInv, QueueInv, Kept, Enqueued
<1>k. KernelInv'
  <2>1. \A n \in Secondaries : (Ours(kernel[n]) => Ours(cache[n]) /\ kernel[n].stamp <= cache[n].stamp)'
    BY Zenon DEF IInv, KernelInv, Ours, Kept
  <2> QED
    BY <2>1, Names DEF IInv, TypeOK, KernelInv, Ours, Map, Rendered, Kept, Enqueued
<1> QED
  BY <1>a, <1>q, <1>k, Zenon

\* A queued map is not older than what the secondary holds of ours.
LEMMA HandleLink ==
  ASSUME IInv, Rendered, Kept, Enqueued
  PROVE  LinkInv'
<1> SUFFICES ASSUME NEW n \in Secondaries, conn[n] # None
             PROVE  Link(n)'
  BY Zenon DEF LinkInv, Kept
<1> DEFINE x == <<n, conn[n]>>
<1>1. /\ Link(n) /\ n \in Nodes /\ x \in Sessions /\ x[1] = n
      /\ queue[x] \in Seq(Map) /\ maps'[n] \in Map /\ cache[n] \in Map \cup {None}
  BY Names DEF IInv, LinkInv, TypeOK, Rendered
<1> HIDE DEF x
<1>2. ASSUME Ours(cache[n]), fresh[n], live[x], NEW i \in 1..Len(queue'[x])
      PROVE  cache[n].stamp <= queue'[x][i].stamp
  <2>1. (i \in 1..Len(queue[x]) /\ queue'[x][i] = queue[x][i]) \/ queue'[x][i] = maps'[n]
    <3>1. queue'[x] = queue[x] \/ queue'[x] = Append(queue[x], maps'[n])
      BY <1>1, Zenon DEF Enqueued
    <3>2. Longer(Append(queue[x], maps'[n]), queue[x], maps'[n])
      BY <1>1, AppendIs, Zenon
    <3> QED
      BY <3>1, <3>2, Zenon DEF Longer
  <2>2. CASE i \in 1..Len(queue[x]) /\ queue'[x][i] = queue[x][i]
    <3>1. \A j \in 1..Len(queue[x]) : cache[n].stamp <= queue[x][j].stamp
      BY <1>1, <1>2, Zenon DEF Link, x
    <3> QED
      BY <2>2, <3>1, Zenon
  <2>3. CASE queue'[x][i] = maps'[n]
    <3>1. cache[n] \in Map /\ cache[n].stamp <= maps[n].stamp
      BY <1>1, <1>2, Zenon DEF IInv, PastInv, Ours
    <3> QED
      BY <2>3, <3>1, <1>1 DEF Map, Rendered
  <2> QED
    BY <2>1, <2>2, <2>3, Zenon
<1> QED
  BY <1>1, <1>2, Zenon DEF Link, x, Ours, Kept

\* The changed map is the newest of its stream.
LEMMA HandleStream ==
  ASSUME IInv, Rendered, Kept, Enqueued
  PROVE  StreamInv'
<1> SUFFICES ASSUME NEW n \in Secondaries, conn[n] # None
             PROVE  Flow(n)'
  BY Zenon DEF StreamInv, Kept
<1> DEFINE x == <<n, conn[n]>>
           m == maps'[n]
<1>1. /\ Flow(n) /\ Link(n) /\ n \in Nodes /\ x \in Sessions /\ x[1] = n
      /\ queue[x] \in Seq(Map) /\ m \in Map /\ maps[n] \in Map /\ cache[n] \in Map \cup {None}
      /\ down[n] \in Seq(Map) /\ fresh[n] \in BOOLEAN /\ (open[x] => live[x])
  <2>1. n \in Nodes /\ x \in Sessions /\ x[1] = n
    BY Names DEF IInv, TypeOK
  <2> QED
    BY <2>1, Zenon DEF IInv, LinkInv, StreamInv, QueueInv, TypeOK, Rendered
<1>2. \A i \in 1..Len(queue[x]) : queue[x][i].stamp <= maps[n].stamp
  BY <1>1, Zenon DEF IInv, QueueInv
<1>3. /\ open'[x] => open[x]
      /\ queue'[x] = queue[x] \/ (n \in Changed /\ queue'[x] = Append(queue[x], m))
      /\ open'[x] /\ n \in Changed => queue'[x] = Append(queue[x], m)
      /\ n \notin Changed => queue'[x] = queue[x]
  BY <1>1, Zenon DEF Enqueued
<1>4. /\ n \notin Changed => m = maps[n]
      /\ n \in Changed => maps[n].stamp < m.stamp
      /\ maps[n].stamp <= m.stamp
  BY <1>1, Zenon DEF Rendered
<1>5. live[x] => fresh[n] \/ (cache[n] \in Map /\ cache[n].stamp <= maps[n].stamp)
  BY <1>1, Zenon DEF Link, x, IInv, PastInv, Ours
<1>6. /\ live[x] => Rising(fresh[n], cache[n], down[n], queue[x], maps[n])
      /\ open[x] => Ends(fresh[n], cache[n], down[n], queue[x], maps[n])
  BY <1>1, Zenon DEF Flow, x
<1>7. x = <<n, conn'[n]>> /\ live' = live /\ down' = down /\ fresh' = fresh /\ cache' = cache
  BY Zenon DEF x, Kept
<1> HIDE DEF x, m
<1>8. live[x] /\ n \in Changed => Newest(fresh[n], cache[n], down[n], queue[x], maps[n], m)
  BY <1>1, <1>2, <1>4, <1>5, <1>6, Zenon DEF Newest
<1>9. live[x] => Rising(fresh[n], cache[n], down[n], queue'[x], m)
  <2>1. CASE live[x] /\ queue'[x] = queue[x]
    BY <1>1, <1>4, <1>6, <2>1, Raised, Zenon
  <2>2. CASE live[x] /\ n \in Changed /\ queue'[x] = Append(queue[x], m)
    BY <1>8, <2>2, Queued, Zenon
  <2> QED
    BY <1>3, <2>1, <2>2, Zenon
<1>10. open'[x] => Ends(fresh[n], cache[n], down[n], queue'[x], m)
  <2>1. CASE open'[x] /\ n \in Changed
    BY <1>1, <1>3, <1>8, <2>1, Queued, Zenon
  <2>2. CASE open'[x] /\ n \notin Changed
    BY <1>3, <1>4, <1>6, <2>2, Zenon
  <2> QED
    BY <2>1, <2>2, Zenon
<1> QED
  BY <1>7, <1>9, <1>10, FlowNext, Zenon DEF m

\* The commit handler renders: a changed map is newer than all that is on its way,
\* and is queued for every open subscription that has room.
LEMMA HandleStep ==
  ASSUME IInv, handle
  PROVE  IInv'
<1>1. Rendered /\ Kept
  BY HandleIs, Zenon
<1>2. Enqueued
  BY <1>1, EnqueueIs, Zenon
<1>3. TypeOK' /\ PubInv'
  BY <1>1, <1>2, HandlePub, Zenon
<1>4. PastInv' /\ QueueInv' /\ KernelInv'
  BY <1>1, <1>2, HandlePast, Zenon
<1>5. LinkInv' /\ StreamInv'
  BY <1>1, <1>2, HandleLink, HandleStream, Zenon
<1>6. ReportInv'
  BY <1>1, Frames, Zenon DEF IInv, Kept
<1> QED
  BY <1>3, <1>4, <1>5, <1>6, Zenon DEF IInv

\* A process that has just started: its memory is empty, every map is its own and
\* has the content of the rows, and the secondaries still hold what they held.
Booted ==
  /\ boot \in Nat /\ boot' = boot + 1 /\ seq' \in Nat /\ bootSeq' = seq' /\ rendered' = seq'
  /\ conn' = conn /\ fresh' = fresh /\ down' = down /\ cache' = cache /\ touched' = <<>>
  /\ live' = [x \in Sessions |-> FALSE] /\ kicked' = [x \in Sessions |-> FALSE]
  /\ open' = [x \in Sessions |-> FALSE]
  /\ queue' = [x \in Sessions |-> <<>>] /\ up' = [x \in Sessions |-> <<>>]
  /\ hand' = [x \in Sessions |-> None] /\ applied' = [n \in Nodes |-> None]
  /\ slot' = None /\ pending' = maps'[Primary]
  /\ content' \in [Nodes -> {0, 1}] /\ maps' \in [Nodes -> Map] /\ stamps' \in [Nodes -> Row]
  /\ \A n \in Nodes : /\ maps'[n].stamp \in Nat /\ maps'[n].stamp <= seq' /\ maps'[n].boot = boot'
                      /\ maps'[n].content = content'[n] /\ stamps'[n].stamp <= seq'
  /\ kernel' \in [Nodes -> Map \cup {None}]
  /\ \A n \in Nodes : kernel'[n] # None => kernel'[n] = kernel[n]

\* What seedLocked makes of rows and stamps that are not ahead of the sequence.
LEMMA BootIs ==
  ASSUME IInv, NEW atSeq \in Nat, NEW rows \in [Nodes -> {0, 1}], NEW persisted \in [Nodes -> Row],
         \A n \in Nodes : persisted[n].stamp <= atSeq, Boot(atSeq, rows, persisted),
         kernel' \in {kernel, [kernel EXCEPT ![Primary] = None]}
  PROVE  Booted
<1>1. /\ boot \in Nat /\ boot' = boot + 1 /\ seq' = atSeq /\ bootSeq' = atSeq /\ rendered' = atSeq
      /\ conn' = conn /\ fresh' = fresh /\ down' = down /\ cache' = cache /\ touched' = <<>>
      /\ live' = [x \in Sessions |-> FALSE] /\ kicked' = [x \in Sessions |-> FALSE]
      /\ open' = [x \in Sessions |-> FALSE]
      /\ queue' = [x \in Sessions |-> <<>>] /\ up' = [x \in Sessions |-> <<>>]
      /\ hand' = [x \in Sessions |-> None] /\ applied' = [n \in Nodes |-> None]
      /\ slot' = None /\ pending' = maps'[Primary] /\ content' = rows
  BY Zenon DEF Boot, seedLocked, secVars, IInv, TypeOK
<1>2. PICK saved \in BOOLEAN : seedLocked(atSeq, rows, persisted, saved)
  BY Zenon DEF Boot
<1>3. \A n \in Nodes : persisted[n].stamp \in Nat /\ rows[n] \in {0, 1}
  BY Zenon DEF Row
<1>4. /\ maps' \in [Nodes -> Map]
      /\ \A n \in Nodes : maps'[n].stamp \in Nat /\ maps'[n].stamp <= atSeq /\ maps'[n].boot = boot'
                          /\ maps'[n].content = rows[n]
  BY <1>1, <1>2, <1>3 DEF seedLocked, Map
<1>5. stamps' \in [Nodes -> Row] /\ \A n \in Nodes : stamps'[n].stamp <= atSeq
  <2>1. CASE saved
    BY <1>2, <1>3, <2>1 DEF seedLocked, Row
  <2>2. CASE ~saved
    BY <1>2, <2>2, Zenon DEF seedLocked
  <2> QED
    BY <2>1, <2>2, Zenon
<1>6. kernel' \in [Nodes -> Map \cup {None}] /\ \A n \in Nodes : kernel'[n] # None => kernel'[n] = kernel[n]
  <2>1. kernel \in [Nodes -> Map \cup {None}]
    BY Zenon DEF IInv, TypeOK
  <2> QED
    BY <2>1, Zenon
<1> QED
  BY <1>1, <1>4, <1>5, <1>6, Zenon DEF Booted

\* The state of a new process is well typed and its publisher up to date.
LEMMA BootPub ==
  ASSUME IInv, Booted
  PROVE  TypeOK' /\ PubInv' /\ QueueInv'
<1>1. /\ boot' \in Nat /\ seq' \in Nat /\ bootSeq' = seq' /\ rendered' = seq' /\ touched' = <<>>
      /\ queue' = [x \in Sessions |-> <<>>] /\ open' = [x \in Sessions |-> FALSE]
  BY DEF Booted
<1>2. DOMAIN touched' = bootSeq' + 1 .. seq' /\ \A s \in DOMAIN touched' : touched'[s] \subseteq Nodes
  <2>1. DOMAIN <<>> = {}
    OBVIOUS
  <2>2. \A k \in Nat : k + 1 .. k = {}
    OBVIOUS
  <2> QED
    BY <1>1, <2>1, <2>2, Zenon
<1>3. maps' \in [Nodes -> Map] /\ slot' \in Map \cup {None} /\ pending' \in Map \cup {None}
  BY Names, Zenon DEF Booted
<1>4. \A n \in Nodes : /\ maps'[n].stamp <= seq' /\ maps'[n].boot = boot'
                       /\ maps'[n].content = content'[n] /\ stamps'[n].stamp <= seq'
  BY Zenon DEF Booted
<1>5. /\ live' \in [Sessions -> BOOLEAN] /\ kicked' \in [Sessions -> BOOLEAN] /\ open' \in [Sessions -> BOOLEAN]
      /\ queue' \in [Sessions -> Seq(Map)] /\ up' \in [Sessions -> Seq(Status)]
      /\ hand' \in [Sessions -> Status \cup {None}] /\ applied' \in [Nodes -> Nat \cup {None}]
  BY DEF Booted
<1>6. /\ conn' \in [Secondaries -> Slots \cup {None}] /\ fresh' \in [Secondaries -> BOOLEAN]
      /\ down' \in [Secondaries -> Seq(Map)] /\ cache' \in [Secondaries -> Map \cup {None}]
  BY Zenon DEF Booted, IInv, TypeOK
<1>7. TypeOK'
  BY <1>1, <1>2, <1>3, <1>5, <1>6, Zenon DEF Booted, TypeOK
<1>8. PubInv'
  BY <1>1, <1>4 DEF PubInv
<1>9. QueueInv'
  BY <1>1 DEF QueueInv
<1> QED
  BY <1>7, <1>8, <1>9, Zenon

\* What the nodes hold is the work of earlier processes.
LEMMA BootPast ==
  ASSUME IInv, Booted
  PROVE  /\ \A n \in Nodes : ~(Ours(kernel[n]))'
         /\ \A n \in Secondaries : ~(Ours(cache[n]))'
         /\ PastInv'
<1>1. /\ boot \in Nat /\ boot' = boot + 1 /\ down' = down /\ cache' = cache
      /\ \A n \in Nodes : kernel'[n] # None => kernel'[n] = kernel[n]
      /\ kernel \in [Nodes -> Map \cup {None}] /\ cache \in [Secondaries -> Map \cup {None}]
      /\ down \in [Secondaries -> Seq(Map)]
  BY Zenon DEF Booted, IInv, TypeOK
<1>2. \A k \in Nat : k <= boot => k <= boot' /\ k # boot'
  BY <1>1
<1>3. \A n \in Nodes : kernel'[n] # None => kernel'[n].boot <= boot' /\ kernel'[n].boot # boot'
  <2>1. \A n \in Nodes : kernel[n] # None => kernel[n].boot \in Nat
    BY <1>1, Zenon DEF Map
  <2> QED
    BY <1>1, <1>2, <2>1, Zenon DEF IInv, PastInv
<1>4. \A n \in Secondaries : cache'[n] # None => cache'[n].boot <= boot' /\ cache'[n].boot # boot'
  <2>1. \A n \in Secondaries : cache[n] # None => cache[n].boot \in Nat
    BY <1>1, Zenon DEF Map
  <2> QED
    BY <1>1, <1>2, <2>1, Zenon DEF IInv, PastInv
<1>5. \A n \in Secondaries : \A i \in 1..Len(down'[n]) : down'[n][i].boot <= boot' /\ down'[n][i].boot # boot'
  <2>1. \A n \in Secondaries : \A i \in 1..Len(down[n]) : down[n][i] \in Map
    BY <1>1
  <2>2. \A n \in Secondaries : \A i \in 1..Len(down[n]) : down[n][i].boot \in Nat
    BY <2>1, Zenon DEF Map
  <2> QED
    BY <1>1, <1>2, <2>2, Zenon DEF IInv, PastInv
<1>6. (\A n \in Nodes : ~(Ours(kernel[n]))') /\ (\A n \in Secondaries : ~(Ours(cache[n]))')
  BY <1>3, <1>4, Zenon DEF Ours
<1> QED
  BY <1>3, <1>4, <1>5, <1>6, Zenon DEF PastInv

\* No session of the new process is live yet, and nothing was reported to it.
LEMMA BootStep ==
  ASSUME IInv, Booted
  PROVE  IInv'
<1>1. /\ TypeOK' /\ PubInv' /\ QueueInv' /\ PastInv'
      /\ \A n \in Nodes : ~(Ours(kernel[n]))'
      /\ \A n \in Secondaries : ~(Ours(cache[n]))'
  BY BootPub, BootPast, Zenon
<1>2. /\ conn' = conn /\ fresh' = fresh /\ down' = down /\ cache' = cache
      /\ conn \in [Secondaries -> Slots \cup {None}]
      /\ live' = [x \in Sessions |-> FALSE] /\ open' = [x \in Sessions |-> FALSE]
      /\ up' = [x \in Sessions |-> <<>>] /\ hand' = [x \in Sessions |-> None]
      /\ applied' = [n \in Nodes |-> None] /\ slot' = None /\ pending' = maps'[Primary]
  BY Zenon DEF Booted, IInv, TypeOK
<1>3. \A n \in Secondaries : conn[n] # None => ~live'[<<n, conn'[n]>>] /\ ~open'[<<n, conn'[n]>>]
  <2>1. \A n \in Secondaries : conn[n] # None => <<n, conn[n]>> \in Sessions
    BY <1>2, Zenon DEF Sessions
  <2> QED
    BY <1>2, <2>1, Zenon
<1>l. LinkInv'
  <2> SUFFICES ASSUME NEW n \in Secondaries, conn[n] # None
               PROVE  Link(n)'
    BY <1>2, Zenon DEF LinkInv
  <2>1. Link(n) /\ ~live'[<<n, conn'[n]>>] /\ ~(Ours(cache[n]))'
    BY <1>1, <1>3, Zenon DEF IInv, LinkInv
  <2> QED
    BY <1>2, <2>1, Zenon DEF Link
<1>s. StreamInv'
  <2> SUFFICES ASSUME NEW n \in Secondaries, conn[n] # None
               PROVE  Flow(n)'
    BY <1>2, Zenon DEF StreamInv
  <2> QED
    BY <1>3, FlowNext, Zenon
<1>k. KernelInv'
  <2>1. /\ \A n \in Secondaries : ~(Ours(kernel[n]))'
        /\ ~(Ours(kernel[Primary]))'
    BY <1>1, Names, Zenon
  <2>2. maps'[Primary].boot = boot' /\ maps'[Primary].stamp \in Nat
    BY Names, Zenon DEF Booted
  <2>3. maps'[Primary].stamp <= maps'[Primary].stamp
    BY <2>2
  <2> QED
    BY <1>2, <2>1, <2>2, <2>3, Zenon DEF KernelInv
<1>r. ReportInv'
  <2>1. /\ \A n \in Nodes : applied'[n] = None
        /\ \A x \in Sessions : hand'[x] = None /\ Len(up'[x]) = 0
    BY <1>2, Zenon
  <2>2. \A x \in Sessions : \A i \in 1..Len(up'[x]) : FALSE
    BY <2>1
  <2> QED
    BY <2>1, <2>2, Zenon DEF ReportInv
<1> QED
  BY <1>1, <1>l, <1>s, <1>k, <1>r, Zenon DEF IInv

\* The primary process restarts.
LEMMA RestartStep ==
  ASSUME IInv, Restart
  PROVE  IInv'
<1>1. /\ seq \in Nat /\ content \in [Nodes -> {0, 1}] /\ stamps \in [Nodes -> Row]
      /\ \A n \in Nodes : stamps[n].stamp <= seq
  BY DEF IInv, TypeOK, PubInv, Row
<1>2. Booted
  BY <1>1, BootIs, Zenon DEF Restart
<1> QED
  BY <1>2, BootStep, Zenon

\* The primary is restored from a backup.
LEMMA RestoreStep ==
  ASSUME IInv, Restore
  PROVE  IInv'
<1> DEFINE rows == [n \in Nodes |-> 0]
           persisted == [n \in Nodes |-> [stamp |-> 0, content |-> 0]]
<1>1. /\ rows \in [Nodes -> {0, 1}] /\ persisted \in [Nodes -> Row]
      /\ \A n \in Nodes : persisted[n].stamp <= 0
  BY DEF Row
<1>2. Boot(0, rows, persisted) /\ kernel' = [kernel EXCEPT ![Primary] = None]
  BY Zenon DEF Restore
<1> HIDE DEF rows, persisted
<1>3. Booted
  BY <1>1, <1>2, BootIs, Zenon
<1> QED
  BY <1>3, BootStep, Zenon

-----------------------------------------------------------------------------
(* The primary's end of a session.                                           *)

\* A secondary whose session, cache and wire a step leaves alone.
LEMMA NodeFrame ==
  ASSUME NEW n \in Secondaries, UNCHANGED <<boot, maps>>, UNCHANGED <<conn[n], fresh[n], down[n], cache[n]>>,
         UNCHANGED <<live[<<n, conn[n]>>], open[<<n, conn[n]>>], queue[<<n, conn[n]>>]>>
  PROVE  (Link(n) => Link(n)') /\ (Flow(n) => Flow(n)')
<1>1. Link(n) => Link(n)'
  <2>1. /\ live'[<<n, conn'[n]>>] = live[<<n, conn[n]>>] /\ open'[<<n, conn'[n]>>] = open[<<n, conn[n]>>]
        /\ queue'[<<n, conn'[n]>>] = queue[<<n, conn[n]>>]
    BY Zenon
  <2>2. /\ fresh'[n] = fresh[n] /\ down'[n] = down[n] /\ cache'[n] = cache[n]
        /\ maps' = maps /\ boot' = boot /\ Ours(cache[n])' = Ours(cache[n])
    BY Zenon DEF Ours
  <2> QED
    BY <2>1, <2>2, ZenonT(40) DEF Link
<1>2. Flow(n) => Flow(n)'
  BY FlowNext, Zenon DEF Flow
<1> QED
  BY <1>1, <1>2, Zenon

\* A session begins: its stream starts with the publisher's map.
LEMMA ConnectStep ==
  ASSUME IInv, NEW n \in Secondaries, NEW c \in Slots, Connect(n, c)
  PROVE  IInv'
<1> DEFINE x == <<n, c>>
<1>0. /\ x \in Sessions /\ x[1] = n /\ n \in Nodes /\ maps[n] \in Map /\ maps[n].boot = boot /\ maps[n].stamp \in Nat
      /\ cache[n] \in Map \cup {None} /\ boot \in Nat
  BY Names DEF IInv, TypeOK, PubInv, Map
<1>1. /\ UNCHANGED <<dbVars, pubVars, boot, maps, applied, hand, cache, localVars, kernel>>
      /\ conn[n] = None
      /\ conn' = [conn EXCEPT ![n] = c] /\ fresh' = [fresh EXCEPT ![n] = TRUE]
      /\ down' = [down EXCEPT ![n] = <<maps[n]>>] /\ live' = [live EXCEPT ![x] = TRUE]
      /\ open' = [open EXCEPT ![x] = TRUE] /\ queue' = [queue EXCEPT ![x] = <<>>]
      /\ up' = [up EXCEPT ![x] = IF cache[n] = None THEN <<>> ELSE <<[applied |-> 0, clean |-> TRUE]>>]
  BY Zenon DEF Connect, pubVars
<1>2. kicked' \in [Sessions -> BOOLEAN]
  BY Zenon DEF Connect
<1>3. /\ conn'[n] = c /\ fresh'[n] = TRUE /\ down'[n] = <<maps[n]>>
      /\ live'[x] = TRUE /\ open'[x] = TRUE /\ queue'[x] = <<>>
      /\ up'[x] = (IF cache[n] = None THEN <<>> ELSE <<[applied |-> 0, clean |-> TRUE]>>)
  BY <1>0, <1>1, Zenon DEF IInv, TypeOK
<1>4. /\ \A m \in Secondaries \ {n} : conn'[m] = conn[m] /\ fresh'[m] = fresh[m] /\ down'[m] = down[m]
      /\ \A y \in Sessions \ {x} : live'[y] = live[y] /\ open'[y] = open[y] /\ queue'[y] = queue[y] /\ up'[y] = up[y]
  <2>1. \A m \in Secondaries \ {n} : conn'[m] = conn[m] /\ fresh'[m] = fresh[m] /\ down'[m] = down[m]
    BY <1>1, Zenon DEF IInv, TypeOK
  <2> HIDE DEF x
  <2>2. \A y \in Sessions \ {x} : live'[y] = live[y] /\ open'[y] = open[y]
    BY <1>1, Zenon DEF IInv, TypeOK
  <2>3. \A y \in Sessions \ {x} : queue'[y] = queue[y] /\ up'[y] = up[y]
    BY <1>1, Zenon DEF IInv, TypeOK
  <2> QED
    BY <2>1, <2>2, <2>3, Zenon
<1> HIDE DEF x
<1>t. TypeOK'
  <2>1. up'[x] \in Seq(Status)
    <3>1. [applied |-> 0, clean |-> TRUE] \in Status
      BY Zenon DEF Status
    <3> QED
      BY <1>3, <3>1
  <2>2. up' \in [Sessions -> Seq(Status)]
    BY <1>0, <1>1, <2>1, Zenon DEF IInv, TypeOK
  <2>3. down' \in [Secondaries -> Seq(Map)]
    BY <1>0, <1>1 DEF IInv, TypeOK
  <2>4. /\ live' \in [Sessions -> BOOLEAN] /\ open' \in [Sessions -> BOOLEAN] /\ queue' \in [Sessions -> Seq(Map)]
        /\ conn' \in [Secondaries -> Slots \cup {None}] /\ fresh' \in [Secondaries -> BOOLEAN]
    BY <1>0, <1>1 DEF IInv, TypeOK
  <2> QED
    BY <1>1, <1>2, <2>2, <2>3, <2>4, Zenon DEF IInv, TypeOK, dbVars, pubVars, localVars
<1>f. PubInv' /\ KernelInv'
  BY Frames, <1>1, Zenon DEF IInv
<1>a. PastInv'
  <2>1. \A m \in Secondaries : \A i \in 1..Len(down'[m]) :
          down'[m][i].boot <= boot /\ (down'[m][i].boot = boot => down'[m][i].stamp <= maps[m].stamp)
    <3>1. \A i \in 1..Len(down'[n]) : down'[n][i] = maps[n]
      BY <1>3, One, ZenonT(40)
    <3>2. maps[n].boot <= boot /\ maps[n].stamp <= maps[n].stamp
      BY <1>0
    <3>3. \A m \in Secondaries \ {n} : \A i \in 1..Len(down'[m]) :
            down'[m][i].boot <= boot /\ (down'[m][i].boot = boot => down'[m][i].stamp <= maps[m].stamp)
      BY <1>4, Zenon DEF IInv, PastInv
    <3>4. \A i \in 1..Len(down'[n]) :
            down'[n][i].boot <= boot /\ (down'[n][i].boot = boot => down'[n][i].stamp <= maps[n].stamp)
      BY <3>1, <3>2, Zenon
    <3> QED
      BY <3>3, <3>4, Zenon
  <2> QED
    BY <1>1, <2>1, Zenon DEF IInv, PastInv, Ours
<1>q. QueueInv'
  BY <1>0, <1>1, <1>3, <1>4 DEF IInv, QueueInv
<1>5. ASSUME NEW m \in Secondaries, conn'[m] # None, m # n
      PROVE  Link(m)' /\ Flow(m)'
  <2>1. conn[m] # None /\ <<m, conn[m]>> \in Sessions \ {x}
    BY <1>4, <1>5, Names DEF IInv, TypeOK, x
  <2>2. Link(m) /\ Flow(m)
    BY <2>1, Zenon DEF IInv, LinkInv, StreamInv
  <2> QED
    BY <1>1, <1>4, <1>5, <2>1, <2>2, NodeFrame, ZenonT(40)
<1>6. Link(n)'
  <2>1. \A i \in 1..Len(down'[n]) : down'[n][i] = maps[n]
    BY <1>3, One, Zenon
  <2>2. cache'[n] = cache[n] /\ boot' = boot /\ <<n, conn'[n]>> = x
    BY <1>1, <1>3, Zenon DEF x
  <2>3. Ours(cache[n]) => cache[n].stamp <= maps[n].stamp
    BY Zenon DEF IInv, PastInv
  <2> QED
    BY <1>0, <1>3, <2>1, <2>2, <2>3 DEF Link, Ours
<1>7. Flow(n)'
  <2>1. <<n, conn'[n]>> = x /\ maps'[n] = maps[n]
    BY <1>1, <1>3, Zenon DEF x
  <2>2. /\ Rising(fresh'[n], cache'[n], down'[n], queue'[x], maps'[n])
        /\ Ends(fresh'[n], cache'[n], down'[n], queue'[x], maps'[n])
    BY <1>0, <1>3, <2>1, Begun, Zenon
  <2> QED
    BY <2>1, <2>2, FlowNext, Zenon
<1>l. LinkInv' /\ StreamInv'
  BY <1>5, <1>6, <1>7, Zenon DEF LinkInv, StreamInv
<1>r. ReportInv'
  <2>1. \A i \in 1..Len(up'[x]) : up'[x][i].applied = 0
    BY <1>3
  <2> QED
    BY <1>0, <1>1, <1>4, <2>1 DEF IInv, ReportInv, Acked, Ours
<1> QED
  BY <1>t, <1>f, <1>a, <1>q, <1>l, <1>r, Zenon DEF IInv

\* The response loop moves the first queued map to the wire: if the secondary is
\* still connected over this session the stream is the same, otherwise the map is
\* lost with the session.
LEMMA YieldStep ==
  ASSUME IInv, NEW n \in Secondaries, NEW c \in Slots, Yield(n, c)
  PROVE  IInv'
<1> DEFINE x == <<n, c>>
           h == Head(queue[x])
           r == Tail(queue[x])
<1>0. /\ x \in Sessions /\ x[1] = n /\ n \in Nodes /\ queue[x] \in Seq(Map) /\ down[n] \in Seq(Map)
      /\ cache[n] \in Map \cup {None}
  BY Names, Zenon DEF IInv, TypeOK
<1>1. /\ UNCHANGED <<dbVars, pubVars, boot, maps, applied, live, kicked, open, up, hand, conn, fresh, cache,
                    localVars, kernel>>
      /\ live[x] /\ queue[x] # <<>>
      /\ queue' = [queue EXCEPT ![x] = r]
      /\ down' = IF conn[n] = c THEN [down EXCEPT ![n] = Append(down[n], h)] ELSE down
  BY Zenon DEF Yield, pubVars
<1>2. /\ h \in Map /\ h = queue[x][1] /\ 1 \in 1..Len(queue[x]) /\ r \in Seq(Map)
      /\ \A i \in 1..Len(r) : i + 1 \in 1..Len(queue[x]) /\ r[i] = queue[x][i + 1]
  BY <1>0, <1>1, TailIs, Zenon
<1>3. h.boot = boot /\ h.stamp <= maps[n].stamp /\ h.stamp \in Nat
  <2>1. h.boot = boot /\ h.stamp <= maps[n].stamp
    BY <1>0, <1>2, Zenon DEF IInv, QueueInv
  <2> QED
    BY <1>2, <2>1, Zenon DEF Map
<1> HIDE DEF x, h, r
<1>4. queue' \in [Sessions -> Seq(Map)] /\ queue'[x] = r /\ \A y \in Sessions \ {x} : queue'[y] = queue[y]
  BY <1>0, <1>1, <1>2, Zenon DEF IInv, TypeOK
<1>5. /\ down' \in [Secondaries -> Seq(Map)] /\ \A m \in Secondaries \ {n} : down'[m] = down[m]
      /\ conn[n] = c => down'[n] = Append(down[n], h)
      /\ conn[n] # c => down'[n] = down[n]
  <2>1. down \in [Secondaries -> Seq(Map)] /\ Append(down[n], h) \in Seq(Map)
    BY <1>0, <1>2 DEF IInv, TypeOK
  <2> QED
    BY <1>1, <2>1, Zenon
<1>6. \A i \in 1..Len(down'[n]) : (i \in 1..Len(down[n]) /\ down'[n][i] = down[n][i])
                                   \/ (conn[n] = c /\ down'[n][i] = h)
  <2>1. Longer(Append(down[n], h), down[n], h)
    BY <1>0, <1>2, AppendIs, Zenon
  <2> QED
    BY <1>5, <2>1, Zenon DEF Longer
<1>t. TypeOK'
  BY <1>1, <1>4, <1>5, Zenon DEF IInv, TypeOK, dbVars, pubVars, localVars
<1>f. PubInv' /\ KernelInv' /\ ReportInv'
  BY Frames, <1>1, Zenon DEF IInv
<1>a. PastInv'
  <2>1. \A m \in Secondaries : \A i \in 1..Len(down'[m]) :
          down'[m][i].boot <= boot /\ (down'[m][i].boot = boot => down'[m][i].stamp <= maps[m].stamp)
    <3>1. \A i \in 1..Len(down[n]) :
            down[n][i].boot <= boot /\ (down[n][i].boot = boot => down[n][i].stamp <= maps[n].stamp)
      BY Zenon DEF IInv, PastInv
    <3>2. boot \in Nat
      BY Zenon DEF IInv, TypeOK
    <3>3. \A i \in 1..Len(down'[n]) :
            down'[n][i].boot <= boot /\ (down'[n][i].boot = boot => down'[n][i].stamp <= maps[n].stamp)
      <4>1. h.boot <= boot
        BY <1>3, <3>2, SMTT(20)
      <4> QED
        BY <3>1, <4>1, <1>3, <1>6, Zenon
    <3> QED
      BY <3>3, <1>5, Zenon DEF IInv, PastInv
  <2> QED
    BY <1>1, <2>1, Zenon DEF IInv, PastInv, Ours
<1>q. QueueInv'
  <2>1. \A i \in 1..Len(r) : r[i].boot = boot /\ r[i].stamp <= maps[n].stamp
    BY <1>0, <1>2, Zenon DEF IInv, QueueInv
  <2> QED
    BY <1>0, <1>1, <1>4, <2>1, Zenon DEF IInv, QueueInv
<1>7. ASSUME NEW m \in Secondaries, conn[m] # None, <<m, conn[m]>> # x
      PROVE  Link(m)' /\ Flow(m)'
  <2>1. <<m, conn[m]>> \in Sessions /\ (m = n => conn[n] # c)
    BY <1>7, Names DEF IInv, TypeOK, x
  <2>2. Link(m) /\ Flow(m) /\ down'[m] = down[m]
    BY <1>5, <1>7, <2>1, Zenon DEF IInv, LinkInv, StreamInv
  <2> QED
    BY <1>1, <1>4, <1>7, <2>1, <2>2, NodeFrame, Zenon
<1>8. ASSUME conn[n] = c
      PROVE  Link(n)' /\ Flow(n)'
  <2>1. <<n, conn[n]>> = x /\ conn[n] # None /\ live[x]
    BY <1>1, <1>8, BarrierAssumption, Zenon DEF x
  <2>2. Link(n) /\ Flow(n)
    BY <2>1, Zenon DEF IInv, LinkInv, StreamInv
  <2>3. /\ \A i \in 1..Len(down[n]) : down[n][i].boot = boot
        /\ ~fresh[n] => cache[n] # None /\ cache[n].boot = boot
        /\ Ours(cache[n]) /\ fresh[n] => /\ \A i \in 1..Len(down[n]) : cache[n].stamp <= down[n][i].stamp
                                         /\ \A i \in 1..Len(queue[x]) : cache[n].stamp <= queue[x][i].stamp
    BY <2>1, <2>2, Zenon DEF Link
  <2>4. \A i \in 1..Len(down'[n]) : down'[n][i].boot = boot
    BY <1>3, <1>6, <2>3, Zenon
  <2>5. <<n, conn'[n]>> = x /\ live'[x] /\ open'[x] = open[x] /\ queue'[x] = r /\ boot' = boot
        /\ cache'[n] = cache[n] /\ fresh'[n] = fresh[n] /\ maps'[n] = maps[n]
    BY <1>1, <1>4, <2>1, Zenon
  <2>6. Link(n)'
    <3>1. ASSUME Ours(cache[n]), fresh[n]
          PROVE  /\ \A i \in 1..Len(down'[n]) : cache[n].stamp <= down'[n][i].stamp
                 /\ \A i \in 1..Len(r) : cache[n].stamp <= r[i].stamp
      <4>1. cache[n].stamp <= h.stamp
        BY <1>2, <2>3, <3>1, Zenon
      <4>2. \A i \in 1..Len(down'[n]) : cache[n].stamp <= down'[n][i].stamp
        BY <1>6, <2>3, <3>1, <4>1, Zenon
      <4>3. \A i \in 1..Len(r) : cache[n].stamp <= r[i].stamp
        BY <1>2, <2>3, <3>1, Zenon
      <4> QED
        BY <4>2, <4>3, Zenon
    <3>2. Ours(cache[n])' <=> Ours(cache[n])
      BY <2>5, Zenon DEF Ours
    <3> QED
      BY <2>3, <2>4, <2>5, <3>1, <3>2, Zenon DEF Link
  <2>7. /\ Rising(fresh[n], cache[n], down[n], queue[x], maps[n])
        /\ open[x] => Ends(fresh[n], cache[n], down[n], queue[x], maps[n])
    BY <2>1, <2>2, Zenon DEF Flow
  <2>8. maps[n] \in Map /\ fresh[n] \in BOOLEAN /\ h.stamp <= maps[n].stamp
    BY <1>0, <1>3, Zenon DEF IInv, TypeOK
  <2>9. /\ Rising(fresh[n], cache[n], Append(down[n], h), r, maps[n])
        /\ open[x] => Ends(fresh[n], cache[n], Append(down[n], h), r, maps[n])
    BY <1>0, <1>1, <2>7, <2>8, Sent, Zenon DEF h, r
  <2>10. Flow(n)'
    BY <1>5, <1>8, <2>5, <2>9, FlowNext, Zenon
  <2> QED
    BY <2>6, <2>10, Zenon
<1>l. LinkInv' /\ StreamInv'
  BY <1>1, <1>7, <1>8, Zenon DEF LinkInv, StreamInv, x
<1> QED
  BY <1>t, <1>f, <1>a, <1>q, <1>l, Zenon DEF IInv

\* The reader decodes a status.
LEMMA ReadStep ==
  ASSUME IInv, NEW n \in Secondaries, NEW c \in Slots, Read(n, c)
  PROVE  IInv'
<1> DEFINE x == <<n, c>>
<1>0. /\ x \in Sessions /\ up[x] \in Seq(Status) /\ up[x] # <<>>
      /\ hand' = [hand EXCEPT ![x] = Head(up[x])] /\ up' = [up EXCEPT ![x] = Tail(up[x])]
      /\ UNCHANGED <<dbVars, pubVars, boot, maps, applied, live, kicked, open, queue, secVars, localVars, kernel>>
  BY Names, Zenon DEF IInv, TypeOK, Read, pubVars
<1> HIDE DEF x
<1>1. /\ Head(up[x]) \in Status /\ Head(up[x]) = up[x][1] /\ 1 \in 1..Len(up[x]) /\ Tail(up[x]) \in Seq(Status)
      /\ \A i \in 1..Len(Tail(up[x])) : i + 1 \in 1..Len(up[x]) /\ Tail(up[x])[i] = up[x][i + 1]
  BY <1>0, TailIs, Zenon
<1>2. /\ hand' \in [Sessions -> Status \cup {None}] /\ up' \in [Sessions -> Seq(Status)]
      /\ hand'[x] = Head(up[x]) /\ up'[x] = Tail(up[x])
      /\ \A y \in Sessions \ {x} : hand'[y] = hand[y] /\ up'[y] = up[y]
  <2>1. hand \in [Sessions -> Status \cup {None}] /\ up \in [Sessions -> Seq(Status)]
    BY Zenon DEF IInv, TypeOK
  <2> QED
    BY <1>0, <1>1, <2>1, Zenon
<1>t. TypeOK'
  BY <1>0, <1>2, Zenon DEF IInv, TypeOK, dbVars, pubVars, secVars, localVars
<1>f. PubInv' /\ PastInv' /\ QueueInv' /\ LinkInv' /\ StreamInv' /\ KernelInv'
  BY Frames, <1>0, Zenon DEF IInv, secVars, localVars
<1>r. ReportInv'
  <2>1. boot' = boot /\ kernel' = kernel /\ applied' = applied
    BY <1>0, Zenon
  <2>2. \A y \in Sessions : /\ \A i \in 1..Len(up[y]) : up[y][i].clean => Acked(y[1], up[y][i].applied)
                            /\ hand[y] # None /\ hand[y].clean => Acked(y[1], hand[y].applied)
    BY Zenon DEF IInv, ReportInv
  <2>3. \A y \in Sessions : /\ \A i \in 1..Len(up'[y]) : up'[y][i].clean => Acked(y[1], up'[y][i].applied)
                            /\ hand'[y] # None /\ hand'[y].clean => Acked(y[1], hand'[y].applied)
    <3>1. \A i \in 1..Len(up'[x]) : up'[x][i].clean => Acked(x[1], up'[x][i].applied)
      BY <1>0, <1>1, <1>2, <2>2
    <3>2. hand'[x].clean => Acked(x[1], hand'[x].applied)
      BY <1>0, <1>1, <1>2, <2>2
    <3> QED
      BY <1>2, <2>2, <3>1, <3>2, Zenon
  <2> QED
    BY <2>1, <2>3, Zenon DEF IInv, ReportInv, Acked, Ours
<1> QED
  BY <1>t, <1>f, <1>r, Zenon DEF IInv

\* RecordApplied keeps a stamp the node has programmed.
LEMMA RecordAppliedIs ==
  ASSUME applied \in [Nodes -> Nat \cup {None}], NEW n \in Nodes, NEW k \in Nat, RecordApplied(n, k)
  PROVE  /\ applied' \in [Nodes -> Nat \cup {None}]
         /\ applied'[n] \in {applied[n], k}
         /\ \A m \in Nodes \ {n} : applied'[m] = applied[m]
BY Names, Zenon DEF RecordApplied

\* The status is handled: the stamp of a clean one counts.
LEMMA HandleIncomingStep ==
  ASSUME IInv, NEW n \in Secondaries, NEW c \in Slots, handleIncoming(n, c)
  PROVE  IInv'
<1> DEFINE x == <<n, c>>
<1>0. /\ x \in Sessions /\ x[1] = n /\ n \in Nodes /\ hand[x] # None /\ hand[x] \in Status \cup {None}
      /\ hand' = [hand EXCEPT ![x] = None]
      /\ IF hand[x].clean THEN RecordApplied(n, hand[x].applied) ELSE applied' = applied
      /\ UNCHANGED <<dbVars, pubVars, boot, maps, live, kicked, open, queue, up, secVars, localVars, kernel>>
  BY Names, Zenon DEF IInv, TypeOK, handleIncoming, pubVars
<1> HIDE DEF x
<1>1. hand[x].applied \in Nat
  BY <1>0, Zenon DEF Status
<1>2. /\ applied' \in [Nodes -> Nat \cup {None}]
      /\ applied'[n] = applied[n] \/ (hand[x].clean /\ applied'[n] = hand[x].applied)
      /\ \A m \in Nodes \ {n} : applied'[m] = applied[m]
  <2>1. applied \in [Nodes -> Nat \cup {None}]
    BY Zenon DEF IInv, TypeOK
  <2>2. CASE hand[x].clean
    BY <1>0, <1>1, <2>1, <2>2, RecordAppliedIs, Zenon
  <2>3. CASE ~hand[x].clean
    BY <1>0, <2>1, <2>3, Zenon
  <2> QED
    BY <2>2, <2>3, Zenon
<1>3. hand' \in [Sessions -> Status \cup {None}] /\ \A y \in Sessions : hand'[y] # None => hand'[y] = hand[y]
  <2>1. hand \in [Sessions -> Status \cup {None}]
    BY Zenon DEF IInv, TypeOK
  <2> QED
    BY <1>0, <2>1, Zenon
<1>t. TypeOK'
  BY <1>0, <1>2, <1>3, Zenon DEF IInv, TypeOK, dbVars, pubVars, secVars, localVars
<1>f. PubInv' /\ PastInv' /\ QueueInv' /\ LinkInv' /\ StreamInv' /\ KernelInv'
  BY Frames, <1>0, Zenon DEF IInv, secVars, localVars
<1>r. ReportInv'
  <2>1. boot' = boot /\ kernel' = kernel /\ up' = up
    BY <1>0, Zenon
  <2>2. \A m \in Nodes : applied'[m] # None => Acked(m, applied'[m])
    BY <1>0, <1>2, Zenon DEF IInv, ReportInv
  <2>3. \A y \in Sessions : hand'[y] # None /\ hand'[y].clean => Acked(y[1], hand'[y].applied)
    BY <1>3, Zenon DEF IInv, ReportInv
  <2> QED
    BY <2>1, <2>2, <2>3, Zenon DEF IInv, ReportInv, Acked, Ours
<1> QED
  BY <1>t, <1>f, <1>r, Zenon DEF IInv

\* A session ends at the primary: nothing is known of the node any more.
LEMMA EndStep ==
  ASSUME IInv, NEW n \in Secondaries, NEW c \in Slots, End(n, c)
  PROVE  IInv'
<1> DEFINE x == <<n, c>>
<1>0. /\ x \in Sessions /\ n \in Nodes
      /\ UNCHANGED <<dbVars, pubVars, boot, maps, hand, conn, fresh, down, cache, secVars, localVars, kernel>>
      /\ live' = [live EXCEPT ![x] = FALSE] /\ open' = [open EXCEPT ![x] = FALSE]
      /\ kicked' = [kicked EXCEPT ![x] = FALSE]
      /\ queue' = [queue EXCEPT ![x] = <<>>] /\ up' = [up EXCEPT ![x] = <<>>]
      /\ applied' = [applied EXCEPT ![n] = None]
  BY Names, Zenon DEF End, pubVars, secVars
<1> HIDE DEF x
<1>1. /\ live' \in [Sessions -> BOOLEAN] /\ kicked' \in [Sessions -> BOOLEAN] /\ open' \in [Sessions -> BOOLEAN]
      /\ ~live'[x] /\ ~open'[x]
      /\ \A y \in Sessions \ {x} : live'[y] = live[y] /\ open'[y] = open[y]
  BY <1>0, Zenon DEF IInv, TypeOK
<1>2. /\ queue' \in [Sessions -> Seq(Map)] /\ up' \in [Sessions -> Seq(Status)]
      /\ Len(queue'[x]) = 0 /\ Len(up'[x]) = 0
      /\ \A y \in Sessions \ {x} : queue'[y] = queue[y] /\ up'[y] = up[y]
  BY <1>0 DEF IInv, TypeOK
<1>3. applied' \in [Nodes -> Nat \cup {None}] /\ \A m \in Nodes : applied'[m] # None => applied'[m] = applied[m]
  <2>1. applied \in [Nodes -> Nat \cup {None}]
    BY Zenon DEF IInv, TypeOK
  <2> QED
    BY <1>0, <2>1, Zenon
<1>t. TypeOK'
  BY <1>0, <1>1, <1>2, <1>3, Zenon DEF IInv, TypeOK, dbVars, pubVars, localVars
<1>f. PubInv' /\ PastInv' /\ KernelInv'
  BY Frames, <1>0, Zenon DEF IInv
<1>q. QueueInv'
  BY <1>0, <1>1, <1>2, SMTT(20) DEF IInv, QueueInv
<1>4. ASSUME NEW m \in Secondaries, conn[m] # None
      PROVE  Link(m)' /\ Flow(m)'
  <2>1. Link(m) /\ Flow(m) /\ <<m, conn[m]>> \in Sessions
    BY <1>4, Names DEF IInv, TypeOK, LinkInv, StreamInv
  <2>2. CASE <<m, conn[m]>> # x
    BY <1>0, <1>1, <1>2, <2>1, <2>2, NodeFrame, Zenon
  <2>3. CASE <<m, conn[m]>> = x
    <3>1. <<m, conn'[m]>> = x /\ ~live'[x] /\ ~open'[x]
      BY <1>0, <1>1, <2>3, Zenon
    <3>2. Flow(m)'
      BY <3>1, FlowNext, Zenon
    <3>3. Link(m)'
      BY <1>0, <2>1, <3>1, Zenon DEF Link, Ours
    <3> QED
      BY <3>2, <3>3, Zenon
  <2> QED
    BY <2>2, <2>3, Zenon
<1>l. LinkInv' /\ StreamInv'
  BY <1>0, <1>4, Zenon DEF LinkInv, StreamInv
<1>r. ReportInv'
  <2>1. \A y \in Sessions : \A i \in 1..Len(up'[y]) : up'[y] = up[y]
    BY <1>2
  <2>2. boot' = boot /\ kernel' = kernel /\ hand' = hand
    BY <1>0, Zenon
  <2> QED
    BY <1>3, <2>1, <2>2, Zenon DEF IInv, ReportInv, Acked, Ours
<1> QED
  BY <1>t, <1>f, <1>q, <1>l, <1>r, Zenon DEF IInv

-----------------------------------------------------------------------------
(* The secondaries.                                                          *)

\* The node's kernel keeps a map of ours, or takes a newer one of ours.
Ahead(n) ==
  Ours(kernel[n]) => kernel'[n] # None /\ kernel'[n].boot = boot /\ kernel[n].stamp <= kernel'[n].stamp

\* Acked after the step, of a stamp known before it.
AckedNext(n, k) == k > 0 => kernel'[n] # None /\ kernel'[n].boot = boot /\ k <= kernel'[n].stamp

\* What a node has acknowledged stays true while its kernel moves forward.
LEMMA AckedKept ==
  ASSUME NEW n, kernel[n] \in Map \cup {None}, kernel'[n] \in Map \cup {None}, Ahead(n),
         NEW k \in Nat, Acked(n, k)
  PROVE  AckedNext(n, k)
<1> SUFFICES ASSUME k > 0
             PROVE  AckedNext(n, k)
  BY Zenon DEF AckedNext
<1>1. Ours(kernel[n]) /\ k <= kernel[n].stamp
  BY Zenon DEF Acked
<1>2. /\ kernel[n].stamp \in Nat /\ kernel'[n] # None /\ kernel'[n].stamp \in Nat
      /\ kernel'[n].boot = boot /\ kernel[n].stamp <= kernel'[n].stamp
  BY <1>1, Zenon DEF Ahead, Ours, Map
<1> QED
  BY <1>1, <1>2 DEF AckedNext

\* So do all the stamps reported, on the wire, decoded and counted.
LEMMA ReportKept ==
  ASSUME TypeOK, ReportInv, kernel' \in [Nodes -> Map \cup {None}], \A n \in Nodes : Ahead(n)
  PROVE  /\ \A n \in Nodes : applied[n] # None => AckedNext(n, applied[n])
         /\ \A x \in Sessions :
              /\ \A i \in 1..Len(up[x]) : up[x][i].clean => AckedNext(x[1], up[x][i].applied)
              /\ hand[x] # None /\ hand[x].clean => AckedNext(x[1], hand[x].applied)
<1>1. \A n \in Nodes, k \in Nat : Acked(n, k) => AckedNext(n, k)
  BY AckedKept, Zenon DEF TypeOK
<1>2. \A n \in Nodes : applied[n] # None => AckedNext(n, applied[n])
  <2>1. \A n \in Nodes : applied[n] # None => applied[n] \in Nat /\ Acked(n, applied[n])
    BY Zenon DEF TypeOK, ReportInv
  <2> QED
    BY <1>1, <2>1, Zenon
<1>3. ASSUME NEW x \in Sessions
      PROVE  /\ \A i \in 1..Len(up[x]) : up[x][i].clean => AckedNext(x[1], up[x][i].applied)
             /\ hand[x] # None /\ hand[x].clean => AckedNext(x[1], hand[x].applied)
  <2>1. x[1] \in Nodes /\ hand[x] \in Status \cup {None} /\ up[x] \in Seq(Status)
    BY Names, Zenon DEF TypeOK
  <2>2. \A i \in 1..Len(up[x]) : up[x][i] \in Status
    BY <2>1
  <2>3. /\ \A i \in 1..Len(up[x]) : up[x][i].applied \in Nat
        /\ hand[x] # None => hand[x].applied \in Nat
    BY <2>1, <2>2, Zenon DEF Status
  <2>4. /\ \A i \in 1..Len(up[x]) : up[x][i].clean => Acked(x[1], up[x][i].applied)
        /\ hand[x] # None /\ hand[x].clean => Acked(x[1], hand[x].applied)
    BY Zenon DEF ReportInv
  <2> QED
    BY <1>1, <2>1, <2>3, <2>4, Zenon
<1> QED
  BY <1>2, <1>3, Zenon

\* A secondary leaves its session: what was on the wire is lost.
LEMMA LeaveStep ==
  ASSUME IInv, NEW n \in Secondaries,
         UNCHANGED <<dbVars, pubVars, applied, sessVars, fresh, cache, localVars>>,
         conn' = [conn EXCEPT ![n] = None], down' = [down EXCEPT ![n] = <<>>],
         kernel' = kernel \/ (cache[n] # None /\ kernel' = [kernel EXCEPT ![n] = cache[n]])
  PROVE  IInv' /\ \A m \in Nodes : Ahead(m)
<1>0. /\ boot' = boot /\ maps' = maps /\ live' = live /\ open' = open /\ queue' = queue /\ up' = up /\ hand' = hand
      /\ kicked' = kicked /\ fresh' = fresh /\ cache' = cache /\ slot' = slot /\ pending' = pending
      /\ applied' = applied
  BY Zenon DEF pubVars, sessVars, localVars
<1>1. /\ conn' \in [Secondaries -> Slots \cup {None}] /\ conn'[n] = None
      /\ \A m \in Secondaries \ {n} : conn'[m] = conn[m]
  BY Zenon DEF IInv, TypeOK
<1>2. /\ down' \in [Secondaries -> Seq(Map)] /\ Len(down'[n]) = 0
      /\ \A m \in Secondaries \ {n} : down'[m] = down[m]
  BY SMTT(20) DEF IInv, TypeOK
<1>3. /\ kernel \in [Nodes -> Map \cup {None}] /\ cache[n] \in Map \cup {None} /\ boot \in Nat
      /\ n \in Nodes /\ n # Primary /\ Primary \in Nodes
  BY Names, Zenon DEF IInv, TypeOK
<1>4. /\ kernel' \in [Nodes -> Map \cup {None}]
      /\ kernel'[n] = kernel[n] \/ (cache[n] # None /\ kernel'[n] = cache[n])
      /\ \A m \in Nodes \ {n} : kernel'[m] = kernel[m]
  BY <1>3, Zenon
<1>5. /\ Ours(kernel[n]) => Ours(cache[n]) /\ kernel[n].stamp <= cache[n].stamp
      /\ cache[n] # None => cache[n].boot <= boot
  BY Zenon DEF IInv, KernelInv, PastInv
<1>6. ASSUME NEW m \in Nodes
      PROVE  Ahead(m)
  <2>1. CASE kernel'[m] = kernel[m]
    BY <1>3, <2>1 DEF Ahead, Ours, Map
  <2>2. CASE m = n /\ cache[n] # None /\ kernel'[n] = cache[n]
    BY <1>5, <2>2, Zenon DEF Ahead, Ours
  <2> QED
    BY <1>4, <2>1, <2>2, Zenon
<1>t. TypeOK'
  BY <1>0, <1>1, <1>2, <1>4, Zenon DEF IInv, TypeOK, dbVars, pubVars
<1>p. PubInv'
  BY Frames, Zenon DEF IInv
<1>a. PastInv'
  <2>1. \A m \in Nodes : kernel'[m] # None => kernel'[m].boot <= boot
    BY <1>4, <1>5, Zenon DEF IInv, PastInv
  <2>2. \A m \in Secondaries : \A i \in 1..Len(down'[m]) :
          down'[m][i].boot <= boot /\ (down'[m][i].boot = boot => down'[m][i].stamp <= maps[m].stamp)
    BY <1>2 DEF IInv, PastInv
  <2> QED
    BY <1>0, <2>1, <2>2 DEF IInv, PastInv, Ours
<1>q. QueueInv'
  BY <1>0, Frames, Zenon DEF IInv
<1>l. LinkInv' /\ StreamInv'
  <2> SUFFICES ASSUME NEW m \in Secondaries, conn'[m] # None
               PROVE  Link(m)' /\ Flow(m)'
    BY Zenon DEF LinkInv, StreamInv
  <2>1. m # n /\ conn[m] # None /\ Link(m) /\ Flow(m)
    BY <1>1, Zenon DEF IInv, LinkInv, StreamInv
  <2> QED
    BY <1>0, <1>1, <1>2, <2>1, NodeFrame, Zenon
<1>k. KernelInv'
  <2>1. \A m \in Secondaries : (Ours(kernel[m]))' => (Ours(cache[m]))' /\ kernel'[m].stamp <= cache'[m].stamp
    <3>1. (Ours(kernel[n]))' => (Ours(cache[n]))' /\ kernel'[n].stamp <= cache'[n].stamp
      <4>1. CASE kernel'[n] = kernel[n]
        BY <1>0, <1>5, <4>1, Zenon DEF Ours
      <4>2. CASE cache[n] # None /\ kernel'[n] = cache[n]
        BY <1>0, <1>3, <4>2 DEF Ours, Map
      <4> QED
        BY <1>4, <4>1, <4>2, Zenon
    <3>2. \A m \in Secondaries \ {n} : kernel'[m] = kernel[m]
      BY <1>4, Names, Zenon
    <3> QED
      BY <1>0, <3>1, <3>2, Zenon DEF IInv, KernelInv, Ours
  <2>2. kernel'[Primary] = kernel[Primary]
    BY <1>3, <1>4, Zenon
  <2> QED
    BY <1>0, <2>1, <2>2, Zenon DEF IInv, KernelInv, Ours
<1>r. ReportInv'
  <2>1. TypeOK /\ ReportInv
    BY Zenon DEF IInv
  <2> QED
    BY <1>0, <1>4, <1>6, <2>1, ReportKept, Zenon DEF ReportInv, Acked, AckedNext, Ours
<1> QED
  BY <1>t, <1>p, <1>a, <1>q, <1>l, <1>k, <1>r, <1>6, Zenon DEF IInv

\* The connection ends, or the secondary restarts with what it has cached.
LEMMA DisconnectStep ==
  ASSUME IInv, NEW n \in Secondaries, Disconnect(n) \/ SecondaryRestart(n)
  PROVE  IInv' /\ \A m \in Nodes : Ahead(m)
<1>1. kernel' = kernel \/ (cache[n] # None /\ kernel' = [kernel EXCEPT ![n] = cache[n]])
  BY Zenon DEF Disconnect, SecondaryRestart
<1>2. /\ UNCHANGED <<dbVars, pubVars, applied, sessVars, fresh, cache, localVars>>
      /\ conn' = [conn EXCEPT ![n] = None] /\ down' = [down EXCEPT ![n] = <<>>]
  BY Zenon DEF Disconnect, SecondaryRestart
<1> QED
  BY <1>1, <1>2, LeaveStep, Zenon

------------------------------------------------------------------------------
(* A secondary takes a map.                                                  *)

\* The statuses on the wires after a report, if the session is live.
Reported(n, k, clean) ==
  /\ up' \in [Sessions -> Seq(Status)]
  /\ \A y \in Sessions : \A i \in 1..Len(up'[y]) :
       \/ i \in 1..Len(up[y]) /\ up'[y][i] = up[y][i]
       \/ y = <<n, conn[n]>> /\ live[y] /\ up'[y][i] = [applied |-> k, clean |-> clean]

\* A status that is sent follows those on the wire of a live session.
LEMMA ReportIs ==
  ASSUME TypeOK, NEW n \in Secondaries, conn[n] # None, NEW k \in Nat, NEW clean \in BOOLEAN,
         Report(n, k, clean)
  PROVE  Reported(n, k, clean)
<1> DEFINE x == <<n, conn[n]>>
           s == [applied |-> k, clean |-> clean]
<1>1. x \in Sessions /\ s \in Status /\ up \in [Sessions -> Seq(Status)]
  BY Names DEF TypeOK, Status
<1>2. up' = IF live[x] THEN [up EXCEPT ![x] = Append(up[x], s)] ELSE up
  BY Zenon DEF Report
<1> HIDE DEF x, s
<1>3. CASE live[x]
  <2>1. /\ up' \in [Sessions -> Seq(Status)] /\ up'[x] = Append(up[x], s)
        /\ \A y \in Sessions \ {x} : up'[y] = up[y]
    BY <1>1, <1>2, <1>3
  <2>2. ASSUME NEW y \in Sessions, NEW i \in 1..Len(up'[y])
        PROVE  \/ i \in 1..Len(up[y]) /\ up'[y][i] = up[y][i]
               \/ y = x /\ live[y] /\ up'[y][i] = s
    <3>1. CASE y = x
      <4>1. Longer(up'[x], up[x], s)
        BY <1>1, <2>1, AppendIs, Zenon
      <4> QED
        BY <1>3, <3>1, <4>1, Zenon DEF Longer
    <3>2. CASE y # x
      BY <2>1, <3>2, Zenon
    <3> QED
      BY <3>1, <3>2, Zenon
  <2> QED
    BY <2>1, <2>2, Zenon DEF x, s, Reported
<1>4. CASE ~live[x]
  BY <1>1, <1>2, <1>4, Zenon DEF Reported
<1> QED
  BY <1>3, <1>4, Zenon

\* What is known of the first map on the wire to a secondary.  If the session is
\* live it is newer than what the secondary accepted; if not, it is at least not
\* older than what the kernel holds of this process.
First(n, m) ==
  LET x == <<n, conn[n]>> IN
  /\ m \in Map /\ m.stamp \in Nat /\ m.boot <= boot /\ (m.boot = boot => m.stamp <= maps[n].stamp)
  /\ \A i \in 1..Len(down[n]) : down[n][i].boot = m.boot
  /\ live[x] => m.boot = boot
  /\ ~fresh[n] => cache[n] # None /\ m.boot = cache[n].boot
  /\ Ours(cache[n]) => m.boot = boot
  /\ Ours(cache[n]) /\ fresh[n] => cache[n].stamp <= m.stamp
  /\ live[x] /\ ~fresh[n] => cache[n].stamp < m.stamp

\* The first map on the wire is such a map.
LEMMA FirstIs ==
  ASSUME IInv, NEW n \in Secondaries, conn[n] # None, down[n] # <<>>
  PROVE  First(n, Head(down[n]))
<1> DEFINE x == <<n, conn[n]>>
           d == down[n]
           m == Head(d)
<1>0. d \in Seq(Map) /\ Link(n) /\ Flow(n)
  BY Zenon DEF IInv, TypeOK, LinkInv, StreamInv
<1>1. m \in Map /\ m = d[1] /\ 1 \in 1..Len(d)
  BY <1>0, TailIs, Zenon
<1> HIDE DEF x, d, m
<1>2. m.stamp \in Nat
  BY <1>1, Zenon DEF Map
<1>3. m.boot <= boot /\ (m.boot = boot => m.stamp <= maps[n].stamp)
  BY <1>1, Zenon DEF IInv, PastInv, d
<1>4. /\ \A i \in 1..Len(d) : d[i].boot = m.boot
      /\ live[x] => m.boot = boot
      /\ ~fresh[n] => cache[n] # None /\ m.boot = cache[n].boot
      /\ Ours(cache[n]) => m.boot = boot
      /\ Ours(cache[n]) /\ fresh[n] => cache[n].stamp <= m.stamp
  BY <1>0, <1>1, Zenon DEF Link, x, d
<1>5. live[x] /\ ~fresh[n] => cache[n].stamp < m.stamp
  BY <1>0, <1>1, Zenon DEF Flow, Rising, Newer, x, d
<1> QED
  BY <1>1, <1>2, <1>3, <1>4, <1>5, Zenon DEF First, x, d, m

\* What taking the map m changes for the secondary.  On a live session m is
\* accepted; a stale one changes nothing; a report is clean only if m is in the
\* kernel.
Took(n, m, k, clean) ==
  LET x == <<n, conn[n]>> IN
  /\ ~fresh'[n] /\ cache'[n] \in Map /\ cache'[n].boot = m.boot /\ kernel'[n] \in {kernel[n], m}
  /\ clean => k = m.stamp /\ kernel'[n] = m
  /\ live[x] => cache'[n] = m
  /\ IF stale(n, m) THEN cache'[n] = cache[n] /\ kernel'[n] = kernel[n] ELSE cache'[n].stamp = m.stamp

\* What it leaves alone, and the types of what it changes.
OnlyAt(n) ==
  /\ cache' \in [Secondaries -> Map \cup {None}] /\ fresh' \in [Secondaries -> BOOLEAN]
  /\ \A y \in Secondaries \ {n} : cache'[y] = cache[y] /\ fresh'[y] = fresh[y] /\ down'[y] = down[y]
  /\ kernel' \in [Nodes -> Map \cup {None}] /\ \A y \in Nodes \ {n} : kernel'[y] = kernel[y]
  /\ down' \in [Secondaries -> Seq(Map)] /\ down'[n] = Tail(down[n])

\* The step leaves the other nodes alone.
LEMMA ApplyOnlyAt ==
  ASSUME IInv, NEW n \in Secondaries, down[n] # <<>>, NEW m \in Map,
         cache' = cache \/ cache' = [cache EXCEPT ![n] = accepted(n, m)],
         fresh' = fresh \/ fresh' = [fresh EXCEPT ![n] = FALSE],
         kernel' = kernel \/ kernel' = [kernel EXCEPT ![n] = m],
         down' = [down EXCEPT ![n] = Tail(down[n])]
  PROVE  OnlyAt(n)
<1>1. /\ cache \in [Secondaries -> Map \cup {None}] /\ fresh \in [Secondaries -> BOOLEAN]
      /\ kernel \in [Nodes -> Map \cup {None}] /\ down \in [Secondaries -> Seq(Map)]
  BY Zenon DEF IInv, TypeOK
<1>2. accepted(n, m) \in Map
  BY <1>1, Zenon DEF accepted
<1>3. cache' \in [Secondaries -> Map \cup {None}] /\ \A y \in Secondaries \ {n} : cache'[y] = cache[y]
  BY <1>1, <1>2, Zenon
<1>4. fresh' \in [Secondaries -> BOOLEAN] /\ \A y \in Secondaries \ {n} : fresh'[y] = fresh[y]
  BY <1>1, Zenon
<1>5. kernel' \in [Nodes -> Map \cup {None}] /\ \A y \in Nodes \ {n} : kernel'[y] = kernel[y]
  BY <1>1
<1>6. Tail(down[n]) \in Seq(Map)
  BY <1>1, TailIs, Zenon
<1>7. down' \in [Secondaries -> Seq(Map)] /\ down'[n] = Tail(down[n]) /\ \A y \in Secondaries \ {n} : down'[y] = down[y]
  BY <1>1, <1>6, Zenon
<1> QED
  BY <1>3, <1>4, <1>5, <1>7, Zenon DEF OnlyAt

\* The handler, in those terms.
LEMMA ApplyIs ==
  ASSUME IInv, NEW n \in Secondaries, applyProjectionFrame(n)
  PROVE  /\ conn[n] # None /\ down[n] # <<>> /\ First(n, Head(down[n])) /\ OnlyAt(n)
         /\ \E k \in Nat, clean \in BOOLEAN : Report(n, k, clean) /\ Took(n, Head(down[n]), k, clean)
<1> DEFINE m == Head(down[n])
           x == <<n, conn[n]>>
<1>1. conn[n] # None /\ down[n] # <<>> /\ down' = [down EXCEPT ![n] = Tail(down[n])]
  BY Zenon DEF applyProjectionFrame
<1>2. First(n, m)
  BY <1>1, FirstIs, Zenon
<1>3. m \in Map /\ m.stamp \in Nat
  BY <1>2, Zenon DEF First
<1>4. PICK k \in Nat, clean \in BOOLEAN :
        /\ Report(n, k, clean)
        /\ \/ /\ stale(n, m) /\ cache' = cache /\ fresh' = fresh /\ kernel' = kernel /\ ~clean
           \/ /\ ~stale(n, m) /\ cache' = [cache EXCEPT ![n] = accepted(n, m)]
              /\ fresh' = [fresh EXCEPT ![n] = FALSE]
              /\ kernel' \in {kernel, [kernel EXCEPT ![n] = m]}
              /\ clean => k = m.stamp /\ kernel' = [kernel EXCEPT ![n] = m]
  BY <1>3, Zenon DEF applyProjectionFrame, m
<1> HIDE DEF m, x
<1>5. OnlyAt(n)
  <2>1. /\ cache' = cache \/ cache' = [cache EXCEPT ![n] = accepted(n, m)]
        /\ fresh' = fresh \/ fresh' = [fresh EXCEPT ![n] = FALSE]
        /\ kernel' = kernel \/ kernel' = [kernel EXCEPT ![n] = m]
    BY <1>4, Zenon
  <2> QED
    BY <1>1, <1>3, <2>1, ApplyOnlyAt, Zenon
<1>6. /\ cache \in [Secondaries -> Map \cup {None}] /\ kernel \in [Nodes -> Map \cup {None}] /\ n \in Nodes
      /\ fresh \in [Secondaries -> BOOLEAN]
  BY Names, Zenon DEF IInv, TypeOK
<1>7. cache[n] # None => cache[n] \in Map /\ cache[n].stamp \in Nat
  BY <1>6, Zenon DEF Map
<1>8. /\ live[x] /\ ~fresh[n] => cache[n].stamp < m.stamp
      /\ ~fresh[n] => cache[n] # None /\ m.boot = cache[n].boot
  BY <1>2, Zenon DEF First, x
<1>9. CASE stale(n, m)
  <2>1. ~fresh[n] /\ cache[n] # None /\ m.stamp < cache[n].stamp
    BY <1>9, Zenon DEF stale
  <2>2. ~live[x]
    BY <1>3, <1>7, <1>8, <2>1
  <2>3. fresh' = fresh /\ cache' = cache /\ kernel' = kernel /\ ~clean
    BY <1>4, <1>9, Zenon
  <2>4. Took(n, m, k, clean)
    BY <1>7, <1>8, <1>9, <2>1, <2>2, <2>3, Zenon DEF Took, x
  <2> QED
    BY <1>1, <1>2, <1>4, <1>5, <2>4, Zenon DEF m
<1>10. CASE ~stale(n, m)
  <2>1. /\ fresh' = [fresh EXCEPT ![n] = FALSE] /\ cache' = [cache EXCEPT ![n] = accepted(n, m)]
        /\ kernel' \in {kernel, [kernel EXCEPT ![n] = m]}
        /\ clean => k = m.stamp /\ kernel' = [kernel EXCEPT ![n] = m]
    BY <1>4, <1>10, Zenon
  <2>2. cache'[n] = accepted(n, m) /\ ~fresh'[n]
    BY <1>6, <2>1, Zenon
  <2>3. kernel'[n] \in {kernel[n], m} /\ (clean => k = m.stamp /\ kernel'[n] = m)
    BY <1>6, <2>1, Zenon
  <2>4. /\ accepted(n, m) \in Map /\ accepted(n, m).stamp = m.stamp /\ accepted(n, m).boot = m.boot
        /\ live[x] => accepted(n, m) = m
    <3>1. CASE ~fresh[n] /\ cache[n] # None /\ m.stamp = cache[n].stamp
      <4>1. accepted(n, m) = cache[n]
        BY <3>1, Zenon DEF accepted
      <4>2. ~live[x]
        BY <1>3, <1>8, <3>1
      <4> QED
        BY <1>7, <1>8, <3>1, <4>1, <4>2, Zenon
    <3>2. CASE ~(~fresh[n] /\ cache[n] # None /\ m.stamp = cache[n].stamp)
      BY <1>3, <3>2, Zenon DEF accepted
    <3> QED
      BY <3>1, <3>2, Zenon
  <2>5. Took(n, m, k, clean)
    BY <1>10, <2>2, <2>3, <2>4, Zenon DEF Took, x
  <2> QED
    BY <1>1, <1>2, <1>4, <1>5, <2>5, Zenon DEF m
<1> QED
  BY <1>9, <1>10, Zenon

\* The kernel does not go back: m is not older than what it holds of ours.
LEMMA ApplyAhead ==
  ASSUME IInv, NEW n \in Secondaries, NEW m, NEW k, NEW clean, First(n, m), Took(n, m, k, clean), OnlyAt(n)
  PROVE  /\ \A y \in Nodes : Ahead(y)
         /\ kernel'[n] # None /\ kernel'[n].boot = boot =>
              cache'[n] # None /\ cache'[n].boot = boot /\ kernel'[n].stamp <= cache'[n].stamp
<1>0. /\ cache[n] \in Map \cup {None} /\ \A y \in Nodes : kernel[y] \in Map \cup {None}
      /\ n \in Nodes /\ m \in Map /\ m.stamp \in Nat /\ m # None
  BY Names, Zenon DEF IInv, TypeOK, First
<1>1. /\ cache'[n] \in Map /\ cache'[n] # None /\ cache'[n].boot = m.boot /\ kernel'[n] \in {kernel[n], m}
      /\ IF stale(n, m) THEN cache'[n] = cache[n] /\ kernel'[n] = kernel[n] ELSE cache'[n].stamp = m.stamp
  BY Names, Zenon DEF Took
<1>2. ASSUME Ours(kernel[n])
      PROVE  /\ m.boot = boot /\ kernel[n].stamp <= cache'[n].stamp
             /\ ~stale(n, m) => kernel[n].stamp <= m.stamp
  <2>1. /\ Ours(cache[n]) /\ kernel[n].stamp <= cache[n].stamp
        /\ kernel[n].stamp \in Nat /\ cache[n].stamp \in Nat
    BY <1>0, <1>2, Zenon DEF IInv, KernelInv, Ours, Map
  <2>2. /\ m.boot = boot /\ cache[n] # None
        /\ fresh[n] => cache[n].stamp <= m.stamp
    BY <2>1, Zenon DEF First, Ours
  <2>3. CASE stale(n, m)
    BY <1>1, <2>1, <2>2, <2>3, Zenon
  <2>4. CASE ~stale(n, m)
    <3>1. cache[n].stamp <= m.stamp
      BY <1>0, <2>1, <2>2, <2>4 DEF stale
    <3>2. cache'[n].stamp = m.stamp
      BY <1>1, <2>4, Zenon
    <3>3. kernel[n].stamp <= m.stamp
      <4>1. \A a, b, e \in Nat : a <= b /\ b <= e => a <= e
        OBVIOUS
      <4> QED
        BY <1>0, <2>1, <3>1, <4>1, Zenon
    <3> QED
      BY <2>2, <2>4, <3>2, <3>3, Zenon
  <2> QED
    BY <2>3, <2>4, Zenon
<1>3. ASSUME NEW y \in Nodes
      PROVE  Ahead(y)
  <2>1. CASE kernel'[y] = kernel[y]
    BY <1>0, <2>1 DEF Ahead, Ours, Map
  <2>2. CASE y = n /\ ~stale(n, m) /\ kernel'[n] = m
    BY <1>0, <1>2, <2>2, Zenon DEF Ahead
  <2>3. y # n => kernel'[y] = kernel[y]
    BY Zenon DEF OnlyAt
  <2> QED
    BY <1>1, <2>1, <2>2, <2>3, Zenon
<1>4. ASSUME kernel'[n] # None, kernel'[n].boot = boot
      PROVE  cache'[n].boot = boot /\ kernel'[n].stamp <= cache'[n].stamp
  <2>1. CASE kernel'[n] = kernel[n]
    BY <1>1, <1>2, <1>4, <2>1, Zenon DEF Ours
  <2>2. CASE ~stale(n, m) /\ kernel'[n] = m
    BY <1>0, <1>1, <1>4, <2>2
  <2> QED
    BY <1>1, <2>1, <2>2, Zenon
<1> QED
  BY <1>1, <1>3, <1>4, Zenon

\* No map of a process yet to come, and none newer than the publisher's.
LEMMA ApplyPast ==
  ASSUME IInv, NEW n \in Secondaries, down[n] # <<>>, NEW m, NEW k, NEW clean,
         First(n, m), Took(n, m, k, clean), OnlyAt(n), boot' = boot, maps' = maps
  PROVE  PastInv'
<1>0. n \in Nodes /\ m.boot <= boot /\ (m.boot = boot => m.stamp <= maps[n].stamp)
  BY Names, Zenon DEF First
<1>1. /\ cache'[n].boot = m.boot /\ kernel'[n] \in {kernel[n], m}
      /\ cache'[n] = cache[n] \/ cache'[n].stamp = m.stamp
  BY Zenon DEF Took
<1>2. \A y \in Nodes : kernel'[y] # None => kernel'[y].boot <= boot
  BY <1>0, <1>1, Zenon DEF IInv, PastInv, OnlyAt
<1>3. /\ cache'[n].boot <= boot
      /\ cache'[n] # None /\ cache'[n].boot = boot => cache'[n].stamp <= maps[n].stamp
  BY <1>0, <1>1, Zenon DEF IInv, PastInv, Ours
<1>4. \A i \in 1..Len(down'[n]) :
        down'[n][i].boot <= boot /\ (down'[n][i].boot = boot => down'[n][i].stamp <= maps[n].stamp)
  <2>1. \A i \in 1..Len(down[n]) :
          down[n][i].boot <= boot /\ (down[n][i].boot = boot => down[n][i].stamp <= maps[n].stamp)
    BY Zenon DEF IInv, PastInv
  <2>2. down'[n] = Tail(down[n]) /\ down[n] \in Seq(Map)
    BY Zenon DEF IInv, TypeOK, OnlyAt
  <2>3. \A i \in 1..Len(Tail(down[n])) : i + 1 \in 1..Len(down[n]) /\ Tail(down[n])[i] = down[n][i + 1]
    BY <2>2, TailIs, Zenon
  <2> QED
    BY <2>1, <2>2, <2>3, Zenon
<1>5. \A y \in Secondaries : /\ cache'[y] # None => cache'[y].boot <= boot
                             /\ cache'[y] # None /\ cache'[y].boot = boot => cache'[y].stamp <= maps[y].stamp
  BY <1>3, Zenon DEF IInv, PastInv, Ours, OnlyAt
<1>6. \A y \in Secondaries : \A i \in 1..Len(down'[y]) :
        down'[y][i].boot <= boot /\ (down'[y][i].boot = boot => down'[y][i].stamp <= maps[y].stamp)
  BY <1>4, Zenon DEF IInv, PastInv, OnlyAt
<1> QED
  BY <1>2, <1>5, <1>6, Zenon DEF PastInv, Ours

\* The rest of the stream is what it was, with m accepted.
LEMMA ApplyStream ==
  ASSUME IInv, NEW n \in Secondaries, conn[n] # None, down[n] # <<>>, NEW m, NEW k, NEW clean,
         m = Head(down[n]), First(n, m), Took(n, m, k, clean), OnlyAt(n),
         UNCHANGED <<boot, maps, live, open, queue, conn>>
  PROVE  LinkInv' /\ StreamInv'
<1> DEFINE x == <<n, conn[n]>>
           d == down[n]
           r == Tail(d)
<1>0. /\ Link(n) /\ Flow(n) /\ x \in Sessions /\ d \in Seq(Map) /\ queue[x] \in Seq(Map)
      /\ maps[n] \in Map /\ fresh[n] \in BOOLEAN /\ (open[x] => live[x])
  <2>1. n \in Nodes /\ x \in Sessions
    BY Names DEF IInv, TypeOK
  <2> QED
    BY <2>1, Zenon DEF IInv, TypeOK, LinkInv, StreamInv, QueueInv
<1>1. \A i \in 1..Len(r) : i + 1 \in 1..Len(d) /\ r[i] = d[i + 1]
  BY <1>0, TailIs, Zenon
<1>2. x = <<n, conn'[n]>> /\ down'[n] = r
  BY Zenon DEF OnlyAt
<1> HIDE DEF x, d, r
<1>3. Link(n)'
  <2>1. \A i \in 1..Len(r) : r[i].boot = m.boot
    BY <1>1, Zenon DEF First, d
  <2>2. live[x] => m.boot = boot
    BY Zenon DEF First, x
  <2>3. /\ ~fresh'[n] /\ cache'[n].boot = m.boot /\ cache'[n] # None
    BY Names, Zenon DEF Took
  <2> QED
    BY <1>2, <2>1, <2>2, <2>3, Zenon DEF Link, Ours
<1>4. Flow(n)'
  <2>1. CASE ~live[x]
    BY <1>0, <1>2, <2>1, FlowNext, Zenon
  <2>2. CASE live[x]
    <3>1. cache'[n] = m /\ fresh'[n] = FALSE
      <4>1. cache'[n] = m /\ ~fresh'[n]
        BY <2>2, Zenon DEF Took, x
      <4>2. fresh'[n] \in BOOLEAN
        BY Zenon DEF OnlyAt
      <4> QED
        BY <4>1, <4>2, Zenon
    <3>2. /\ Rising(fresh[n], cache[n], d, queue[x], maps[n])
          /\ open[x] => Ends(fresh[n], cache[n], d, queue[x], maps[n])
      BY <1>0, <2>2, Zenon DEF Flow, x, d
    <3>3. Rising(FALSE, m, r, queue[x], maps[n]) /\ (open[x] => Ends(FALSE, m, r, queue[x], maps[n]))
      BY <1>0, <3>2, Accepted, Zenon DEF r, d
    <3> QED
      BY <1>2, <3>1, <3>3, FlowNext, Zenon
  <2> QED
    BY <2>1, <2>2, Zenon
<1>5. ASSUME NEW y \in Secondaries, conn[y] # None, y # n
      PROVE  Link(y)' /\ Flow(y)'
  <2>1. Link(y) /\ Flow(y) /\ fresh'[y] = fresh[y] /\ down'[y] = down[y] /\ cache'[y] = cache[y]
    BY <1>5, Zenon DEF IInv, LinkInv, StreamInv, OnlyAt
  <2> QED
    BY <2>1, NodeFrame, Zenon
<1> QED
  BY <1>3, <1>4, <1>5, Zenon DEF LinkInv, StreamInv

\* A clean report on a live session names a map of ours that is in the kernel.
LEMMA ApplyReport ==
  ASSUME IInv, NEW n \in Secondaries, NEW m, NEW k, NEW clean, First(n, m), Took(n, m, k, clean), OnlyAt(n),
         \A y \in Nodes : Ahead(y), Reported(n, k, clean), UNCHANGED <<boot, applied, hand>>
  PROVE  ReportInv'
<1> DEFINE x == <<n, conn[n]>>
<1>1. /\ \A y \in Nodes : applied[y] # None => AckedNext(y, applied[y])
      /\ \A y \in Sessions :
           /\ \A i \in 1..Len(up[y]) : up[y][i].clean => AckedNext(y[1], up[y][i].applied)
           /\ hand[y] # None /\ hand[y].clean => AckedNext(y[1], hand[y].applied)
  BY ReportKept, Zenon DEF IInv, OnlyAt
<1>2. live[x] /\ clean => AckedNext(n, k)
  <2>1. live[x] /\ clean => k = m.stamp /\ kernel'[n] = m /\ m.boot = boot /\ m # None /\ m.stamp \in Nat
    BY Names, Zenon DEF First, Took
  <2> QED
    BY <2>1 DEF AckedNext
<1>3. x[1] = n
  BY Zenon
<1> HIDE DEF x
<1>4. ASSUME NEW y \in Sessions, NEW i \in 1..Len(up'[y]), up'[y][i].clean
      PROVE  AckedNext(y[1], up'[y][i].applied)
  <2>1. CASE i \in 1..Len(up[y]) /\ up'[y][i] = up[y][i]
    BY <1>1, <1>4, <2>1, Zenon
  <2>2. CASE y = x /\ live[y] /\ up'[y][i] = [applied |-> k, clean |-> clean]
    BY <1>2, <1>3, <1>4, <2>2, SMTT(20)
  <2> QED
    BY <2>1, <2>2, Zenon DEF Reported, x
<1> QED
  BY <1>1, <1>4, Zenon DEF ReportInv, Acked, AckedNext, Ours

\* A secondary takes the first map from the wire.
LEMMA ApplyStep ==
  ASSUME IInv, NEW n \in Secondaries, applyProjectionFrame(n)
  PROVE  IInv' /\ \A y \in Nodes : Ahead(y)
<1> DEFINE m == Head(down[n])
<1>1. UNCHANGED <<dbVars, pubVars, boot, maps, applied, live, kicked, open, queue, hand, conn, localVars>>
  BY Zenon DEF applyProjectionFrame, pubVars
<1>2. conn[n] # None /\ down[n] # <<>> /\ First(n, m) /\ OnlyAt(n)
  BY ApplyIs, Zenon
<1>3. PICK k \in Nat, clean \in BOOLEAN : Report(n, k, clean) /\ Took(n, m, k, clean)
  BY ApplyIs, Zenon
<1> HIDE DEF m
<1>4. Reported(n, k, clean)
  BY <1>2, <1>3, ReportIs, Zenon DEF IInv
<1>5. /\ \A y \in Nodes : Ahead(y)
      /\ kernel'[n] # None /\ kernel'[n].boot = boot =>
           cache'[n] # None /\ cache'[n].boot = boot /\ kernel'[n].stamp <= cache'[n].stamp
  BY <1>2, <1>3, ApplyAhead, Zenon
<1>t. TypeOK'
  <2>1. up' \in [Sessions -> Seq(Status)]
    BY <1>4, Zenon DEF Reported
  <2> QED
    BY <1>1, <1>2, <2>1, Zenon DEF IInv, TypeOK, OnlyAt, dbVars, pubVars, localVars
<1>p. PubInv' /\ QueueInv'
  BY Frames, <1>1, Zenon DEF IInv
<1>a. PastInv'
  BY <1>1, <1>2, <1>3, ApplyPast, Zenon
<1>l. LinkInv' /\ StreamInv'
  BY <1>1, <1>2, <1>3, ApplyStream, Zenon DEF m
<1>k. KernelInv'
  <2>1. \A y \in Secondaries \ {n} : kernel'[y] = kernel[y] /\ cache'[y] = cache[y]
    BY <1>2, Names, Zenon DEF OnlyAt
  <2>2. kernel'[Primary] = kernel[Primary]
    BY <1>2, Names, Zenon DEF OnlyAt
  <2>3. \A y \in Secondaries : (Ours(kernel[y]))' => (Ours(cache[y]))' /\ kernel'[y].stamp <= cache'[y].stamp
    BY <1>1, <1>5, <2>1, Zenon DEF IInv, KernelInv, Ours
  <2> QED
    BY <1>1, <2>2, <2>3, Zenon DEF IInv, KernelInv, Ours, localVars
<1>r. ReportInv'
  BY <1>1, <1>2, <1>3, <1>4, <1>5, ApplyReport, Zenon
<1> QED
  BY <1>t, <1>p, <1>a, <1>l, <1>k, <1>r, <1>5, Zenon DEF IInv

-----------------------------------------------------------------------------
(* The primary's own node.                                                   *)

\* Its applier applies a map that is not older than what the kernel holds.
LEMMA LocalStep ==
  ASSUME IInv, LocalApply
  PROVE  IInv' /\ \A n \in Nodes : Ahead(n)
<1>1. PICK m \in {slot, pending} \ {None} :
        /\ slot' = IF m = slot THEN None ELSE slot
        /\ \/ /\ kernel' = [kernel EXCEPT ![Primary] = m] /\ RecordApplied(Primary, m.stamp) /\ pending' = None
           \/ /\ kernel' \in {kernel, [kernel EXCEPT ![Primary] = m]} /\ pending' = m /\ applied' = applied
        /\ UNCHANGED <<dbVars, pubVars, sessVars, secVars, breaks>>
  BY Zenon DEF LocalApply
<1>2. /\ TypeOK /\ Primary \in Nodes /\ m \in Map /\ m # None /\ m.stamp \in Nat /\ m.boot = boot /\ boot \in Nat
      /\ m.stamp <= maps[Primary].stamp /\ (Ours(kernel[Primary]) => kernel[Primary].stamp <= m.stamp)
      /\ slot \in Map \cup {None} /\ pending \in Map \cup {None}
      /\ kernel \in [Nodes -> Map \cup {None}] /\ applied \in [Nodes -> Nat \cup {None}]
  <2>1. TypeOK /\ Primary \in Nodes /\ m \in Map /\ m # None
    BY <1>1, Names, Zenon DEF IInv, TypeOK
  <2>2. m.boot = boot /\ m.stamp <= maps[Primary].stamp /\ (Ours(kernel[Primary]) => kernel[Primary].stamp <= m.stamp)
    BY <1>1, Zenon DEF IInv, KernelInv
  <2> QED
    BY <2>1, <2>2, Zenon DEF TypeOK, Map
<1>3. /\ boot' = boot /\ maps' = maps /\ live' = live /\ open' = open /\ queue' = queue /\ up' = up /\ hand' = hand
      /\ kicked' = kicked /\ conn' = conn /\ fresh' = fresh /\ down' = down /\ cache' = cache
      /\ UNCHANGED <<dbVars, pubVars>>
  BY <1>1, Zenon DEF pubVars, sessVars, secVars
<1>4. /\ kernel' \in [Nodes -> Map \cup {None}] /\ kernel'[Primary] \in {kernel[Primary], m}
      /\ \A n \in Nodes \ {Primary} : kernel'[n] = kernel[n]
  <2>1. kernel' = kernel \/ kernel' = [kernel EXCEPT ![Primary] = m]
    BY <1>1, Zenon
  <2> QED
    BY <1>2, <2>1, Zenon
<1>5. /\ applied' \in [Nodes -> Nat \cup {None}]
      /\ \A n \in Nodes \ {Primary} : applied'[n] = applied[n]
      /\ applied'[Primary] = applied[Primary] \/ (applied'[Primary] = m.stamp /\ kernel'[Primary] = m)
  <2>1. CASE kernel' = [kernel EXCEPT ![Primary] = m] /\ RecordApplied(Primary, m.stamp)
    <3>1. kernel'[Primary] = m
      BY <1>2, <2>1, Zenon
    <3> QED
      BY <1>2, <2>1, <3>1, RecordAppliedIs, Zenon
  <2>2. CASE applied' = applied
    BY <1>2, <2>2, Zenon
  <2> QED
    BY <1>1, <2>1, <2>2, Zenon
<1>6. /\ slot' \in {None, slot} /\ pending' \in {None, m}
      /\ slot' # None => m = pending
  BY <1>1, Zenon
<1>7. ASSUME NEW n \in Nodes
      PROVE  Ahead(n)
  <2>1. CASE kernel'[n] = kernel[n]
    BY <1>2, <2>1 DEF Ahead, Ours, Map
  <2>2. CASE n = Primary /\ kernel'[n] = m
    BY <1>2, <2>2, Zenon DEF Ahead
  <2> QED
    BY <1>4, <2>1, <2>2, Zenon
<1>t. TypeOK'
  BY <1>2, <1>3, <1>4, <1>5, <1>6, Zenon DEF TypeOK, dbVars, pubVars
<1>f. PubInv' /\ QueueInv' /\ LinkInv' /\ StreamInv'
  BY Frames, <1>3, Zenon DEF IInv, secVars
<1>a. PastInv'
  <2>1. \A n \in Nodes : kernel'[n] # None => kernel'[n].boot <= boot
    BY <1>2, <1>4 DEF IInv, PastInv
  <2> QED
    BY <1>3, <2>1, Zenon DEF IInv, PastInv, Ours
<1>k. KernelInv'
  <2>1. \A n \in Secondaries : n \in Nodes \ {Primary}
    BY Names, Zenon
  <2>2. \A n \in Secondaries : (Ours(kernel[n]))' => (Ours(cache[n]))' /\ kernel'[n].stamp <= cache'[n].stamp
    BY <1>3, <1>4, <2>1, Zenon DEF IInv, KernelInv, Ours
  <2>3. /\ slot # None => slot.boot = boot /\ slot.stamp \in Nat /\ slot.stamp <= maps[Primary].stamp
                          /\ (kernel[Primary] # None /\ kernel[Primary].boot = boot => kernel[Primary].stamp <= slot.stamp)
        /\ slot' # None => slot' = slot /\ slot # None /\ m.stamp <= slot.stamp
        /\ kernel[Primary] # None /\ kernel[Primary].boot = boot =>
             kernel[Primary].stamp <= m.stamp /\ kernel[Primary].stamp <= maps[Primary].stamp
    BY <1>2, <1>6, Zenon DEF IInv, KernelInv, Ours, Map
  <2>4. ASSUME kernel'[Primary] # None, kernel'[Primary].boot = boot
        PROVE  /\ kernel'[Primary].stamp <= maps[Primary].stamp /\ kernel'[Primary].stamp <= m.stamp
               /\ slot' # None => kernel'[Primary].stamp <= slot'.stamp
    BY <1>2, <1>4, <2>3, <2>4
  <2> QED
    BY <1>2, <1>3, <1>6, <2>2, <2>3, <2>4, Zenon DEF KernelInv, Ours
<1>r. ReportInv'
  <2>1. /\ \A n \in Nodes : applied[n] # None => AckedNext(n, applied[n])
        /\ \A y \in Sessions :
             /\ \A i \in 1..Len(up[y]) : up[y][i].clean => AckedNext(y[1], up[y][i].applied)
             /\ hand[y] # None /\ hand[y].clean => AckedNext(y[1], hand[y].applied)
    BY <1>2, <1>4, <1>7, ReportKept, Zenon DEF IInv
  <2>2. \A n \in Nodes : applied'[n] # None => AckedNext(n, applied'[n])
    BY <1>2, <1>5, <2>1, SMTT(20) DEF AckedNext
  <2> QED
    BY <1>3, <2>1, <2>2, Zenon DEF ReportInv, Acked, AckedNext, Ours
<1> QED
  BY <1>t, <1>f, <1>a, <1>k, <1>r, <1>7, Zenon DEF IInv

-----------------------------------------------------------------------------
(* The theorems.                                                             *)

\* Every step keeps the invariant, and no step of one process moves a kernel
\* back: only secondaries and the applier touch a kernel.
LEMMA NextStep ==
  ASSUME IInv, [Next]_<<vars, scope>>
  PROVE  IInv' /\ (boot' = boot => \A n \in Nodes : Ahead(n))
<1>1. ASSUME kernel' = kernel
      PROVE  \A n \in Nodes : Ahead(n)
  <2>1. \A n \in Nodes : kernel[n] \in Map \cup {None}
    BY Zenon DEF IInv, TypeOK
  <2>2. \A n \in Nodes : kernel[n] # None => kernel[n].stamp <= kernel[n].stamp
    BY <2>1 DEF Map
  <2> QED
    BY <1>1, <2>2, Zenon DEF Ahead, Ours
<1>2. ASSUME NEW T \in SUBSET Nodes, Commit(T)
      PROVE  IInv' /\ kernel' = kernel
  BY <1>2, CommitStep, Zenon DEF Commit
<1>3. ASSUME handle
      PROVE  IInv' /\ kernel' = kernel
  BY <1>3, HandleStep, Zenon DEF handle
<1>4. ASSUME Restart \/ Restore
      PROVE  IInv' /\ boot' # boot
  <2>1. IInv'
    BY <1>4, RestartStep, RestoreStep, Zenon
  <2>2. boot \in Nat /\ boot' = boot + 1
    BY <1>4, Zenon DEF Restart, Restore, Boot, IInv, TypeOK
  <2> QED
    BY <2>1, <2>2
<1>5. ASSUME NEW n \in Secondaries, NEW c \in Slots,
             Connect(n, c) \/ Yield(n, c) \/ Read(n, c) \/ handleIncoming(n, c) \/ End(n, c)
      PROVE  IInv' /\ kernel' = kernel
  <2>1. IInv'
    BY <1>5, ConnectStep, YieldStep, ReadStep, HandleIncomingStep, EndStep, Zenon
  <2>2. kernel' = kernel
    BY <1>5, Zenon DEF Connect, Yield, Read, handleIncoming, End
  <2> QED
    BY <2>1, <2>2, Zenon
<1>6. ASSUME NEW n \in Secondaries, Disconnect(n) \/ applyProjectionFrame(n) \/ SecondaryRestart(n)
      PROVE  IInv' /\ \A m \in Nodes : Ahead(m)
  BY <1>6, DisconnectStep, ApplyStep, Zenon
<1>7. ASSUME UNCHANGED vars
      PROVE  IInv' /\ kernel' = kernel
  <2>1. /\ UNCHANGED <<dbVars, pubVars>> /\ boot' = boot /\ maps' = maps /\ applied' = applied
        /\ UNCHANGED <<live, open, queue, up, hand, kicked>> /\ UNCHANGED secVars /\ UNCHANGED localVars /\ kernel' = kernel
    BY <1>7, Zenon DEF vars, pubVars, sessVars
  <2>2. TypeOK'
    BY <2>1, Zenon DEF IInv, TypeOK, dbVars, pubVars, secVars, localVars
  <2>3. PubInv' /\ PastInv' /\ QueueInv' /\ LinkInv' /\ StreamInv' /\ KernelInv' /\ ReportInv'
    BY <2>1, Frames, Zenon DEF IInv, secVars, localVars
  <2> QED
    BY <2>1, <2>2, <2>3, Zenon DEF IInv
<1> QED
  BY <1>1, <1>2, <1>3, <1>4, <1>5, <1>6, <1>7, LocalStep, Zenon DEF Next, vars

\* The inductive invariant holds: the maps of the running process reach the
\* kernels through queue, wire and cache in the order they were rendered.
THEOREM Invariance == Spec => []IInv
<1>1. IInv /\ [Next]_<<vars, scope>> => IInv'
  BY NextStep, Zenon
<1> QED
  BY <1>1, InitIInv, PTL DEF Spec

\* When DecisionInForce says yes to a decision of this process, every node it
\* counts whose map the decision changed is programmed with it.
THEOREM BarrierSound == Spec => []InForce
<1>1. IInv => InForce
  <2> SUFFICES ASSUME IInv, NEW s \in DOMAIN touched, DecisionInForce(s), NEW n \in touched[s], applied[n] # None
               PROVE  Programmed(n, s)
    BY Zenon DEF InForce
  <2>1. /\ n \in Nodes /\ s \in Nat /\ s > 0 /\ s <= rendered
        /\ maps[n].stamp \in Nat /\ applied[n] \in Nat /\ kernel[n] \in Map \cup {None}
    BY DEF IInv, TypeOK, DecisionInForce, Map
  <2>2. s <= maps[n].stamp
    BY <2>1, Zenon DEF IInv, PubInv
  <2>3. maps[n].stamp <= applied[n]
    BY <2>1, <2>2, Zenon DEF DecisionInForce
  <2>4. Ours(kernel[n]) /\ applied[n] <= kernel[n].stamp
    BY <2>1, <2>2, <2>3 DEF IInv, ReportInv, Acked
  <2>5. kernel[n].stamp \in Nat
    BY <2>1, <2>4, Zenon DEF Ours, Map
  <2> QED
    BY <2>1, <2>2, <2>3, <2>4, <2>5 DEF Programmed, Ours
<1> QED
  BY <1>1, Invariance, PTL

\* Within one primary process no kernel goes back to an older map.
THEOREM NoRegression == Spec => KernelForward
<1>1. IInv /\ [Next]_<<vars, scope>> =>
        [\A n \in Nodes : kernel[n] # None /\ kernel[n].boot = boot /\ boot' = boot =>
           kernel'[n].boot = boot /\ kernel'[n].stamp >= kernel[n].stamp]_vars
  <2> SUFFICES ASSUME IInv, [Next]_<<vars, scope>>, NEW n \in Nodes,
                      kernel[n] # None, kernel[n].boot = boot, boot' = boot
               PROVE  kernel'[n].boot = boot /\ kernel'[n].stamp >= kernel[n].stamp
    BY Zenon
  <2>1. Ahead(n) /\ kernel'[n] \in Map \cup {None} /\ kernel[n] \in Map \cup {None}
    BY NextStep, Zenon DEF IInv, TypeOK
  <2> QED
    BY <2>1, Zenon DEF Ahead, Ours, Map
<1> QED
  BY <1>1, Invariance, PTL DEF Spec, KernelForward

\* The stream written as one sequence, with what has been accepted in front.
Joined(f, c, d, q) == (IF f THEN <<>> ELSE <<c>>) \o d \o q

\* What is at each place of it: k maps accepted, then those of d, then those of q.
Layout(st, k, c, d, q) ==
  /\ st \in Seq(Map) /\ Len(st) = k + Len(d) + Len(q)
  /\ \A i \in 1..Len(st) :
       st[i] = IF i <= k THEN c ELSE IF i <= k + Len(d) THEN d[i - k] ELSE q[i - k - Len(d)]

\* Joining two sequences.
LEMMA ConcatIs ==
  ASSUME NEW S, NEW s \in Seq(S), NEW t \in Seq(S)
  PROVE  /\ s \o t \in Seq(S) /\ Len(s \o t) = Len(s) + Len(t)
         /\ \A i \in 1..Len(s) + Len(t) : (s \o t)[i] = IF i <= Len(s) THEN s[i] ELSE t[i - Len(s)]
OBVIOUS

\* The stream of a session is laid out as the map it accepted last, the maps on
\* the wire and the maps queued.
LEMMA JoinedIs ==
  ASSUME NEW f \in BOOLEAN, NEW c, f \/ c \in Map, NEW d \in Seq(Map), NEW q \in Seq(Map)
  PROVE  Layout(Joined(f, c, d, q), IF f THEN 0 ELSE 1, c, d, q)
<1>1. CASE f
  BY <1>1 DEF Joined, Layout
<1>2. CASE ~f
  <2>1. <<c>> \in Seq(Map) /\ Len(<<c>>) = 1 /\ <<c>>[1] = c
    BY <1>2
  <2> DEFINE p == <<c>>
  <2> HIDE DEF p
  <2>2. p \in Seq(Map) /\ Len(p) = 1 /\ p[1] = c
    BY <2>1, Zenon DEF p
  <2>3. Joined(f, c, d, q) = p \o d \o q
    BY <1>2, Zenon DEF Joined, p
  <2> DEFINE pd == p \o d
  <2>a. /\ pd \in Seq(Map) /\ Len(pd) = Len(p) + Len(d)
        /\ \A i \in 1..Len(p) + Len(d) : pd[i] = IF i <= Len(p) THEN p[i] ELSE d[i - Len(p)]
    BY <2>2, ConcatIs, Zenon
  <2>4. /\ pd \in Seq(Map) /\ Len(pd) = 1 + Len(d)
        /\ \A i \in 1..1 + Len(d) : pd[i] = IF i <= 1 THEN p[i] ELSE d[i - 1]
    BY <2>2, <2>a, Zenon
  <2>5. Joined(f, c, d, q) = pd \o q
    BY <2>3, Zenon
  <2> HIDE DEF pd, Map
  <2>b. /\ pd \o q \in Seq(Map) /\ Len(pd \o q) = Len(pd) + Len(q)
        /\ \A i \in 1..Len(pd) + Len(q) :
             (pd \o q)[i] = IF i <= Len(pd) THEN pd[i] ELSE q[i - Len(pd)]
    BY <2>4, ConcatIs, Zenon
  <2>6. /\ pd \o q \in Seq(Map) /\ Len(pd \o q) = 1 + Len(d) + Len(q)
        /\ \A i \in 1..1 + Len(d) + Len(q) :
             (pd \o q)[i] = IF i <= 1 + Len(d) THEN pd[i] ELSE q[i - (1 + Len(d))]
    BY <2>4, <2>b, Zenon
  <2>7. Len(d) \in Nat /\ Len(q) \in Nat
    OBVIOUS
  <2>8. ASSUME NEW i \in 1..1 + Len(d) + Len(q)
        PROVE  (pd \o q)[i] = IF i <= 1 THEN c ELSE IF i <= 1 + Len(d) THEN d[i - 1]
                                                  ELSE q[i - 1 - Len(d)]
    <3>1. CASE i = 1
      <4>1. i <= 1 + Len(d) /\ i \in 1..1 + Len(d) /\ i <= 1
        BY <2>7, <3>1
      <4>2. (pd \o q)[i] = pd[i]
        BY <2>6, <4>1, Zenon
      <4>3. pd[i] = p[i]
        BY <2>4, <4>1, Zenon
      <4> QED
        BY <2>2, <3>1, <4>1, <4>2, <4>3, Zenon
    <3>2. CASE ~(i <= 1) /\ i <= 1 + Len(d)
      <4>1. i \in 1..1 + Len(d)
        BY <2>7, <3>2
      <4> QED
        BY <2>4, <2>6, <3>2, <4>1, Zenon
    <3>3. CASE ~(i <= 1) /\ ~(i <= 1 + Len(d))
      <4>1. i - (1 + Len(d)) = i - 1 - Len(d)
        BY <2>7
      <4> QED
        BY <2>6, <3>3, <4>1, Zenon
    <3> QED
      <4>1. i = 1 \/ ~(i <= 1)
        BY <2>7
      <4> QED
        BY <3>1, <3>2, <3>3, <4>1, Zenon
  <2> QED
    BY <1>2, <2>5, <2>6, <2>8, Zenon DEF Layout
<1> QED
  BY <1>1, <1>2, Zenon

\* Over a session whose subscription is open, what a secondary has accepted, has
\* on the wire and has queued is strictly increasing and ends with the
\* publisher's map, so that no map is refused as stale and none is lost.
THEOREM StreamsComplete == Spec => []StreamComplete
<1>1. IInv => StreamComplete
  <2> SUFFICES ASSUME IInv, NEW n \in Secondaries, conn[n] # None, open[<<n, conn[n]>>]
               PROVE  LET st == Stream(n) IN
                      /\ Len(st) > 0 /\ st[Len(st)] = maps[n]
                      /\ \A i, j \in DOMAIN st : i < j => st[i].stamp < st[j].stamp
    BY Zenon DEF StreamComplete
  <2> DEFINE x == <<n, conn[n]>>
             d == down[n]
             q == queue[x]
             st == Joined(fresh[n], cache[n], d, q)
             k == IF fresh[n] THEN 0 ELSE 1
  <2>1. /\ x \in Sessions /\ d \in Seq(Map) /\ q \in Seq(Map) /\ fresh[n] \in BOOLEAN
        /\ cache[n] \in Map \cup {None} /\ live[x] /\ Link(n) /\ Flow(n)
    <3>1. x \in Sessions
      BY Names DEF IInv, TypeOK
    <3> QED
      BY <3>1, Zenon DEF IInv, TypeOK, QueueInv, LinkInv, StreamInv
  <2>2. ~fresh[n] => cache[n] \in Map
    BY <2>1, Zenon DEF Link
  <2>3. /\ Ordered(d) /\ Ordered(q) /\ \A i \in 1..Len(d) : Newer(q, d[i].stamp)
        /\ ~fresh[n] => Newer(d, cache[n].stamp) /\ Newer(q, cache[n].stamp)
        /\ IF q # <<>> THEN q[Len(q)] = maps[n]
           ELSE IF d # <<>> THEN d[Len(d)] = maps[n] ELSE ~fresh[n] /\ cache[n] = maps[n]
    BY <2>1, Zenon DEF Flow, Rising, Ends
  <2>4. Stream(n) = st
    BY Zenon DEF Stream, Joined
  <2> HIDE DEF x, d, q, st
  <2>5. /\ st \in Seq(Map) /\ Len(st) = k + Len(d) + Len(q)
        /\ \A i \in 1..Len(st) :
             st[i] = IF i <= k THEN cache[n] ELSE IF i <= k + Len(d) THEN d[i - k] ELSE q[i - k - Len(d)]
    <3>1. fresh[n] \/ cache[n] \in Map
      BY <2>2, Zenon
    <3>2. Layout(st, k, cache[n], d, q)
      BY <2>1, <3>1, JoinedIs, Zenon DEF st
    <3> HIDE DEF k
    <3> QED
      BY <3>2, Zenon DEF Layout
  <2>6. k \in {0, 1} /\ Len(d) \in Nat /\ Len(q) \in Nat /\ (k = 1 <=> ~fresh[n])
    BY <2>1
  <2> HIDE DEF k
  <2>7. Len(st) > 0 /\ st[Len(st)] = maps[n]
    <3>1. CASE q # <<>>
      <4>1. Len(q) > 0
        BY <2>1, <3>1
      <4>2. /\ Len(st) \in 1..Len(st) /\ ~(Len(st) <= k) /\ ~(Len(st) <= k + Len(d))
            /\ Len(st) - k - Len(d) = Len(q)
        BY <2>5, <2>6, <4>1
      <4>3. st[Len(st)] = q[Len(q)]
        BY <2>5, <4>2, Zenon
      <4> QED
        BY <2>3, <2>6, <3>1, <4>2, <4>3, SMTT(20)
    <3>2. CASE q = <<>> /\ d # <<>>
      <4>1. Len(d) > 0 /\ Len(q) = 0
        BY <2>1, <3>2
      <4> QED
        BY <2>3, <2>5, <2>6, <3>2, <4>1
    <3>3. CASE q = <<>> /\ d = <<>>
      <4>1. Len(d) = 0 /\ Len(q) = 0 /\ k = 1
        BY <2>3, <2>6, <3>3, Zenon
      <4> QED
        BY <2>3, <2>5, <2>6, <3>3, <4>1
    <3> QED
      BY <3>1, <3>2, <3>3, Zenon
  <2>8. ASSUME NEW i \in 1..Len(st), NEW j \in 1..Len(st), i < j
        PROVE  st[i].stamp < st[j].stamp
    <3>1. CASE i <= k
      <4>1. st[i] = cache[n] /\ ~fresh[n] /\ ~(j <= k)
        BY <2>5, <2>6, <2>8, <3>1
      <4>2. CASE j <= k + Len(d)
        <5>1. st[j] = d[j - k] /\ j - k \in 1..Len(d)
          BY <2>5, <2>6, <4>1, <4>2
        <5> QED
          BY <2>3, <4>1, <5>1, Zenon DEF Newer
      <4>3. CASE ~(j <= k + Len(d))
        <5>1. st[j] = q[j - k - Len(d)] /\ j - k - Len(d) \in 1..Len(q)
          BY <2>5, <2>6, <4>1, <4>3
        <5> QED
          BY <2>3, <4>1, <5>1, Zenon DEF Newer
      <4> QED
        BY <4>2, <4>3, Zenon
    <3>2. CASE ~(i <= k) /\ i <= k + Len(d)
      <4>1. st[i] = d[i - k] /\ i - k \in 1..Len(d) /\ ~(j <= k)
        BY <2>5, <2>6, <2>8, <3>2
      <4>2. CASE j <= k + Len(d)
        <5>1. st[j] = d[j - k] /\ j - k \in 1..Len(d) /\ i - k < j - k
          BY <2>5, <2>6, <2>8, <4>1, <4>2
        <5> QED
          BY <2>3, <4>1, <5>1, Zenon DEF Ordered
      <4>3. CASE ~(j <= k + Len(d))
        <5>1. st[j] = q[j - k - Len(d)] /\ j - k - Len(d) \in 1..Len(q)
          BY <2>5, <2>6, <4>1, <4>3
        <5> QED
          BY <2>3, <4>1, <5>1, Zenon DEF Newer
      <4> QED
        BY <4>2, <4>3, Zenon
    <3>3. CASE ~(i <= k) /\ ~(i <= k + Len(d))
      <4>1. /\ st[i] = q[i - k - Len(d)] /\ i - k - Len(d) \in 1..Len(q)
            /\ st[j] = q[j - k - Len(d)] /\ j - k - Len(d) \in 1..Len(q)
            /\ i - k - Len(d) < j - k - Len(d)
        BY <2>5, <2>6, <2>8, <3>3
      <4> QED
        BY <2>3, <4>1, Zenon DEF Ordered
    <3> QED
      BY <3>1, <3>2, <3>3, Zenon
  <2>9. DOMAIN st = 1..Len(st)
    BY <2>5
  <2> QED
    BY <2>4, <2>7, <2>8, <2>9, Zenon
<1> QED
  BY <1>1, Invariance, PTL
=============================================================================
