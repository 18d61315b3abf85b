------------------------ MODULE UpstreamView_proofs ------------------------
(***************************************************************************)
(* The sliding window, for hits of any length; the dispatcher: its types,  *)
(* the discipline of its gate and what its scan promises its grant; and    *)
(* the rate budget of every key, as the upstream sees it.  For every pool, *)
(* every set of requests, every window and every margin.                   *)
(***************************************************************************)
EXTENDS UpstreamView, FiniteSetTheorems, SequenceTheorems, WellFoundedInduction, TLAPS

\* A non-empty set of natural numbers has a least element.
LEMMA LeastElement ==
  ASSUME NEW S \in SUBSET Nat, S # {}
  PROVE  \E i \in S : \A j \in S : i <= j
<1> DEFINE R == {ss \in Nat \X Nat : ss[1] < ss[2]}
<1>1. IsWellFoundedOn(R, Nat)
  BY NatLessThanWellFounded DEF OpToRel
<1>2. PICK i \in S : \A j \in S : ~(<<j, i>> \in R)
  <2> HIDE DEF R
  <2>. QED  BY <1>1, WFMin
<1>3. \A j \in S : ~(j < i)
  <2>1. ASSUME NEW j \in S, j < i  PROVE <<j, i>> \in R
    BY <2>1, SMT
  <2>. QED  BY <1>2, <2>1
<1>4. \A j \in S : j \in Nat /\ i \in Nat
  OBVIOUS
<1>. HIDE DEF R
<1>. QED
  BY <1>3, <1>4


(***************************************************************************)
(* Pruning drops a prefix: everything dropped has left the window, and the *)
(* first hit kept has not.                                                 *)
(***************************************************************************)
LEMMA PruneDropsPrefix ==
  ASSUME NEW h \in Seq(Nat), NEW n \in Nat
  PROVE  \E k \in 0..Len(h) :
           /\ Prune(h, n) \in Seq(Nat)
           /\ Len(Prune(h, n)) = Len(h) - k
           /\ \A i \in 1..Len(h) - k : Prune(h, n)[i] = h[i + k]
           /\ \A i \in 1..k : h[i] + Window <= n
           /\ k < Len(h) => n < h[k + 1] + Window
<1> DEFINE live == {i \in 1..Len(h) : n < h[i] + Window}
           first == CHOOSE i \in live : \A j \in live : i <= j
<1>1. \A i \in 1..Len(h) : h[i] \in Nat
  OBVIOUS
<1>2. CASE live = {}
  <2>1. Prune(h, n) = << >>
    BY <1>2 DEF Prune
  <2>2. \A i \in 1..Len(h) : h[i] + Window <= n
    <3>1. \A i \in 1..Len(h) : ~(n < h[i] + Window)
      <4>1. \A i \in 1..Len(h) : i \notin live
        <5>. HIDE DEF live
        <5>. QED  BY <1>2
      <4>. QED  BY <4>1
    <3>. HIDE DEF live
    <3>. QED  BY <3>1, <1>1, WindowAssumption
  <2>3. Prune(h, n) \in Seq(Nat) /\ Len(Prune(h, n)) = 0
    BY <2>1
  <2>4. Len(h) \in 0..Len(h)
    OBVIOUS
  <2>. HIDE DEF live
  <2>. WITNESS Len(h) \in 0..Len(h)
  <2>. QED
    BY <2>2, <2>3
<1>3. CASE live # {}
  <2>1. \E i \in live : \A j \in live : i <= j
    <3>1. live \in SUBSET Nat
      OBVIOUS
    <3>. HIDE DEF live
    <3>. QED  BY <1>3, <3>1, LeastElement
  <2>2. first \in live /\ \A j \in live : first <= j
    <3>. HIDE DEF live
    <3>. QED  BY <2>1
  <2>3. Prune(h, n) = SubSeq(h, first, Len(h))
    BY <1>3 DEF Prune
  <2>. DEFINE k == first - 1
  <2>4. first \in 1..Len(h) /\ n < h[first] + Window
    <3>. HIDE DEF first
    <3>. QED  BY <2>2
  <2>5. \A i \in 1..k : h[i] + Window <= n
    <3>1. ASSUME NEW i \in 1..k, n < h[i] + Window  PROVE FALSE
      <4>1. i \in live
        <5>. HIDE DEF first
        <5>. QED  BY <3>1, <2>4
      <4>. HIDE DEF live, first
      <4>. QED  BY <4>1, <2>2, <2>4
    <3>. HIDE DEF first
    <3>. QED  BY <3>1, <1>1, <2>4, WindowAssumption
  <2>. HIDE DEF live, first
  <2>6. k \in 0..Len(h)
    BY <2>4
  <2>7. /\ Prune(h, n) \in Seq(Nat)
        /\ Len(Prune(h, n)) = Len(h) - k
        /\ \A i \in 1..Len(h) - k : Prune(h, n)[i] = h[i + k]
    BY <2>3, <2>4
  <2>8. k < Len(h) => n < h[k + 1] + Window
    BY <2>4
  <2>. HIDE DEF k
  <2>. QED
    BY <2>5, <2>6, <2>7, <2>8
<1>. QED
  BY <1>2, <1>3

\* Nothing is popped from hits whose first one is still in the window.
LEMMA PruneKeepsLive ==
  ASSUME NEW h \in Seq(Nat), NEW n \in Nat,
         h # << >> => n < h[1] + Window
  PROVE  Prune(h, n) = h
<1>1. PICK k \in 0..Len(h) :
        /\ Prune(h, n) \in Seq(Nat)
        /\ Len(Prune(h, n)) = Len(h) - k
        /\ \A i \in 1..Len(h) - k : Prune(h, n)[i] = h[i + k]
        /\ \A i \in 1..k : h[i] + Window <= n
  BY PruneDropsPrefix
<1>2. k = 0
  <2>1. ASSUME k # 0  PROVE FALSE
    <3>1. 1 \in 1..k /\ h # << >> /\ h[1] \in Nat
      BY <2>1
    <3>. QED  BY <1>1, <3>1, WindowAssumption
  <2>. QED  BY <2>1
<1>3. /\ Len(Prune(h, n)) = Len(h)
      /\ \A i \in 1..Len(h) : Prune(h, n)[i] = h[i]
  BY <1>1, <1>2
<1>. DEFINE p == Prune(h, n)
<1>4. p \in Seq(Nat) /\ Len(p) = Len(h) /\ \A i \in 1..Len(h) : p[i] = h[i]
  BY <1>1, <1>3
<1>5. p = h
  <2>. HIDE DEF p
  <2>. QED  BY <1>4, SeqEqual
<1>. QED  BY <1>5

\* What pruning leaves starts with a hit that is still in the window.
LEMMA PruneStartsLive ==
  ASSUME NEW h \in Seq(Nat), NEW n \in Nat, Prune(h, n) # << >>
  PROVE  n < Prune(h, n)[1] + Window
<1>1. PICK k \in 0..Len(h) :
        /\ Prune(h, n) \in Seq(Nat)
        /\ Len(Prune(h, n)) = Len(h) - k
        /\ \A i \in 1..Len(h) - k : Prune(h, n)[i] = h[i + k]
        /\ k < Len(h) => n < h[k + 1] + Window
  BY PruneDropsPrefix
<1>2. k < Len(h)
  BY <1>1
<1>. QED  BY <1>1, <1>2

(***************************************************************************)
(* Up to the instant RetryAt names, a window pruned at n stays as it is:   *)
(* pruning it again drops nothing.                                         *)
(***************************************************************************)
LEMMA FullUntilRetry ==
  ASSUME NEW h \in Seq(Nat), NEW n \in Nat, NEW t \in Nat,
         t = n \/ t < RetryAt(h, n)
  PROVE  /\ Prune(Prune(h, n), t) = Prune(h, n)
         /\ Load(Prune(h, n), t) = Load(h, n)
<1>. DEFINE p == Prune(h, n)
<1>1. p \in Seq(Nat)
  BY PruneDropsPrefix
<1>2. p # << >> => t < p[1] + Window
  BY PruneStartsLive DEF RetryAt
<1>3. Prune(p, t) = p
  <2>. HIDE DEF p
  <2>. QED  BY <1>1, <1>2, PruneKeepsLive
<1>. QED  BY <1>3 DEF Load

-----------------------------------------------------------------------------

(***************************************************************************)
(* The limiter's operators keep to their types.                            *)
(***************************************************************************)
LEMMA LimiterTypes ==
  ASSUME NEW h \in Seq(Nat), NEW t \in Nat
  PROVE  /\ Prune(h, t) \in Seq(Nat)
         /\ Hit(h, t) \in Seq(Nat)
         /\ RetryAt(h, t) \in Nat
<1>1. Prune(h, t) \in Seq(Nat)
  BY PruneDropsPrefix
<1>2. Hit(h, t) \in Seq(Nat)
  BY <1>1 DEF Hit
<1>3. RetryAt(h, t) \in Nat
  <2>1. CASE Prune(h, t) = << >>
    BY <2>1, WindowAssumption DEF RetryAt
  <2>2. CASE Prune(h, t) # << >>
    <3>1. Prune(h, t)[1] \in Nat
      BY <1>1, <2>2
    <3>. QED  BY <2>2, <3>1, WindowAssumption DEF RetryAt
  <2>. QED  BY <2>1, <2>2
<1>. QED  BY <1>1, <1>2, <1>3

(***************************************************************************)
(* Typing, with what the code holds in its locals: a request past its      *)
(* scan's choice names a lane of the pool.                                 *)
(***************************************************************************)
LaneKnown == \A r \in Requests : phase[r] \in {"chosen", "granted"} => lane[r] \in Lanes

TypeInv == TypeOK /\ LaneKnown

\* The instants a scan may sleep to are instants.
LEMMA WakesType ==
  ASSUME TypeInv, NEW r \in Requests, NEW t \in Wakes(r)
  PROVE  t \in Nat
<1>1. Reopenings(r) \subseteq Nat
  <2>1. \A l \in Lanes : cooldown[l] \in Nat
    BY DEF TypeInv, TypeOK
  <2>2. \A l \in Lanes : RetryAt(hits[l], now) \in Nat
    BY LimiterTypes DEF TypeInv, TypeOK
  <2>3. Eligible(r) \subseteq Lanes /\ Open(r) \subseteq Lanes
    BY DEF Eligible, Open
  <2>. QED  BY <2>1, <2>2, <2>3 DEF Reopenings
<1>2. CASE Reopenings(r) = {}
  BY <1>2, DispatcherAssumption DEF Wakes, TypeInv, TypeOK
<1>3. CASE Reopenings(r) # {}
  BY <1>1, <1>3 DEF Wakes
<1>. QED  BY <1>2, <1>3

\* What every scan leaves behind.
LEMMA ScanType ==
  ASSUME TypeInv, NEW r \in Requests, Scan(r)
  PROVE  /\ now' \in Nat
         /\ hits' \in [Lanes -> Seq(Nat)]
         /\ cooldown' \in [Lanes -> Nat]
         /\ tried' \in [Requests -> SUBSET Lanes]
<1>1. \A l \in Lanes : Prune(hits[l], now) \in Seq(Nat)
  BY LimiterTypes DEF TypeInv, TypeOK
<1>2. \A l \in Lanes : hits[l] \in Seq(Nat)
  BY DEF TypeInv, TypeOK
<1>3. hits' \in [Lanes -> Seq(Nat)]
  BY <1>1, <1>2 DEF Scan
<1>. QED  BY <1>3 DEF Scan, TypeInv, TypeOK

LEMMA TypeInvInductive == TypeInv /\ [Next]_vars => TypeInv'
<1>. SUFFICES ASSUME TypeInv, [Next]_vars
              PROVE  TypeInv'
  OBVIOUS
<1>. USE DEF TypeInv, TypeOK, LaneKnown, Phases, NoWant, NoScan
<1>1. CASE Tick
  BY <1>1 DEF Tick, lanes
<1>2. ASSUME NEW r \in Requests, NEW w \in Wants, Arrive(r, w)
      PROVE  TypeInv'
  BY <1>2 DEF Arrive, lanes
<1>3. ASSUME NEW r \in Requests, ScanChooses(r)
      PROVE  TypeInv'
  <2>1. scan' \in [at : Nat, wake : Nat]
    BY <1>3, WakesType DEF ScanChooses
  <2>2. PICK l \in WithRoom(r) : lane' = [lane EXCEPT ![r] = l]
    BY <1>3 DEF ScanChooses
  <2>3. l \in Lanes
    BY DEF WithRoom, Open, Eligible
  <2>4. lane' \in [Requests -> Lanes \cup {ANY}] /\ LaneKnown'
    BY <1>3, <2>2, <2>3 DEF ScanChooses
  <2>5. Scan(r)
    BY <1>3 DEF ScanChooses
  <2>6. phase' \in [Requests -> Phases] /\ queue' = queue /\ want' = want
    BY <1>3 DEF ScanChooses
  <2>. QED  BY <2>1, <2>4, <2>5, <2>6, ScanType
<1>4. ASSUME NEW r \in Requests, ScanRefuses(r)
      PROVE  TypeInv'
  <2>1. Scan(r)
    BY <1>4 DEF ScanRefuses
  <2>2. /\ phase' = [phase EXCEPT ![r] = "idle"]
        /\ want' = [want EXCEPT ![r] = NoWant]
        /\ scan' = NoScan
        /\ lane' = lane
    BY <1>4 DEF ScanRefuses, Leave
  <2>3. queue' \in Seq(Requests)
    BY <1>4 DEF ScanRefuses, Scan, HoldsGate
  <2>. QED  BY <2>1, <2>2, <2>3, ScanType
<1>5. ASSUME NEW r \in Requests, ScanWaits(r)
      PROVE  TypeInv'
  <2>1. scan' \in [at : Nat, wake : Nat]
    BY <1>5, WakesType DEF ScanWaits
  <2>2. Scan(r)
    BY <1>5 DEF ScanWaits
  <2>3. /\ phase' = [phase EXCEPT ![r] = "asleep"]
        /\ UNCHANGED <<queue, want, lane>>
    BY <1>5 DEF ScanWaits
  <2>. QED  BY <2>1, <2>2, <2>3, ScanType
<1>6. ASSUME NEW r \in Requests, Take(r)
      PROVE  TypeInv'
  <2>1. /\ Prune(hits[lane[r]], scan.at) \in Seq(Nat)
        /\ Hit(hits[lane[r]], scan.at) \in Seq(Nat)
    BY <1>6, LimiterTypes DEF Take
  <2>2. CASE HasRoom(hits[lane[r]], Rpm[lane[r]], scan.at)
    <3>1. hits' = [hits EXCEPT ![lane[r]] = Hit(hits[lane[r]], scan.at)]
      BY <1>6, <2>2 DEF Take
    <3>2. queue' \in Seq(Requests)
      <4>1. queue # << >> /\ queue' = Tail(queue)
        BY <1>6, <2>2 DEF Take, HoldsGate
      <4>. QED  BY <4>1
    <3>3. /\ phase' = [phase EXCEPT ![r] = "granted"]
          /\ want' = [want EXCEPT ![r] = NoWant]
          /\ scan' = NoScan
          /\ UNCHANGED <<now, cooldown, tried, lane>>
          /\ phase[r] = "chosen"
      BY <1>6, <2>2 DEF Take, Leave
    <3>. QED  BY <2>1, <3>1, <3>2, <3>3
  <2>3. CASE ~HasRoom(hits[lane[r]], Rpm[lane[r]], scan.at)
    <3>1. /\ hits' = [hits EXCEPT ![lane[r]] = Prune(hits[lane[r]], scan.at)]
          /\ phase' = [phase EXCEPT ![r] = "asleep"]
          /\ UNCHANGED <<queue, want, scan, now, cooldown, tried, lane>>
      BY <1>6, <2>3 DEF Take
    <3>. QED  BY <2>1, <3>1
  <2>. QED  BY <2>2, <2>3
<1>7. ASSUME NEW r \in Requests, Drop(r)
      PROVE  TypeInv'
  <2>1. queue' \in Seq(Requests)
    BY <1>7 DEF Drop
  <2>. QED  BY <1>7, <2>1 DEF Drop, Leave, lanes
<1>8. ASSUME NEW r \in Requests, Answered(r)
      PROVE  TypeInv'
  BY <1>8 DEF Answered, GiveBack
<1>9. ASSUME NEW r \in Requests, SendFails(r)
      PROVE  TypeInv'
  BY <1>9 DEF SendFails, GiveBack
<1>10. ASSUME NEW r \in Requests, PlanExhausted(r)
       PROVE  TypeInv'
  BY <1>10 DEF PlanExhausted, lanes
<1>11. ASSUME NEW r \in Requests, NEW b \in Backoffs, Rebuff(r, b)
       PROVE  TypeInv'
  <2>1. now + b \in Nat
    BY DispatcherAssumption
  <2>2. /\ phase[r] = "granted"
        /\ cooldown' = [cooldown EXCEPT ![lane[r]] =
                          IF cooldown[lane[r]] > now + b THEN cooldown[lane[r]] ELSE now + b]
        /\ tried' = [tried EXCEPT ![r] = tried[r] \cup {lane[r]}]
        /\ phase' = [phase EXCEPT ![r] = "idle"]
        /\ lane' = [lane EXCEPT ![r] = ANY]
        /\ UNCHANGED <<now, hits, queue, want, scan>>
    BY <1>11 DEF Rebuff, GiveBack
  <2>3. cooldown' \in [Lanes -> Nat]
    BY <2>1, <2>2
  <2>4. tried' \in [Requests -> SUBSET Lanes] /\ lane' \in [Requests -> Lanes \cup {ANY}]
    BY <2>2
  <2>. QED  BY <2>2, <2>3, <2>4
<1>12. CASE UNCHANGED vars
  BY <1>12 DEF vars
<1>. QED
  BY <1>1, <1>2, <1>3, <1>4, <1>5, <1>6, <1>7, <1>8, <1>9, <1>10, <1>11, <1>12
     DEF Next, GateStep, ProxyStep

\* The state of the dispatcher is well typed in every reachable state.
THEOREM DispatcherTypes == Spec => []TypeOK
<1>1. Init => TypeInv
  BY DispatcherAssumption
     DEF Init, TypeInv, TypeOK, LaneKnown, Phases, NoWant, NoScan
<1>2. TypeInv => TypeOK
  BY DEF TypeInv
<1>. QED  BY <1>1, <1>2, TypeInvInductive, PTL DEF Spec

-----------------------------------------------------------------------------
(***************************************************************************)
(* The gate.  A queue without repetitions loses exactly one member when    *)
(* its head leaves and when a caller drops out of its middle.              *)
(***************************************************************************)
Distinct(q) == \A i, j \in 1..Len(q) : q[i] = q[j] => i = j
In(x, q) == \E i \in 1..Len(q) : q[i] = x
Without(q, k) == SubSeq(q, 1, k - 1) \o SubSeq(q, k + 1, Len(q))

LEMMA TailOfDistinct ==
  ASSUME NEW S, NEW q \in Seq(S), q # << >>, Distinct(q)
  PROVE  /\ Distinct(Tail(q))
         /\ \A x : In(x, Tail(q)) <=> In(x, q) /\ x # Head(q)
<1>1. /\ Len(Tail(q)) = Len(q) - 1
      /\ Len(q) \in Nat \ {0}
      /\ \A i \in 1..Len(q) - 1 : Tail(q)[i] = q[i + 1]
      /\ Head(q) = q[1]
  OBVIOUS
<1>2. Distinct(Tail(q))
  BY <1>1 DEF Distinct
<1>3. ASSUME NEW x, In(x, Tail(q))  PROVE In(x, q) /\ x # Head(q)
  <2>1. PICK i \in 1..Len(q) - 1 : q[i + 1] = x
    BY <1>1, <1>3 DEF In
  <2>2. i + 1 \in 1..Len(q) /\ 1 \in 1..Len(q) /\ i + 1 # 1
    BY <1>1
  <2>. QED  BY <1>1, <2>1, <2>2 DEF In, Distinct
<1>4. ASSUME NEW x, In(x, q), x # Head(q)  PROVE In(x, Tail(q))
  <2>1. PICK i \in 1..Len(q) : q[i] = x
    BY <1>4 DEF In
  <2>2. i - 1 \in 1..Len(q) - 1
    BY <1>1, <1>4, <2>1
  <2>3. Tail(q)[i - 1] = x
    BY <1>1, <2>1, <2>2
  <2>. QED  BY <1>1, <2>2, <2>3 DEF In
<1>. QED  BY <1>2, <1>3, <1>4

LEMMA WithoutOfDistinct ==
  ASSUME NEW S, NEW q \in Seq(S), Distinct(q), NEW k \in 1..Len(q)
  PROVE  /\ Without(q, k) \in Seq(S)
         /\ Distinct(Without(q, k))
         /\ \A x : In(x, Without(q, k)) <=> In(x, q) /\ x # q[k]
         /\ k # 1 => Without(q, k) # << >> /\ Head(Without(q, k)) = Head(q)
<1>. DEFINE w == Without(q, k)
<1>1. /\ w \in Seq(S)
      /\ Len(w) = Len(q) - 1
      /\ \A i \in 1..Len(q) - 1 : w[i] = IF i < k THEN q[i] ELSE q[i + 1]
  <2>. DEFINE a == SubSeq(q, 1, k - 1)
              b == SubSeq(q, k + 1, Len(q))
  <2>1. a \in Seq(S) /\ Len(a) = k - 1 /\ \A i \in 1..k - 1 : a[i] = q[i]
    OBVIOUS
  <2>2. /\ b \in Seq(S)
        /\ Len(b) = Len(q) - k
        /\ \A i \in 1..Len(q) - k : b[i] = q[i + k]
    OBVIOUS
  <2>3. w = a \o b
    BY DEF Without
  <2>. HIDE DEF a, b, w
  <2>4. /\ w \in Seq(S)
        /\ Len(w) = Len(a) + Len(b)
        /\ \A i \in 1..Len(a) + Len(b) : w[i] = IF i <= Len(a) THEN a[i] ELSE b[i - Len(a)]
    BY <2>1, <2>2, <2>3, ConcatProperties
  <2>5. ASSUME NEW i \in 1..Len(q) - 1  PROVE w[i] = IF i < k THEN q[i] ELSE q[i + 1]
    <3>1. CASE i < k
      <4>1. i \in 1..k - 1 /\ i \in 1..Len(a) + Len(b) /\ i <= Len(a)
        BY <2>1, <2>2, <3>1
      <4>2. w[i] = a[i]
        BY <2>4, <4>1
      <4>. QED  BY <2>1, <3>1, <4>1, <4>2
    <3>2. CASE ~(i < k)
      <4>1. w[i] = b[i - (k - 1)] /\ i - (k - 1) \in 1..Len(q) - k
        <5>1. Len(q) \in Nat /\ Len(a) = k - 1 /\ Len(a) + Len(b) = Len(q) - 1
          BY <2>1, <2>2
        <5>2. i \in 1..Len(a) + Len(b) /\ ~(i <= Len(a))
          BY <3>2, <5>1
        <5>3. w[i] = b[i - Len(a)]
          BY <2>4, <5>2
        <5>. QED  BY <3>2, <5>1, <5>3
      <4>2. b[i - (k - 1)] = q[(i - (k - 1)) + k] /\ (i - (k - 1)) + k = i + 1
        BY <2>2, <4>1
      <4>. QED  BY <3>2, <4>1, <4>2
    <3>. QED  BY <3>1, <3>2
  <2>. QED  BY <2>1, <2>2, <2>4, <2>5
<1>. HIDE DEF w
<1>2. Distinct(w)
  BY <1>1 DEF Distinct
<1>3. ASSUME NEW x, In(x, w)  PROVE In(x, q) /\ x # q[k]
  <2>1. PICK i \in 1..Len(q) - 1 : w[i] = x
    BY <1>1, <1>3 DEF In
  <2>2. CASE i < k
    BY <1>1, <2>1, <2>2 DEF In, Distinct
  <2>3. CASE ~(i < k)
    <3>1. q[i + 1] = x /\ i + 1 \in 1..Len(q) /\ i + 1 # k
      BY <1>1, <2>1, <2>3
    <3>. QED  BY <3>1 DEF In, Distinct
  <2>. QED  BY <2>2, <2>3
<1>4. ASSUME NEW x, In(x, q), x # q[k]  PROVE In(x, w)
  <2>1. PICK i \in 1..Len(q) : q[i] = x
    BY <1>4 DEF In
  <2>2. CASE i < k
    <3>1. i \in 1..Len(w) /\ w[i] = x
      BY <1>1, <2>1, <2>2
    <3>. QED  BY <3>1 DEF In
  <2>3. CASE ~(i < k)
    <3>1. i # k
      BY <1>4, <2>1
    <3>2. i - 1 \in 1..Len(w) /\ w[i - 1] = q[(i - 1) + 1]
      BY <1>1, <2>3, <3>1
    <3>3. w[i - 1] = x
      BY <2>1, <3>2
    <3>. QED  BY <3>2, <3>3 DEF In
  <2>. QED  BY <2>2, <2>3
<1>5. k # 1 => w # << >> /\ Head(w) = Head(q)
  <2>1. ASSUME k # 1  PROVE w # << >> /\ Head(w) = Head(q)
    <3>1. 1 \in 1..Len(q) - 1 /\ 1 < k
      BY <2>1
    <3>2. w[1] = q[1] /\ Len(w) # 0
      BY <1>1, <3>1
    <3>3. Head(w) = w[1] /\ Head(q) = q[1]
      BY <1>1
    <3>. QED  BY <3>2, <3>3
  <2>. QED  BY <2>1
<1>. QED  BY <1>1, <1>2, <1>3, <1>4, <1>5 DEF w

LEMMA AppendToDistinct ==
  ASSUME NEW S, NEW q \in Seq(S), Distinct(q), NEW y \in S, ~In(y, q)
  PROVE  /\ Distinct(Append(q, y))
         /\ \A x : In(x, Append(q, y)) <=> In(x, q) \/ x = y
         /\ q # << >> => Head(Append(q, y)) = Head(q)
<1>1. /\ Len(Append(q, y)) = Len(q) + 1
      /\ \A i \in 1..Len(q) : Append(q, y)[i] = q[i]
      /\ Append(q, y)[Len(q) + 1] = y
      /\ Len(q) \in Nat
  OBVIOUS
<1>2. Distinct(Append(q, y))
  BY <1>1 DEF Distinct, In
<1>3. \A x : In(x, Append(q, y)) <=> In(x, q) \/ x = y
  BY <1>1 DEF In
<1>4. q # << >> => Head(Append(q, y)) = Head(q)
  BY <1>1
<1>. QED  BY <1>2, <1>3, <1>4

LEMMA GateHeldByHeadInductive ==
  TypeInv /\ GateHeldByHead /\ [Next]_vars => GateHeldByHead'
<1>. DEFINE Waiting(p) == p \in {"queued", "chosen", "asleep"}
            Gate(q, p) ==
              /\ Distinct(q)
              /\ \A r \in Requests : Waiting(p[r]) <=> In(r, q)
              /\ \A r \in Requests : p[r] \in {"chosen", "asleep"} => q # << >> /\ Head(q) = r
<1>1. GateHeldByHead <=> Gate(queue, phase)
  BY DEF GateHeldByHead, Distinct, In, HoldsGate
<1>2. GateHeldByHead' <=> Gate(queue', phase')
  BY DEF GateHeldByHead, Distinct, In, HoldsGate
<1>. SUFFICES ASSUME TypeInv, Gate(queue, phase), [Next]_vars
              PROVE  Gate(queue', phase')
  BY <1>1, <1>2
<1>. USE DEF TypeInv, TypeOK
\* Nothing that matters to the gate changes.
<1>3. ASSUME NEW r \in Requests, ~Waiting(phase[r]), queue' = queue,
             phase' = phase \/ phase' = [phase EXCEPT ![r] = "idle"]
      PROVE  Gate(queue', phase')
  BY <1>3
\* The head goes on to hold the gate.
<1>4. ASSUME NEW r \in Requests, HoldsGate(r), Waiting(phase[r]), queue' = queue,
             NEW p \in {"chosen", "asleep"}, phase' = [phase EXCEPT ![r] = p]
      PROVE  Gate(queue', phase')
  BY <1>4 DEF HoldsGate
\* The head leaves the queue.
<1>5. ASSUME NEW r \in Requests, HoldsGate(r), queue' = Tail(queue),
             NEW p \in {"idle", "granted"}, phase' = [phase EXCEPT ![r] = p]
      PROVE  Gate(queue', phase')
  <2>1. /\ Distinct(queue')
        /\ \A x : In(x, queue') <=> In(x, queue) /\ x # r
    BY <1>5, TailOfDistinct DEF HoldsGate
  <2>2. \A q \in Requests : q # r => phase'[q] = phase[q] /\ phase[q] \notin {"chosen", "asleep"}
    BY <1>5 DEF HoldsGate
  <2>3. phase'[r] = p
    BY <1>5
  <2>. QED  BY <2>1, <2>2, <2>3
<1>6. ASSUME NEW r \in Requests, NEW w \in Wants, Arrive(r, w)
      PROVE  Gate(queue', phase')
  <2>1. /\ phase[r] = "idle"
        /\ phase' = [phase EXCEPT ![r] = "queued"]
        /\ queue' = Append(queue, r)
    BY <1>6 DEF Arrive
  <2>2. ~In(r, queue)
    BY <2>1
  <2>3. /\ Distinct(queue')
        /\ \A x : In(x, queue') <=> In(x, queue) \/ x = r
        /\ queue # << >> => queue' # << >> /\ Head(queue') = Head(queue)
    BY <2>1, <2>2, AppendToDistinct
  <2>. QED  BY <2>1, <2>3
<1>7. ASSUME NEW r \in Requests, Drop(r)
      PROVE  Gate(queue', phase')
  <2>1. PICK k \in 1..Len(queue) : queue[k] = r /\ queue' = Without(queue, k)
    BY <1>7 DEF Drop, Without
  <2>2. /\ phase[r] \in {"queued", "asleep"}
        /\ phase' = [phase EXCEPT ![r] = "idle"]
    BY <1>7 DEF Drop, Leave
  <2>3. /\ Distinct(queue')
        /\ \A x : In(x, queue') <=> In(x, queue) /\ x # r
        /\ k # 1 => queue' # << >> /\ Head(queue') = Head(queue)
    BY <2>1, WithoutOfDistinct
  <2>4. ASSUME NEW q \in Requests, q # r, phase[q] \in {"chosen", "asleep"}
        PROVE  k # 1
    BY <2>1, <2>4
  <2>. QED  BY <2>2, <2>3, <2>4
<1>8. ASSUME NEW r \in Requests, GateStep(r)
      PROVE  Gate(queue', phase')
  <2>1. CASE ScanChooses(r)
    BY <1>4, <2>1 DEF ScanChooses, Scan
  <2>2. CASE ScanRefuses(r)
    BY <1>5, <2>2 DEF ScanRefuses, Scan, Leave
  <2>3. CASE ScanWaits(r)
    BY <1>4, <2>3 DEF ScanWaits, Scan
  <2>4. CASE Take(r)
    <3>1. CASE HasRoom(hits[lane[r]], Rpm[lane[r]], scan.at)
      BY <1>5, <2>4, <3>1 DEF Take, Leave
    <3>2. CASE ~HasRoom(hits[lane[r]], Rpm[lane[r]], scan.at)
      BY <1>4, <2>4, <3>2 DEF Take
    <3>. QED  BY <3>1, <3>2
  <2>. QED  BY <1>8, <2>1, <2>2, <2>3, <2>4 DEF GateStep
<1>9. ASSUME NEW r \in Requests, ProxyStep(r)
      PROVE  Gate(queue', phase')
  <2>1. /\ phase[r] \in {"granted", "idle"}
        /\ queue' = queue
        /\ phase' = phase \/ phase' = [phase EXCEPT ![r] = "idle"]
    BY <1>9 DEF ProxyStep, Answered, SendFails, PlanExhausted, Rebuff, GiveBack
  <2>. QED  BY <1>3, <2>1
<1>10. CASE Tick \/ UNCHANGED vars
  BY <1>10 DEF Tick, vars, lanes
<1>. QED
  BY <1>6, <1>7, <1>8, <1>9, <1>10 DEF Next

\* In every reachable state the gate's queue holds exactly the callers inside
\* acquire_for, each once, and only its head is past the gate.
THEOREM GateDiscipline == Spec => []GateHeldByHead
<1>1. Init => TypeInv /\ GateHeldByHead
  BY DispatcherAssumption
     DEF Init, TypeInv, TypeOK, LaneKnown, Phases, NoWant, NoScan, GateHeldByHead
<1>. QED  BY <1>1, TypeInvInductive, GateHeldByHeadInductive, PTL DEF Spec

-----------------------------------------------------------------------------
(***************************************************************************)
(* Between a scan and its grant.  The lane the scan chose can only lose    *)
(* room by a grant, and the gate keeps every other request from one.       *)
(***************************************************************************)
\* Two requests past the gate are one.
LEMMA OnePastGate ==
  ASSUME GateHeldByHead, NEW q \in Requests, NEW r \in Requests,
         phase[r] \in {"chosen", "asleep"}, phase[q] \in {"chosen", "asleep"} \/ HoldsGate(q)
  PROVE  q = r
BY DEF GateHeldByHead, HoldsGate

LEMMA ChosenStillFreeInductive ==
  TypeInv /\ GateHeldByHead /\ ChosenStillFree /\ [Next]_vars => ChosenStillFree'
<1>. SUFFICES ASSUME TypeInv, GateHeldByHead, ChosenStillFree, [Next]_vars,
                     NEW r \in Requests, phase'[r] = "chosen"
              PROVE  HasRoom(hits'[lane'[r]], Rpm[lane'[r]], scan'.at)
  BY DEF ChosenStillFree
<1>. USE DEF TypeInv, TypeOK
\* Whoever was chosen already still is, with the same window.
<1>1. ASSUME phase[r] = "chosen", lane'[r] = lane[r], scan' = scan, hits' = hits
      PROVE  HasRoom(hits'[lane'[r]], Rpm[lane'[r]], scan'.at)
  BY <1>1 DEF ChosenStillFree
<1>2. ASSUME NEW q \in Requests, ScanChooses(q)
      PROVE  HasRoom(hits'[lane'[r]], Rpm[lane'[r]], scan'.at)
  <2>1. q = r
    <3>1. HoldsGate(q) /\ (q # r => phase[r] = "chosen")
      BY <1>2 DEF ScanChooses, Scan
    <3>. QED  BY <3>1, OnePastGate
  <2>2. PICK l \in WithRoom(r) : lane' = [lane EXCEPT ![r] = l]
    BY <1>2, <2>1 DEF ScanChooses
  <2>3. l \in Lanes /\ l \in Open(r) /\ HasRoom(hits[l], Rpm[l], now)
    BY DEF WithRoom, Open, Eligible
  <2>4. lane'[r] = l /\ scan'.at = now /\ hits'[l] = Prune(hits[l], now)
    BY <1>2, <2>1, <2>2, <2>3 DEF ScanChooses, Scan
  <2>5. Load(hits'[l], now) = Load(hits[l], now)
    BY <2>3, <2>4, FullUntilRetry
  <2>. QED  BY <2>3, <2>4, <2>5 DEF HasRoom
<1>3. ASSUME NEW q \in Requests, ScanRefuses(q) \/ ScanWaits(q) \/ Take(q)
      PROVE  FALSE
  <2>1. HoldsGate(q) /\ phase'[q] # "chosen" /\ (q # r => phase[r] = "chosen")
    BY <1>3 DEF ScanRefuses, ScanWaits, Take, Scan, Leave
  <2>. QED  BY <2>1, OnePastGate
<1>4. ASSUME NEW q \in Requests, Drop(q)
      PROVE  HasRoom(hits'[lane'[r]], Rpm[lane'[r]], scan'.at)
  <2>1. q # r /\ phase[r] = "chosen" /\ phase[q] # "chosen"
    BY <1>4 DEF Drop, Leave
  <2>2. phase[q] # "asleep"
    BY <2>1, OnePastGate
  <2>. QED  BY <1>1, <1>4, <2>1, <2>2 DEF Drop, lanes
<1>5. ASSUME NEW q \in Requests,
             (\E w \in Wants : Arrive(q, w)) \/ ProxyStep(q)
      PROVE  HasRoom(hits'[lane'[r]], Rpm[lane'[r]], scan'.at)
  <2>1. phase[r] = "chosen" /\ scan' = scan /\ hits' = hits
    BY <1>5 DEF Arrive, lanes, ProxyStep, Answered, SendFails, PlanExhausted, Rebuff, GiveBack
  <2>2. lane' = lane \/ (phase[q] = "granted" /\ lane' = [lane EXCEPT ![q] = ANY])
    BY <1>5 DEF Arrive, ProxyStep, Answered, SendFails, PlanExhausted, Rebuff, GiveBack
  <2>3. lane'[r] = lane[r]
    BY <2>1, <2>2
  <2>. QED  BY <1>1, <2>1, <2>3
<1>6. CASE Tick \/ UNCHANGED vars
  BY <1>1, <1>6 DEF Tick, vars, lanes
<1>. QED
  BY <1>2, <1>3, <1>4, <1>5, <1>6 DEF Next, GateStep

\* In every reachable state the lane a scan chose still has the room the scan saw.
THEOREM ScanAndGrantAgree == Spec => []ChosenStillFree
<1>1. Init => TypeInv /\ GateHeldByHead /\ ChosenStillFree
  BY DispatcherAssumption
     DEF Init, TypeInv, TypeOK, LaneKnown, Phases, NoWant, NoScan, GateHeldByHead,
         ChosenStillFree
<1>. QED
  BY <1>1, TypeInvInductive, GateHeldByHeadInductive, ChosenStillFreeInductive, PTL DEF Spec

-----------------------------------------------------------------------------
(***************************************************************************)
(* The sleep of the gate holder.  A scan that finds no room sleeps to the  *)
(* soonest of the reopenings; up to there a benched lane stays benched and *)
(* a full window stays full.                                               *)
(***************************************************************************)
LEMMA ScanSleepsToSoonest ==
  ASSUME TypeInv, NEW r \in Requests, ScanWaits(r),
         NEW l \in Eligible(r), NEW t \in Nat, now <= t, t < scan'.wake
  PROVE  cooldown[l] > t \/ ~HasRoom(hits'[l], Rpm[l], t)
<1>. USE DEF TypeInv, TypeOK
<1>1. scan'.wake \in Wakes(r)
  BY DEF ScanWaits
<1>2. l \in Lanes /\ Scan(r) /\ WithRoom(r) = {}
  BY DEF ScanWaits, Eligible
<1>3. CASE l \in Open(r)
  <2>1. ~HasRoom(hits[l], Rpm[l], now)
    BY <1>2, <1>3 DEF WithRoom
  <2>2. RetryAt(hits[l], now) \in Reopenings(r)
    BY <1>2, <1>3 DEF Reopenings
  <2>3. scan'.wake <= RetryAt(hits[l], now)
    BY <1>1, <2>2 DEF Wakes
  <2>4. t < RetryAt(hits[l], now)
    <3>1. RetryAt(hits[l], now) \in Nat /\ scan'.wake \in Nat
      BY <1>1, <1>2, LimiterTypes, WakesType
    <3>. QED  BY <2>3, <3>1
  <2>5. Load(Prune(hits[l], now), t) = Load(hits[l], now)
    BY <1>2, <2>4, FullUntilRetry
  <2>6. hits'[l] = Prune(hits[l], now)
    BY <1>2, <1>3 DEF Scan
  <2>. QED  BY <2>1, <2>5, <2>6 DEF HasRoom
<1>4. CASE l \notin Open(r)
  <2>1. cooldown[l] \in Reopenings(r)
    BY <1>4 DEF Reopenings
  <2>2. scan'.wake <= cooldown[l]
    BY <1>1, <2>1 DEF Wakes
  <2>3. scan'.wake \in Nat /\ cooldown[l] \in Nat
    BY <1>1, <1>2, WakesType
  <2>. QED  BY <2>2, <2>3
<1>. QED  BY <1>3, <1>4

LEMMA NoOversleepInductive ==
  TypeInv /\ GateHeldByHead /\ ChosenStillFree /\ NoOversleep /\ [Next]_vars => NoOversleep'
<1>. SUFFICES ASSUME TypeInv, TypeInv', GateHeldByHead, ChosenStillFree, NoOversleep, [Next]_vars,
                     NEW r \in Requests, phase'[r] = "asleep",
                     NEW l \in Eligible(r)', NEW t \in now' .. scan'.wake - 1
              PROVE  cooldown'[l] > t \/ ~HasRoom(hits'[l], Rpm[l], t)
  BY TypeInvInductive DEF NoOversleep
<1>. USE DEF TypeInv, TypeOK
<1>1. l \in Lanes /\ t \in Nat /\ now' <= t /\ t < scan'.wake
  BY DEF Eligible
\* Whoever slept already still does: benches may have grown, nothing else matters.
<1>2. ASSUME phase[r] = "asleep", want'[r] = want[r], tried'[r] = tried[r],
             scan' = scan, hits' = hits, now <= now', cooldown[l] <= cooldown'[l]
      PROVE  cooldown'[l] > t \/ ~HasRoom(hits'[l], Rpm[l], t)
  <2>1. l \in Eligible(r)
    BY <1>2 DEF Eligible
  <2>2. t \in now .. scan.wake - 1
    BY <1>1, <1>2
  <2>3. cooldown[l] > t \/ ~HasRoom(hits[l], Rpm[l], t)
    BY <1>2, <2>1, <2>2 DEF NoOversleep
  <2>. QED  BY <1>1, <1>2, <2>3
<1>3. ASSUME NEW q \in Requests, ScanWaits(q)
      PROVE  cooldown'[l] > t \/ ~HasRoom(hits'[l], Rpm[l], t)
  <2>1. q = r
    <3>1. HoldsGate(q) /\ (q # r => phase[r] = "asleep")
      BY <1>3 DEF ScanWaits, Scan
    <3>. QED  BY <3>1, OnePastGate
  <2>2. UNCHANGED <<now, cooldown, want, tried>>
    BY <1>3 DEF ScanWaits, Scan
  <2>3. l \in Eligible(r) /\ now <= t
    BY <1>1, <2>2 DEF Eligible
  <2>. QED  BY <1>1, <1>3, <2>1, <2>2, <2>3, ScanSleepsToSoonest
<1>4. ASSUME NEW q \in Requests, ScanRefuses(q) \/ ScanChooses(q) \/ Take(q)
      PROVE  FALSE
  <2>1. HoldsGate(q) /\ phase'[q] # "asleep" /\ (q # r => phase[r] = "asleep")
    BY <1>4 DEF ScanRefuses, ScanChooses, Take, Scan, Leave, ChosenStillFree
  <2>. QED  BY <2>1, OnePastGate
<1>5. ASSUME NEW q \in Requests, Drop(q)
      PROVE  cooldown'[l] > t \/ ~HasRoom(hits'[l], Rpm[l], t)
  <2>1. q # r /\ phase[r] = "asleep"
    BY <1>5 DEF Drop, Leave
  <2>2. phase[q] # "asleep"
    BY <2>1, OnePastGate
  <2>3. want'[r] = want[r] /\ tried'[r] = tried[r]
    BY <1>5, <2>1 DEF Drop, Leave
  <2>. QED  BY <1>1, <1>2, <1>5, <2>1, <2>2, <2>3 DEF Drop, lanes
<1>6. ASSUME NEW q \in Requests, NEW w \in Wants, Arrive(q, w)
      PROVE  cooldown'[l] > t \/ ~HasRoom(hits'[l], Rpm[l], t)
  <2>1. q # r /\ phase[r] = "asleep"
    BY <1>6 DEF Arrive
  <2>. QED  BY <1>1, <1>2, <1>6, <2>1 DEF Arrive, lanes
<1>7. ASSUME NEW q \in Requests, Answered(q) \/ SendFails(q) \/ PlanExhausted(q)
      PROVE  cooldown'[l] > t \/ ~HasRoom(hits'[l], Rpm[l], t)
  <2>1. /\ q # r /\ phase[r] = "asleep"
        /\ UNCHANGED <<now, hits, cooldown, want, scan>>
        /\ tried'[r] = tried[r]
    BY <1>7 DEF Answered, SendFails, PlanExhausted, GiveBack, lanes
  <2>. QED  BY <1>1, <1>2, <2>1
<1>8. ASSUME NEW q \in Requests, NEW b \in Backoffs, Rebuff(q, b)
      PROVE  cooldown'[l] > t \/ ~HasRoom(hits'[l], Rpm[l], t)
  <2>1. /\ q # r /\ phase[r] = "asleep"
        /\ UNCHANGED <<now, hits, want, scan>>
        /\ tried'[r] = tried[r]
    BY <1>8 DEF Rebuff, GiveBack
  <2>2. cooldown[l] <= cooldown'[l]
    <3>1. cooldown' = [cooldown EXCEPT ![lane[q]] =
                         IF cooldown[lane[q]] > now + b THEN cooldown[lane[q]] ELSE now + b]
      BY <1>8 DEF Rebuff
    <3>2. cooldown[l] \in Nat /\ now + b \in Nat
      BY <1>1, DispatcherAssumption
    <3>. QED  BY <1>1, <3>1, <3>2
  <2>. QED  BY <1>1, <1>2, <2>1, <2>2
<1>9. CASE Tick \/ UNCHANGED vars
  BY <1>1, <1>2, <1>9 DEF Tick, vars, lanes
<1>. QED
  BY <1>3, <1>4, <1>5, <1>6, <1>7, <1>8, <1>9 DEF Next, GateStep, ProxyStep

\* In no reachable state does the holder of the gate sleep past an instant at
\* which a lane it may use is open and has room.
THEOREM GateHolderWakesInTime == Spec => []NoOversleep
<1>1. Init => TypeInv /\ GateHeldByHead /\ ChosenStillFree /\ NoOversleep
  BY DispatcherAssumption
     DEF Init, TypeInv, TypeOK, LaneKnown, Phases, NoWant, NoScan, GateHeldByHead,
         ChosenStillFree, NoOversleep
<1>. QED
  BY <1>1, TypeInvInductive, GateHeldByHeadInductive, ChosenStillFreeInductive,
     NoOversleepInductive, PTL DEF Spec

-----------------------------------------------------------------------------
(***************************************************************************)
(* A limiter and its history.  The hits h it keeps are the end of the      *)
(* history g of all its slots; what is gone had left the window by t.      *)
(***************************************************************************)
EndOf(h, g) ==
  /\ Len(h) <= Len(g)
  /\ \A i \in 1..Len(h) : h[i] = g[Len(g) - Len(h) + i]

GoneBy(h, g, t) == \A i \in 1..Len(g) - Len(h) : g[i] + Window <= t

DatedBy(g, t) == \A i \in 1..Len(g) : g[i] <= t

Spaced(g, n) == \A i \in 1..Len(g) : i + n <= Len(g) => g[i] + Window <= g[i + n]

\* Pruning at t keeps the two in step.
LEMMA PruneKeepsHistory ==
  ASSUME NEW g \in Seq(Nat), NEW h \in Seq(Nat), NEW t \in Nat,
         EndOf(h, g), GoneBy(h, g, t)
  PROVE  /\ Prune(h, t) \in Seq(Nat)
         /\ EndOf(Prune(h, t), g)
         /\ GoneBy(Prune(h, t), g, t)
<1>. DEFINE p == Prune(h, t)
<1>1. PICK k \in 0..Len(h) :
        /\ p \in Seq(Nat)
        /\ Len(p) = Len(h) - k
        /\ \A i \in 1..Len(h) - k : p[i] = h[i + k]
        /\ \A i \in 1..k : h[i] + Window <= t
  BY PruneDropsPrefix
<1>. HIDE DEF p
<1>2. Len(g) \in Nat /\ Len(h) \in Nat /\ Len(h) <= Len(g)
  BY DEF EndOf
<1>3. EndOf(p, g)
  <2>1. Len(p) <= Len(g)
    BY <1>1, <1>2
  <2>2. ASSUME NEW i \in 1..Len(p)  PROVE p[i] = g[Len(g) - Len(p) + i]
    <3>1. i + k \in 1..Len(h) /\ p[i] = h[i + k]
      BY <1>1, <1>2
    <3>2. h[i + k] = g[Len(g) - Len(h) + (i + k)]
      BY <3>1 DEF EndOf
    <3>3. Len(g) - Len(h) + (i + k) = Len(g) - Len(p) + i
      BY <1>1, <1>2
    <3>. QED  BY <3>1, <3>2, <3>3
  <2>. QED  BY <2>1, <2>2 DEF EndOf
<1>4. GoneBy(p, g, t)
  <2>1. SUFFICES ASSUME NEW i \in 1..Len(g) - Len(p)
                 PROVE  g[i] + Window <= t
    BY DEF GoneBy
  <2>2. CASE i <= Len(g) - Len(h)
    <3>1. i \in 1..Len(g) - Len(h)
      BY <1>1, <1>2, <2>2
    <3>. QED  BY <3>1 DEF GoneBy
  <2>3. CASE ~(i <= Len(g) - Len(h))
    <3>. DEFINE j == i - (Len(g) - Len(h))
    <3>1. j \in 1..k /\ j \in 1..Len(h) /\ Len(g) - Len(h) + j = i
      BY <1>1, <1>2, <2>3
    <3>2. h[j] = g[Len(g) - Len(h) + j]
      BY <3>1 DEF EndOf
    <3>3. h[j] + Window <= t
      BY <1>1, <3>1
    <3>. QED  BY <3>1, <3>2, <3>3
  <2>. QED  BY <2>2, <2>3
<1>. QED  BY <1>1, <1>3, <1>4 DEF p

\* A slot granted at t keeps them in step, and keeps the history spaced: of the
\* last n slots one is gone, for fewer than n are left.
LEMMA HitKeepsHistory ==
  ASSUME NEW g \in Seq(Nat), NEW h \in Seq(Nat), NEW t \in Nat, NEW n \in Nat \ {0},
         EndOf(h, g), GoneBy(h, g, t), DatedBy(g, t), Spaced(g, n), HasRoom(h, n, t)
  PROVE  /\ EndOf(Hit(h, t), Append(g, t))
         /\ GoneBy(Hit(h, t), Append(g, t), t)
         /\ DatedBy(Append(g, t), t)
         /\ Spaced(Append(g, t), n)
<1>. DEFINE p == Prune(h, t)
            g2 == Append(g, t)
            h2 == Hit(h, t)
<1>1. p \in Seq(Nat) /\ EndOf(p, g) /\ GoneBy(p, g, t)
  BY PruneKeepsHistory
<1>2. Len(p) < n
  BY DEF HasRoom, Load
<1>3. h2 = Append(p, t)
  BY DEF Hit
<1>. HIDE DEF p, h2
<1>4. /\ Len(h2) = Len(p) + 1
      /\ h2[Len(p) + 1] = t
      /\ \A i \in 1..Len(p) : h2[i] = p[i]
  BY <1>1, <1>3
<1>5. /\ Len(g2) = Len(g) + 1
      /\ g2[Len(g) + 1] = t
      /\ \A i \in 1..Len(g) : g2[i] = g[i]
  OBVIOUS
<1>. HIDE DEF g2
<1>6. Len(g) \in Nat /\ Len(p) \in Nat /\ Len(p) <= Len(g)
  BY <1>1 DEF EndOf
<1>7. EndOf(h2, g2)
  <2>1. ASSUME NEW i \in 1..Len(h2)  PROVE h2[i] = g2[Len(g2) - Len(h2) + i]
    <3>1. Len(g2) - Len(h2) + i = Len(g) - Len(p) + i
      BY <1>4, <1>5, <1>6
    <3>2. CASE i = Len(p) + 1
      <4>1. h2[i] = t
        BY <1>4, <3>2
      <4>2. Len(g2) - Len(h2) + i = Len(g) + 1
        BY <1>4, <1>5, <1>6, <3>2
      <4>3. g2[Len(g) + 1] = t
        BY <1>5
      <4>. QED  BY <4>1, <4>2, <4>3
    <3>3. CASE i \in 1..Len(p)
      <4>1. h2[i] = g[Len(g) - Len(p) + i]
        BY <1>1, <1>4, <3>3 DEF EndOf
      <4>2. Len(g) - Len(p) + i \in 1..Len(g)
        BY <1>6, <3>3
      <4>3. g2[Len(g) - Len(p) + i] = g[Len(g) - Len(p) + i]
        BY <1>5, <4>2
      <4>. QED  BY <3>1, <4>1, <4>3
    <3>4. Len(h2) = Len(p) + 1 /\ Len(p) \in Nat
      BY <1>4, <1>6
    <3>5. i = Len(p) + 1 \/ i \in 1..Len(p)
      BY <3>4
    <3>. QED  BY <3>2, <3>3, <3>5
  <2>. QED  BY <1>4, <1>5, <1>6, <2>1 DEF EndOf
<1>8. GoneBy(h2, g2, t)
  <2>1. SUFFICES ASSUME NEW i \in 1..Len(g2) - Len(h2)
                 PROVE  g2[i] + Window <= t
    BY DEF GoneBy
  <2>2. i \in 1..Len(g) - Len(p) /\ i \in 1..Len(g)
    BY <1>4, <1>5, <1>6
  <2>3. g[i] + Window <= t
    BY <1>1, <2>2 DEF GoneBy
  <2>. QED  BY <1>5, <2>2, <2>3
<1>9. DatedBy(g2, t)
  BY <1>5, <1>6 DEF DatedBy
<1>10. Spaced(g2, n)
  <2>1. SUFFICES ASSUME NEW i \in 1..Len(g2), i + n <= Len(g2)
                 PROVE  g2[i] + Window <= g2[i + n]
    BY DEF Spaced
  <2>2. i \in 1..Len(g)
    BY <1>5, <1>6, <2>1
  <2>3. CASE i + n <= Len(g)
    <3>1. g[i] + Window <= g[i + n]
      BY <2>2, <2>3 DEF Spaced
    <3>2. i + n \in 1..Len(g)
      BY <1>6, <2>2, <2>3
    <3>3. g2[i] = g[i] /\ g2[i + n] = g[i + n]
      BY <1>5, <2>2, <3>2
    <3>. QED  BY <3>1, <3>3
  <2>4. CASE i + n = Len(g) + 1
    <3>1. i \in 1..Len(g) - Len(p)
      BY <1>2, <1>6, <2>2, <2>4
    <3>2. g[i] + Window <= t
      BY <1>1, <3>1 DEF GoneBy
    <3>3. g2[i] = g[i] /\ g2[i + n] = t
      BY <1>5, <2>2, <2>4
    <3>. QED  BY <3>2, <3>3
  <2>5. Len(g2) = Len(g) + 1 /\ Len(g) \in Nat
    BY <1>5, <1>6
  <2>6. i + n <= Len(g) \/ i + n = Len(g) + 1
    <3>1. i + n <= Len(g) + 1 /\ i \in Nat /\ n \in Nat
      BY <2>1, <2>2, <2>5
    <3>2. \A a, b \in Nat : a <= b + 1 => a <= b \/ a = b + 1
      OBVIOUS
    <3>3. i + n \in Nat
      BY <3>1
    <3>. QED  BY <2>5, <3>1, <3>2, <3>3, Zenon
  <2>. QED  BY <2>3, <2>4, <2>6
<1>. QED  BY <1>7, <1>8, <1>9, <1>10 DEF g2, h2

-----------------------------------------------------------------------------
(***************************************************************************)
(* The view only observes: its steps are steps of the dispatcher.          *)
(***************************************************************************)
DispatcherInv == TypeInv /\ GateHeldByHead

LEMMA ViewStepIsStep == ViewNext => [Next]_vars
<1>1. CASE TickInTime
  BY <1>1 DEF TickInTime, Next
<1>2. ASSUME NEW r \in Requests,
             GrantSlot(r) \/ EndOnLane(r) \/ Unseen(r) \/ \E b \in Backoffs : SeeRebuff(r, b)
      PROVE  Next
  BY <1>2 DEF GrantSlot, EndOnLane, Unseen, SeeRebuff, Next, GateStep, ProxyStep
<1>3. ASSUME NEW r \in Requests, Send(r)
      PROVE  UNCHANGED vars
  BY <1>3 DEF Send
<1>. QED  BY <1>1, <1>2, <1>3 DEF ViewNext

LEMMA DispatcherInvInductive == DispatcherInv /\ [ViewNext]_allvars => DispatcherInv'
<1>1. [ViewNext]_allvars => [Next]_vars
  BY ViewStepIsStep DEF allvars
<1>. QED  BY <1>1, TypeInvInductive, GateHeldByHeadInductive DEF DispatcherInv

LEMMA DispatcherInvInitially == Init => DispatcherInv
BY DispatcherAssumption
   DEF Init, DispatcherInv, TypeInv, TypeOK, LaneKnown, Phases, NoWant, NoScan, GateHeldByHead

\* At most one request is past its scan's choice, and none during another's scan.
LEMMA OneChosen ==
  ASSUME DispatcherInv, NEW r \in Requests, HoldsGate(r),
         NEW q \in Requests, phase[q] \in {"chosen", "asleep"}
  PROVE  q = r
BY DEF DispatcherInv, GateHeldByHead, HoldsGate

(***************************************************************************)
(* The budget.  It is not inductive by itself: a slot is granted because   *)
(* of the hits a limiter kept, so the invariant ties those to the history, *)
(* at the clock and, between a scan and its grant, at the instant scanned. *)
(***************************************************************************)
LaneAt(l, t) == GoneBy(hits[l], granted[l], t) /\ DatedBy(granted[l], t)

BudgetInv ==
  /\ granted \in [Lanes -> Seq(Nat)]
  /\ \A l \in Lanes : EndOf(hits[l], granted[l]) /\ LaneAt(l, now) /\ Spaced(granted[l], Rpm[l])
  /\ \A r \in Requests : phase[r] = "chosen" =>
       scan.at <= now /\ \A l \in Lanes : LaneAt(l, scan.at)

LEMMA BudgetInvInductive ==
  DispatcherInv /\ BudgetInv /\ [ViewNext]_allvars => BudgetInv'
<1>. SUFFICES ASSUME DispatcherInv, BudgetInv, [ViewNext]_allvars
              PROVE  BudgetInv'
  OBVIOUS
<1>. USE DEF DispatcherInv, TypeInv, TypeOK
<1>1. \A l \in Lanes : granted[l] \in Seq(Nat) /\ hits[l] \in Seq(Nat) /\ Rpm[l] \in Nat \ {0}
  BY DispatcherAssumption DEF BudgetInv
\* Neither the limiters nor their histories change.
<1>2. ASSUME hits' = hits, granted' = granted, now' = now,
             \A r \in Requests : phase'[r] = "chosen" => phase[r] = "chosen" /\ scan' = scan
      PROVE  BudgetInv'
  BY <1>2 DEF BudgetInv, LaneAt
<1>3. CASE TickInTime
  <2>1. /\ now' = now + 1
        /\ UNCHANGED <<hits, phase, scan, granted>>
    BY <1>3 DEF TickInTime, Tick, lanes, view
  <2>2. ASSUME NEW l \in Lanes, LaneAt(l, now)  PROVE GoneBy(hits[l], granted[l], now') /\ DatedBy(granted[l], now')
    <3>1. \A i \in 1..Len(granted[l]) : granted[l][i] \in Nat
      BY <1>1
    <3>2. GoneBy(hits[l], granted[l], now')
      <4>1. ASSUME NEW i \in 1..Len(granted[l]) - Len(hits[l])
            PROVE  granted[l][i] + Window <= now + 1
        <5>1. granted[l][i] \in Nat
          BY <1>1, <3>1
        <5>2. granted[l][i] + Window <= now
          BY <2>2 DEF LaneAt, GoneBy
        <5>. QED  BY <5>1, <5>2, WindowAssumption
      <4>. QED  BY <2>1, <4>1 DEF GoneBy
    <3>3. DatedBy(granted[l], now')
      <4>1. ASSUME NEW i \in 1..Len(granted[l])  PROVE granted[l][i] <= now + 1
        <5>1. granted[l][i] <= now
          BY <2>2 DEF LaneAt, DatedBy
        <5>. QED  BY <3>1, <5>1
      <4>. QED  BY <2>1, <4>1 DEF DatedBy
    <3>. QED  BY <3>2, <3>3
  <2>3. \A l \in Lanes : (LaneAt(l, now))' /\ (EndOf(hits[l], granted[l]))'
                         /\ (Spaced(granted[l], Rpm[l]))'
    <3>1. \A l \in Lanes : hits'[l] = hits[l] /\ granted'[l] = granted[l]
      BY <2>1
    <3>. QED  BY <2>2, <3>1 DEF BudgetInv, LaneAt
  <2>4. \A r \in Requests : phase'[r] = "chosen" =>
          scan'.at <= now' /\ \A l \in Lanes : (LaneAt(l, scan.at))'
    <3>1. \A r \in Requests : phase[r] = "chosen" => scan.at <= now + 1
      BY DEF BudgetInv
    <3>2. \A l \in Lanes : (LaneAt(l, scan.at))' <=> LaneAt(l, scan.at)
      BY <2>1 DEF LaneAt
    <3>. QED  BY <2>1, <3>1, <3>2 DEF BudgetInv
  <2>. QED  BY <2>1, <2>3, <2>4 DEF BudgetInv
\* A scan prunes some of the lanes at the clock.
<1>4. ASSUME NEW r \in Requests, Scan(r), UNCHANGED view,
             \A q \in Requests : phase'[q] = "chosen" => q = r /\ scan'.at = now
      PROVE  BudgetInv'
  <2>1. /\ hits' = [l \in Lanes |-> IF l \in Open(r) THEN Prune(hits[l], now) ELSE hits[l]]
        /\ now' = now
        /\ granted' = granted
    BY <1>4 DEF Scan, view
  <2>2. ASSUME NEW l \in Lanes
        PROVE  EndOf(hits'[l], granted[l]) /\ GoneBy(hits'[l], granted[l], now)
    <3>1. EndOf(hits[l], granted[l]) /\ GoneBy(hits[l], granted[l], now)
      BY DEF BudgetInv, LaneAt
    <3>2. /\ EndOf(Prune(hits[l], now), granted[l])
          /\ GoneBy(Prune(hits[l], now), granted[l], now)
      BY <1>1, <3>1, PruneKeepsHistory
    <3>. QED  BY <2>1, <3>1, <3>2
  <2>3. \A l \in Lanes : (LaneAt(l, now))'
    BY <2>1, <2>2 DEF BudgetInv, LaneAt
  <2>4. \A q \in Requests : phase'[q] = "chosen" =>
          scan'.at <= now' /\ \A l \in Lanes : (LaneAt(l, scan.at))'
    BY <1>4, <2>1, <2>3 DEF LaneAt
  <2>. QED  BY <2>1, <2>2, <2>3, <2>4 DEF BudgetInv
<1>5. ASSUME NEW r \in Requests, GrantSlot(r)
      PROVE  BudgetInv'
  <2>. DEFINE l0 == lane[r]
              t == scan.at
  <2>1. Take(r) /\ HoldsGate(r) /\ phase[r] = "chosen" /\ l0 \in Lanes /\ t \in Nat
    BY <1>5 DEF GrantSlot, Take, LaneKnown
  <2>2. t <= now /\ now' = now /\ \A l \in Lanes : LaneAt(l, t)
    BY <2>1 DEF BudgetInv, Take
  <2>3. \A q \in Requests : phase'[q] # "chosen"
    <3>1. \A q \in Requests : q # r => phase[q] # "chosen"
      BY <2>1, OneChosen
    <3>2. \/ phase' = [phase EXCEPT ![r] = "granted"]
          \/ phase' = [phase EXCEPT ![r] = "asleep"]
      BY <2>1 DEF Take, Leave
    <3>. QED  BY <3>1, <3>2
  <2>4. ASSUME NEW h \in Seq(Nat), NEW g \in Seq(Nat),
               hits' = [hits EXCEPT ![l0] = h], granted' = [granted EXCEPT ![l0] = g],
               EndOf(h, g), GoneBy(h, g, t), DatedBy(g, t), Spaced(g, Rpm[l0])
        PROVE  BudgetInv'
    <3>1. GoneBy(h, g, now)
      <4>1. Len(h) <= Len(g) /\ Len(h) \in Nat /\ Len(g) \in Nat
        BY <2>4 DEF EndOf
      <4>2. ASSUME NEW i \in 1..Len(g) - Len(h)  PROVE g[i] + Window <= now
        <5>1. g[i] + Window \in Nat /\ now \in Nat
          BY <4>1, WindowAssumption
        <5>2. g[i] + Window <= t /\ t <= now /\ t \in Nat
          BY <2>1, <2>2, <2>4 DEF GoneBy
        <5>. HIDE DEF t
        <5>. QED  BY <5>1, <5>2
      <4>. QED  BY <4>2 DEF GoneBy
    <3>2. DatedBy(g, now)
      <4>1. \A i \in 1..Len(g) : g[i] \in Nat
        OBVIOUS
      <4>. QED  BY <2>1, <2>2, <2>4, <4>1 DEF DatedBy
    <3>3. ASSUME NEW l \in Lanes
          PROVE  /\ (EndOf(hits[l], granted[l]))'
                 /\ (LaneAt(l, now))'
                 /\ (Spaced(granted[l], Rpm[l]))'
      <4>1. CASE l = l0
        <5>1. hits'[l] = h /\ granted'[l] = g
          BY <2>1, <2>4, <4>1 DEF BudgetInv
        <5>. QED  BY <2>2, <2>4, <3>1, <3>2, <4>1, <5>1 DEF LaneAt
      <4>2. CASE l # l0
        <5>1. hits'[l] = hits[l] /\ granted'[l] = granted[l]
          BY <2>1, <2>4, <4>2 DEF BudgetInv
        <5>. QED  BY <2>2, <5>1 DEF LaneAt, BudgetInv
      <4>. QED  BY <4>1, <4>2
    <3>4. granted' \in [Lanes -> Seq(Nat)]
      BY <2>4 DEF BudgetInv
    <3>. QED  BY <2>3, <3>3, <3>4 DEF BudgetInv
  <2>5. EndOf(hits[l0], granted[l0]) /\ GoneBy(hits[l0], granted[l0], t)
        /\ DatedBy(granted[l0], t) /\ Spaced(granted[l0], Rpm[l0])
    BY <2>1, <2>2 DEF BudgetInv, LaneAt
  <2>6. CASE HasRoom(hits[l0], Rpm[l0], t)
    <3>1. /\ hits' = [hits EXCEPT ![l0] = Hit(hits[l0], t)]
          /\ granted' = [granted EXCEPT ![l0] = Append(granted[l0], t)]
      BY <1>5, <2>1, <2>6 DEF GrantSlot, Take, Leave
    <3>2. Hit(hits[l0], t) \in Seq(Nat) /\ Append(granted[l0], t) \in Seq(Nat)
      BY <1>1, <2>1, LimiterTypes
    <3>3. /\ EndOf(Hit(hits[l0], t), Append(granted[l0], t))
          /\ GoneBy(Hit(hits[l0], t), Append(granted[l0], t), t)
          /\ DatedBy(Append(granted[l0], t), t)
          /\ Spaced(Append(granted[l0], t), Rpm[l0])
      BY <1>1, <2>1, <2>5, <2>6, HitKeepsHistory
    <3>. QED  BY <2>4, <3>1, <3>2, <3>3
  <2>7. CASE ~HasRoom(hits[l0], Rpm[l0], t)
    <3>1. /\ hits' = [hits EXCEPT ![l0] = Prune(hits[l0], t)]
          /\ granted' = granted
      BY <1>5, <2>1, <2>7 DEF GrantSlot, Take
    <3>2. granted' = [granted EXCEPT ![l0] = granted[l0]]
      BY <2>1, <3>1 DEF BudgetInv
    <3>3. /\ Prune(hits[l0], t) \in Seq(Nat)
          /\ EndOf(Prune(hits[l0], t), granted[l0])
          /\ GoneBy(Prune(hits[l0], t), granted[l0], t)
      BY <1>1, <2>1, <2>5, PruneKeepsHistory
    <3>. QED  BY <1>1, <2>1, <2>4, <2>5, <3>1, <3>2, <3>3
  <2>. QED  BY <2>6, <2>7
<1>6. ASSUME NEW r \in Requests, Unseen(r)
      PROVE  BudgetInv'
  <2>1. CASE (\E w \in Wants : Arrive(r, w)) \/ PlanExhausted(r)
    BY <1>2, <1>6, <2>1 DEF Unseen, Arrive, PlanExhausted, lanes, view
  <2>2. CASE Drop(r)
    <3>1. phase' = [phase EXCEPT ![r] = "idle"] /\ UNCHANGED <<hits, now, granted>>
      BY <1>6, <2>2 DEF Unseen, Drop, Leave, lanes, view
    <3>2. ASSUME NEW q \in Requests, phase'[q] = "chosen"
          PROVE  phase[q] = "chosen" /\ scan' = scan
      <4>1. phase[q] = "chosen" /\ q # r
        BY <3>1, <3>2
      <4>2. phase[r] # "asleep"
        BY <4>1 DEF GateHeldByHead, HoldsGate
      <4>. QED  BY <2>2, <4>1, <4>2 DEF Drop
    <3>. QED  BY <1>2, <3>1, <3>2
  <2>3. CASE ScanChooses(r) \/ ScanRefuses(r) \/ ScanWaits(r)
    <3>1. Scan(r)
      BY <2>3 DEF ScanChooses, ScanRefuses, ScanWaits
    <3>2. \A q \in Requests : phase[q] = "chosen" => q = r
      BY <3>1, OneChosen DEF Scan
    <3>3. phase[r] # "chosen"
      BY <3>1 DEF Scan
    <3>4. \A q \in Requests : phase'[q] = "chosen" => q = r /\ scan'.at = now
      BY <2>3, <3>2, <3>3 DEF ScanChooses, ScanRefuses, ScanWaits, Leave
    <3>. QED  BY <1>4, <1>6, <3>1, <3>4 DEF Unseen
  <2>. QED  BY <1>6, <2>1, <2>2, <2>3 DEF Unseen
<1>7. ASSUME NEW r \in Requests,
             Send(r) \/ EndOnLane(r) \/ \E b \in Backoffs : SeeRebuff(r, b)
      PROVE  BudgetInv'
  BY <1>2, <1>7
     DEF Send, EndOnLane, SeeRebuff, Answered, SendFails, Rebuff, GiveBack, vars
<1>8. CASE UNCHANGED allvars
  BY <1>2, <1>8 DEF allvars, vars, view
<1>. QED
  BY <1>3, <1>5, <1>6, <1>7, <1>8 DEF ViewNext

LEMMA BudgetInvInitially == ViewInit => BudgetInv
<1>. SUFFICES ASSUME ViewInit PROVE BudgetInv
  OBVIOUS
<1>1. \A l \in Lanes : hits[l] = << >> /\ granted[l] = << >>
  BY DEF ViewInit, Init
<1>2. \A r \in Requests : phase[r] = "idle"
  BY DEF ViewInit, Init
<1>3. granted \in [Lanes -> Seq(Nat)]
  BY DEF ViewInit
<1>4. \A l \in Lanes : EndOf(hits[l], granted[l]) /\ LaneAt(l, now) /\ Spaced(granted[l], Rpm[l])
  <2>1. ASSUME NEW l \in Lanes
        PROVE  EndOf(<< >>, << >>) /\ GoneBy(<< >>, << >>, now)
               /\ DatedBy(<< >>, now) /\ Spaced(<< >>, Rpm[l])
    BY DEF EndOf, GoneBy, DatedBy, Spaced
  <2>. QED  BY <1>1, <2>1 DEF LaneAt
<1>. QED  BY <1>2, <1>3, <1>4 DEF BudgetInv

\* However requests queue, drop out, fail over and bench lanes, and however many
\* there are, any Rpm + 1 consecutive slots of a lane span the enforcement window.
THEOREM LanesStayWithinBudget == ViewSpec => []WithinBudget
<1>1. ViewInit => DispatcherInv /\ BudgetInv
  BY DispatcherInvInitially, BudgetInvInitially DEF ViewInit
<1>2. BudgetInv => WithinBudget
  BY DEF BudgetInv, WithinBudget, Spaced
<1>. QED
  BY <1>1, <1>2, DispatcherInvInductive, BudgetInvInductive, PTL DEF ViewSpec

-----------------------------------------------------------------------------
(***************************************************************************)
(* The dispatcher implements the abstract budget.                          *)
(***************************************************************************)

\* A limiter with room after pruning sees every slot that is still in the window.
LEMMA RoomMeansFewInWindow ==
  ASSUME NEW l \in Lanes, NEW t \in Nat, NEW h \in Seq(Nat), NEW n \in Nat,
         granted[l] \in Seq(Nat),
         EndOf(h, granted[l]), GoneBy(h, granted[l], t), HasRoom(h, n, t)
  PROVE  Cardinality(Budget!InWindow(l, t)) < n
<1>. DEFINE g == granted[l]
            p == Prune(h, t)
            W == Budget!InWindow(l, t)
            I == (Len(g) - Len(p) + 1) .. Len(g)
<1>1. p \in Seq(Nat) /\ EndOf(p, g) /\ GoneBy(p, g, t)
  BY PruneKeepsHistory
<1>2. Len(p) < n
  BY DEF HasRoom, Load
<1>. HIDE DEF p
<1>3. Len(g) \in Nat /\ Len(p) \in Nat /\ Len(p) <= Len(g)
  BY <1>1 DEF EndOf
<1>4. W \subseteq I
  <2>1. ASSUME NEW i \in W  PROVE i \in I
    <3>1. i \in 1..Len(g) /\ t < g[i] + Window
      BY DEF Budget!InWindow
    <3>2. g[i] \in Nat
      BY <3>1
    <3>3. ~(i \in 1..Len(g) - Len(p))
      <4>1. ASSUME i \in 1..Len(g) - Len(p)  PROVE FALSE
        <5>1. g[i] + Window <= t
          BY <1>1, <4>1 DEF GoneBy
        <5>. QED  BY <3>1, <3>2, <5>1, WindowAssumption
      <4>. QED  BY <4>1
    <3>. HIDE DEF g
    <3>. QED  BY <1>3, <3>1, <3>3
  <2>. QED  BY <2>1
<1>5. IsFiniteSet(I) /\ Cardinality(I) = Len(p)
  <2>. HIDE DEF g
  <2>1. /\ IsFiniteSet(I)
        /\ Cardinality(I) = IF Len(g) - Len(p) + 1 > Len(g) THEN 0
                            ELSE Len(g) - (Len(g) - Len(p) + 1) + 1
    <3>1. Len(g) - Len(p) + 1 \in Int /\ Len(g) \in Int
      BY <1>3
    <3>. QED  BY <3>1, FS_Interval
  <2>. QED  BY <1>3, <2>1
<1>. HIDE DEF W, I
<1>6. Cardinality(W) <= Len(p) /\ Cardinality(W) \in Nat
  BY <1>4, <1>5, FS_Subset, FS_CardinalityType
<1>. QED  BY <1>2, <1>3, <1>6 DEF W

LEMMA ViewStepIsBudgetStep ==
  ASSUME DispatcherInv, BudgetInv, [ViewNext]_allvars
  PROVE  [Budget!Next]_Budget!bvars
<1>. USE DEF DispatcherInv, TypeInv, TypeOK
<1>1. CASE TickInTime
  BY <1>1 DEF TickInTime, Tick, view, Budget!Next, Budget!Tick
<1>2. ASSUME NEW r \in Requests, GrantSlot(r)
      PROVE  [Budget!Next]_Budget!bvars
  <2>. DEFINE l == lane[r]
              t == scan.at
  <2>1. Take(r) /\ phase[r] = "chosen" /\ l \in Lanes /\ t \in Nat /\ now' = now
    BY <1>2 DEF GrantSlot, Take, LaneKnown
  <2>2. t \in 0..now /\ EndOf(hits[l], granted[l]) /\ GoneBy(hits[l], granted[l], t)
        /\ DatedBy(granted[l], t)
    BY <2>1 DEF BudgetInv, LaneAt
  <2>3. CASE HasRoom(hits[l], Rpm[l], t)
    <3>1. granted' = [granted EXCEPT ![l] = Append(granted[l], t)]
      BY <1>2, <2>1, <2>3 DEF GrantSlot, Take, Leave
    <3>2. granted[l] \in Seq(Nat) /\ hits[l] \in Seq(Nat) /\ Rpm[l] \in Nat
      BY <2>1, DispatcherAssumption DEF BudgetInv
    <3>3. Cardinality(Budget!InWindow(l, t)) < Rpm[l]
      BY <2>1, <2>2, <2>3, <3>2, RoomMeansFewInWindow
    <3>4. Budget!Slot(l, t)
      <4>1. \A i \in 1..Len(granted[l]) : granted[l][i] <= t
        BY <2>2 DEF DatedBy
      <4>2. Budget!Cardinality(Budget!InWindow(l, t)) = Cardinality(Budget!InWindow(l, t))
        BY DEF Budget!Cardinality, Cardinality
      <4>. HIDE DEF l, t
      <4>. QED  BY <2>1, <3>1, <3>3, <4>1, <4>2 DEF Budget!Slot
    <3>. QED  BY <2>1, <2>2, <3>4 DEF Budget!Next
  <2>4. CASE ~HasRoom(hits[l], Rpm[l], t)
    BY <1>2, <2>1, <2>4 DEF GrantSlot, Take, Budget!bvars
  <2>. QED  BY <2>3, <2>4
<1>3. ASSUME NEW r \in Requests,
             Send(r) \/ EndOnLane(r) \/ Unseen(r) \/ \E b \in Backoffs : SeeRebuff(r, b)
      PROVE  UNCHANGED Budget!bvars
  BY <1>3
     DEF Send, EndOnLane, Unseen, SeeRebuff, Answered, SendFails, Rebuff, GiveBack,
         Arrive, Drop, PlanExhausted, ScanChooses, ScanRefuses, ScanWaits, Scan,
         lanes, vars, view, Budget!bvars
<1>4. CASE UNCHANGED allvars
  BY <1>4 DEF allvars, vars, view, Budget!bvars
<1>. QED
  BY <1>1, <1>2, <1>3, <1>4 DEF ViewNext

\* Every behaviour of the dispatcher, seen from the slots it grants, is one of the
\* abstract budget: fewer than Rpm slots in the window at every grant.
THEOREM DispatcherImplementsRateBudget == ViewSpec => ImplementsRateBudget
<1>1. ViewInit => DispatcherInv /\ BudgetInv /\ Budget!Init
  BY DispatcherInvInitially, BudgetInvInitially DEF ViewInit, Init, Budget!Init
<1>. QED
  BY <1>1, DispatcherInvInductive, BudgetInvInductive, ViewStepIsBudgetStep, PTL
     DEF ViewSpec, ImplementsRateBudget, Budget!Spec

-----------------------------------------------------------------------------
(***************************************************************************)
(* Rests.  A lane's cooldown covers every rest asked of it, and the scan   *)
(* between which and its grant a rebuff may arrive is older than the rest. *)
(***************************************************************************)
Outside(t, rest) == ~(rest.from < t /\ t < rest.until)

RestInv ==
  /\ rests \in [Lanes -> SUBSET [from : Nat, until : Nat]]
  /\ \A l \in Lanes : \A rest \in rests[l] :
       /\ rest.from <= now /\ rest.until <= cooldown[l]
       /\ \A i \in 1..Len(granted[l]) : Outside(granted[l][i], rest)
  /\ \A r \in Requests : phase[r] = "chosen" =>
       \A rest \in rests[lane[r]] : Outside(scan.at, rest)

LEMMA RestInvInductive ==
  DispatcherInv /\ BudgetInv /\ RestInv /\ [ViewNext]_allvars => RestInv'
<1>. SUFFICES ASSUME DispatcherInv, BudgetInv, RestInv, [ViewNext]_allvars
              PROVE  RestInv'
  OBVIOUS
<1>. USE DEF DispatcherInv, TypeInv, TypeOK
<1>1. ASSUME rests' = rests, granted' = granted, cooldown' = cooldown, now' \in {now, now + 1},
             \A r \in Requests : phase'[r] = "chosen" =>
                phase[r] = "chosen" /\ scan' = scan /\ lane'[r] = lane[r]
      PROVE  RestInv'
  <2>1. \A l \in Lanes : \A rest \in rests[l] : rest.from <= now'
    <3>1. \A l \in Lanes : \A rest \in rests[l] : rest.from \in Nat
      BY DEF RestInv
    <3>. QED  BY <1>1, <3>1 DEF RestInv
  <2>. QED  BY <1>1, <2>1 DEF RestInv
<1>2. CASE TickInTime
  BY <1>1, <1>2 DEF TickInTime, Tick, lanes, view
<1>3. ASSUME NEW r \in Requests, GrantSlot(r)
      PROVE  RestInv'
  <2>. DEFINE l0 == lane[r]
  <2>1. /\ Take(r) /\ phase[r] = "chosen" /\ l0 \in Lanes
        /\ UNCHANGED <<now, cooldown, lane, rests>>
    BY <1>3 DEF GrantSlot, Take, LaneKnown
  <2>2. \A q \in Requests : phase'[q] # "chosen"
    <3>1. \A q \in Requests : q # r => phase[q] # "chosen"
      BY <2>1, OneChosen DEF Take
    <3>2. \/ phase' = [phase EXCEPT ![r] = "granted"]
          \/ phase' = [phase EXCEPT ![r] = "asleep"]
      BY <2>1 DEF Take, Leave
    <3>. QED  BY <3>1, <3>2
  <2>3. \/ granted' = granted
        \/ granted' = [granted EXCEPT ![l0] = Append(granted[l0], scan.at)]
    BY <1>3 DEF GrantSlot
  <2>4. ASSUME NEW l \in Lanes, NEW rest \in rests[l], NEW i \in 1..Len(granted'[l])
        PROVE  Outside(granted'[l][i], rest)
    <3>1. CASE granted'[l] = granted[l]
      BY <2>4, <3>1 DEF RestInv
    <3>2. CASE granted'[l] # granted[l]
      <4>1. l = l0 /\ granted'[l] = Append(granted[l], scan.at)
        BY <2>3, <3>2 DEF BudgetInv
      <4>2. granted[l] \in Seq(Nat) /\ scan.at \in Nat
        BY DEF BudgetInv
      <4>3. \/ i \in 1..Len(granted[l]) /\ granted'[l][i] = granted[l][i]
            \/ granted'[l][i] = scan.at
        BY <2>4, <4>1, <4>2
      <4>. QED  BY <2>1, <4>1, <4>3 DEF RestInv
    <3>. QED  BY <3>1, <3>2
  <2>. QED  BY <2>1, <2>2, <2>4 DEF RestInv
<1>4. ASSUME NEW r \in Requests, NEW b \in Backoffs, SeeRebuff(r, b)
      PROVE  RestInv'
  <2>. DEFINE l0 == lane[r]
              rest0 == [from |-> now, until |-> now + b]
  <2>1. /\ phase[r] = "granted" /\ l0 \in Lanes /\ b \in Nat /\ now \in Nat
        /\ cooldown' = [cooldown EXCEPT ![l0] =
                          IF cooldown[l0] > now + b THEN cooldown[l0] ELSE now + b]
        /\ rests' = [rests EXCEPT ![l0] = rests[l0] \cup {rest0}]
        /\ phase' = [phase EXCEPT ![r] = "idle"]
        /\ lane' = [lane EXCEPT ![r] = ANY]
        /\ UNCHANGED <<now, granted, scan>>
    BY <1>4, DispatcherAssumption DEF SeeRebuff, Rebuff, GiveBack, LaneKnown
  <2>2. rests' \in [Lanes -> SUBSET [from : Nat, until : Nat]]
    <3>1. rest0 \in [from : Nat, until : Nat]
      BY <2>1
    <3>. HIDE DEF rest0
    <3>. QED  BY <2>1, <3>1 DEF RestInv
  <2>3. ASSUME NEW l \in Lanes, NEW rest \in rests'[l]
        PROVE  rest \in rests[l] \/ (l = l0 /\ rest = rest0)
    BY <2>1, <2>3 DEF RestInv
  <2>4. \A l \in Lanes : cooldown[l] <= cooldown'[l]
    BY <2>1
  <2>5. now + b <= cooldown'[l0]
    BY <2>1
  <2>6. ASSUME NEW l \in Lanes, NEW rest \in rests'[l]
        PROVE  /\ rest.from <= now /\ rest.until <= cooldown'[l]
               /\ \A i \in 1..Len(granted[l]) : Outside(granted[l][i], rest)
    <3>1. CASE rest \in rests[l]
      <4>1. rest.until \in Nat /\ cooldown[l] \in Nat /\ cooldown'[l] \in Nat
        BY <2>1, <3>1 DEF RestInv
      <4>2. rest.until <= cooldown[l]
        BY <3>1 DEF RestInv
      <4>. QED  BY <2>4, <3>1, <4>1, <4>2 DEF RestInv
    <3>2. CASE l = l0 /\ rest = rest0
      <4>1. \A i \in 1..Len(granted[l]) : granted[l][i] <= now /\ granted[l][i] \in Nat
        BY DEF BudgetInv, LaneAt, DatedBy
      <4>2. rest.from = now /\ rest.until = now + b
        BY <3>2
      <4>. QED  BY <2>1, <2>5, <3>2, <4>1, <4>2 DEF Outside
    <3>. QED  BY <2>3, <2>6, <3>1, <3>2
  <2>7. ASSUME NEW q \in Requests, phase'[q] = "chosen", NEW rest \in rests'[lane'[q]]
        PROVE  Outside(scan.at, rest)
    <3>1. q # r /\ phase[q] = "chosen" /\ lane'[q] = lane[q] /\ lane[q] \in Lanes
      BY <2>1, <2>7 DEF LaneKnown
    <3>2. CASE rest \in rests[lane[q]]
      BY <3>1, <3>2 DEF RestInv
    <3>3. CASE rest = rest0
      <4>1. scan.at <= now /\ scan.at \in Nat
        BY <3>1 DEF BudgetInv
      <4>2. rest.from = now
        BY <3>3
      <4>. QED  BY <4>1, <4>2 DEF Outside
    <3>. QED  BY <2>3, <2>7, <3>1, <3>2, <3>3
  <2>. QED  BY <2>1, <2>2, <2>6, <2>7 DEF RestInv
<1>5. ASSUME NEW r \in Requests, Unseen(r)
      PROVE  RestInv'
  <2>1. CASE (\E w \in Wants : Arrive(r, w)) \/ PlanExhausted(r)
    BY <1>1, <1>5, <2>1 DEF Unseen, Arrive, PlanExhausted, lanes, view
  <2>2. CASE Drop(r)
    <3>1. phase' = [phase EXCEPT ![r] = "idle"]
          /\ UNCHANGED <<now, cooldown, lane, granted, rests>>
      BY <1>5, <2>2 DEF Unseen, Drop, Leave, lanes, view
    <3>2. ASSUME NEW q \in Requests, phase'[q] = "chosen"
          PROVE  phase[q] = "chosen" /\ scan' = scan
      <4>1. phase[q] = "chosen" /\ q # r
        BY <3>1, <3>2
      <4>2. phase[r] # "asleep"
        BY <4>1 DEF GateHeldByHead, HoldsGate
      <4>. QED  BY <2>2, <4>1, <4>2 DEF Drop
    <3>. QED  BY <1>1, <3>1, <3>2
  <2>3. CASE ScanRefuses(r) \/ ScanWaits(r)
    <3>1. Scan(r) /\ UNCHANGED <<lane, granted, rests, now, cooldown>>
      BY <1>5, <2>3 DEF Unseen, ScanRefuses, ScanWaits, Scan, view
    <3>2. \A q \in Requests : phase'[q] # "chosen"
      <4>1. \A q \in Requests : phase[q] = "chosen" => q = r
        BY <3>1, OneChosen DEF Scan
      <4>. QED  BY <2>3, <4>1 DEF ScanRefuses, ScanWaits, Leave
    <3>. QED  BY <1>1, <3>1, <3>2
  <2>4. CASE ScanChooses(r)
    <3>1. Scan(r) /\ UNCHANGED <<granted, rests, now, cooldown>> /\ scan'.at = now
      BY <1>5, <2>4 DEF Unseen, ScanChooses, Scan, view
    <3>2. PICK l \in WithRoom(r) : lane' = [lane EXCEPT ![r] = l]
      BY <2>4 DEF ScanChooses
    <3>3. l \in Lanes /\ ~(cooldown[l] > now)
      BY DEF WithRoom, Open, Eligible, Benched
    <3>4. \A rest \in rests[l] : Outside(now, rest)
      <4>1. ASSUME NEW rest \in rests[l]  PROVE Outside(now, rest)
        <5>1. rest.until \in Nat /\ cooldown[l] \in Nat /\ rest.until <= cooldown[l]
          BY <3>3 DEF RestInv
        <5>. QED  BY <3>3, <5>1 DEF Outside
      <4>. QED  BY <4>1
    <3>5. \A q \in Requests : phase'[q] = "chosen" => q = r
      <4>1. \A q \in Requests : phase[q] = "chosen" => q = r
        BY <3>1, OneChosen DEF Scan
      <4>. QED  BY <2>4, <4>1 DEF ScanChooses
    <3>. QED  BY <3>1, <3>2, <3>3, <3>4, <3>5 DEF RestInv
  <2>. QED  BY <1>5, <2>1, <2>2, <2>3, <2>4 DEF Unseen
<1>6. ASSUME NEW r \in Requests, Send(r) \/ EndOnLane(r)
      PROVE  RestInv'
  <2>1. UNCHANGED <<rests, granted, cooldown, now, scan>>
    BY <1>6 DEF Send, EndOnLane, Answered, SendFails, GiveBack, vars
  <2>2. \A q \in Requests : phase'[q] = "chosen" => phase[q] = "chosen" /\ lane'[q] = lane[q]
    BY <1>6 DEF Send, EndOnLane, Answered, SendFails, GiveBack, vars
  <2>. QED  BY <1>1, <2>1, <2>2
<1>7. CASE UNCHANGED allvars
  BY <1>1, <1>7 DEF allvars, vars, view
<1>. QED
  BY <1>2, <1>3, <1>4, <1>5, <1>6, <1>7 DEF ViewNext

\* A key the upstream asked to rest is left alone for as long as any rebuff asked,
\* whatever shorter rests other rebuffs ask for.
THEOREM RestsAreHonoured == ViewSpec => []RestHonoured
<1>1. ViewInit => DispatcherInv /\ BudgetInv
  BY DispatcherInvInitially, BudgetInvInitially DEF ViewInit
<1>2. ViewInit => RestInv
  BY DEF ViewInit, Init, RestInv
<1>3. RestInv => RestHonoured
  BY DEF RestInv, RestHonoured, Outside
<1>. QED
  BY <1>1, <1>2, <1>3, DispatcherInvInductive, BudgetInvInductive, RestInvInductive, PTL
     DEF ViewSpec

-----------------------------------------------------------------------------
(***************************************************************************)
(* Arrivals.  Each slot is used at most once, and an arrival is dated      *)
(* within the margin after its slot.                                       *)
(***************************************************************************)
Ordered(g) == \A i, j \in 1..Len(g) : i <= j => g[i] <= g[j]

\* The delay of the slot numbered k of lane l, used at t, is within the margin.
UsedInTime(l, k, t) ==
  k \in 1..Len(granted[l]) /\ granted[l][k] <= t /\ t <= granted[l][k] + Margin

ArrivalInv ==
  /\ slot \in [Requests -> Nat]
  /\ arrived \in [Lanes -> SUBSET [slot : Nat, at : Nat]]
  /\ \A l \in Lanes : Ordered(granted[l])
  /\ \A l \in Lanes : \A a \in arrived[l] : UsedInTime(l, a.slot, a.at)
  /\ \A l \in Lanes : \A a, b \in arrived[l] : a.slot = b.slot => a = b
  /\ \A r \in Requests : phase[r] = "chosen" => now <= scan.at + Margin
  /\ \A r \in Requests : OnItsWay(r) =>
       /\ phase[r] = "granted"
       /\ UsedInTime(lane[r], slot[r], now)
       /\ \A a \in arrived[lane[r]] : a.slot # slot[r]
  /\ \A r, q \in Requests :
       OnItsWay(r) /\ OnItsWay(q) /\ lane[r] = lane[q] /\ slot[r] = slot[q] => r = q

LEMMA ArrivalInvInductive ==
  DispatcherInv /\ BudgetInv /\ ArrivalInv /\ [ViewNext]_allvars => ArrivalInv'
<1>. SUFFICES ASSUME DispatcherInv, BudgetInv, ArrivalInv, [ViewNext]_allvars
              PROVE  ArrivalInv'
  OBVIOUS
<1>. USE DEF DispatcherInv, TypeInv, TypeOK
<1>1. \A l \in Lanes : /\ granted[l] \in Seq(Nat)
                       /\ \A i \in 1..Len(granted[l]) : granted[l][i] \in Nat
  BY DEF BudgetInv
\* Steps that leave every permit on its way where it is.
<1>2. ASSUME UNCHANGED <<granted, arrived, slot, now>>,
             \A r \in Requests : phase'[r] = "chosen" =>
                (phase[r] = "chosen" /\ scan' = scan) \/ scan'.at = now,
             \A r \in Requests : phase[r] = "granted" =>
                phase'[r] = "granted" /\ lane'[r] = lane[r]
      PROVE  ArrivalInv'
  <2>1. \A r \in Requests : (OnItsWay(r))' <=> OnItsWay(r)
    BY <1>2 DEF OnItsWay
  <2>2. \A r \in Requests : OnItsWay(r) =>
          phase'[r] = "granted" /\ phase[r] = "granted" /\ lane'[r] = lane[r]
    BY <1>2 DEF ArrivalInv
  <2>3. \A l \in Lanes : \A k, t \in Nat : (UsedInTime(l, k, t))' <=> UsedInTime(l, k, t)
    BY <1>2 DEF UsedInTime
  <2>4. \A r \in Requests : phase'[r] = "chosen" => now' <= scan'.at + Margin
    <3>1. now <= now + Margin /\ now' = now
      BY <1>2, MarginAssumption
    <3>2. ASSUME NEW r \in Requests, phase'[r] = "chosen"
          PROVE  now <= scan'.at + Margin
      <4>1. CASE phase[r] = "chosen" /\ scan' = scan
        BY <4>1 DEF ArrivalInv
      <4>2. CASE scan'.at = now
        BY <3>1, <4>2
      <4>. QED  BY <1>2, <3>2, <4>1, <4>2
    <3>. QED  BY <3>1, <3>2
  <2>5. \A l \in Lanes : \A a \in arrived'[l] : (UsedInTime(l, a.slot, a.at))'
    BY <1>2 DEF ArrivalInv, UsedInTime
  <2>6. \A r \in Requests : OnItsWay(r) => (UsedInTime(lane[r], slot[r], now))'
    BY <1>2, <2>2 DEF ArrivalInv, UsedInTime
  <2>7. \A r \in Requests : OnItsWay(r) => \A a \in arrived'[lane'[r]] : a.slot # slot'[r]
    BY <1>2, <2>2 DEF ArrivalInv
  <2>8. \A r, q \in Requests :
          OnItsWay(r) /\ OnItsWay(q) /\ lane'[r] = lane'[q] /\ slot'[r] = slot'[q] => r = q
    BY <1>2, <2>2 DEF ArrivalInv
  <2>9. /\ slot' \in [Requests -> Nat]
        /\ arrived' \in [Lanes -> SUBSET [slot : Nat, at : Nat]]
        /\ \A l \in Lanes : (Ordered(granted[l]))'
        /\ \A l \in Lanes : \A a, b \in arrived'[l] : a.slot = b.slot => a = b
    BY <1>2 DEF ArrivalInv
  <2>. QED  BY <2>1, <2>2, <2>4, <2>5, <2>6, <2>7, <2>8, <2>9 DEF ArrivalInv
<1>3. CASE TickInTime
  <2>1. /\ now' = now + 1
        /\ UNCHANGED <<phase, scan, lane, granted, slot, arrived>>
    BY <1>3 DEF TickInTime, Tick, lanes, view
  <2>2. ASSUME NEW r \in Requests, OnItsWay(r)
        PROVE  (UsedInTime(lane[r], slot[r], now))'
    <3>1. lane[r] \in Lanes /\ UsedInTime(lane[r], slot[r], now)
      BY <2>2 DEF ArrivalInv, LaneKnown
    <3>2. now < granted[lane[r]][slot[r]] + Margin
      BY <1>3, <2>2 DEF TickInTime, DatedAt
    <3>3. granted[lane[r]][slot[r]] \in Nat
      BY <1>1, <3>1 DEF UsedInTime
    <3>4. now \in Nat /\ now' = now + 1
      BY <2>1 DEF TypeInv, TypeOK
    <3>5. UsedInTime(lane[r], slot[r], now + 1)
      <4>. DEFINE at == granted[lane[r]][slot[r]]
      <4>1. at \in Nat /\ now < at + Margin /\ Margin \in Nat
        BY <3>2, <3>3, MarginAssumption
      <4>2. slot[r] \in 1..Len(granted[lane[r]]) /\ at <= now
        BY <3>1 DEF UsedInTime
      <4>3. at <= now + 1 /\ now + 1 <= at + Margin
        <5>. HIDE DEF at
        <5>. QED  BY <3>4, <4>1, <4>2
      <4>. QED  BY <4>2, <4>3 DEF UsedInTime
    <3>. QED  BY <2>1, <3>5 DEF UsedInTime
  <2>3. \A r \in Requests : phase[r] = "chosen" => now + 1 <= scan.at + Margin
    BY <1>3, MarginAssumption DEF TickInTime
  <2>4. \A r \in Requests : (OnItsWay(r))' <=> OnItsWay(r)
    BY <2>1 DEF OnItsWay
  <2>5. \A l \in Lanes : \A a \in arrived'[l] : (UsedInTime(l, a.slot, a.at))'
    BY <2>1 DEF ArrivalInv, UsedInTime
  <2>. QED  BY <2>1, <2>2, <2>3, <2>4, <2>5 DEF ArrivalInv
<1>4. ASSUME NEW r \in Requests, GrantSlot(r)
      PROVE  ArrivalInv'
  <2>. DEFINE l0 == lane[r]
              g == granted[l0]
  <2>1. /\ Take(r) /\ phase[r] = "chosen" /\ l0 \in Lanes /\ scan.at \in Nat
        /\ UNCHANGED <<now, lane, arrived>>
    BY <1>4 DEF GrantSlot, Take, LaneKnown
  <2>2. ASSUME NEW q \in Requests  PROVE phase[q] = "chosen" => q = r
    BY <2>1, OneChosen DEF Take
  <2>3. ~OnItsWay(r)
    BY <2>1 DEF ArrivalInv
  <2>4. CASE phase'[r] = "granted"
    <3>1. /\ granted' = [granted EXCEPT ![l0] = Append(g, scan.at)]
          /\ slot' = [slot EXCEPT ![r] = Len(g) + 1]
          /\ phase' = [phase EXCEPT ![r] = "granted"]
      <4>1. CASE HasRoom(hits[lane[r]], Rpm[lane[r]], scan.at)
        BY <1>4, <2>1, <2>4, <4>1 DEF GrantSlot, Take, Leave
      <4>2. CASE ~HasRoom(hits[lane[r]], Rpm[lane[r]], scan.at)
        BY <1>4, <2>1, <2>4, <4>2 DEF Take
      <4>. QED  BY <4>1, <4>2
    <3>2. g \in Seq(Nat) /\ Len(g) \in Nat
      BY <1>1, <2>1
    <3>3. /\ granted'[l0] = Append(g, scan.at)
          /\ \A l \in Lanes : l # l0 => granted'[l] = granted[l]
      BY <2>1, <3>1 DEF BudgetInv
    <3>4. /\ Len(granted'[l0]) = Len(g) + 1
          /\ granted'[l0][Len(g) + 1] = scan.at
          /\ \A i \in 1..Len(g) : granted'[l0][i] = g[i]
      BY <2>1, <3>2, <3>3
    <3>5. ASSUME NEW l \in Lanes, NEW k, NEW t, UsedInTime(l, k, t)
          PROVE  k \in 1..Len(granted'[l]) /\ granted'[l][k] = granted[l][k]
      <4>1. k \in 1..Len(granted[l])
        BY <3>5 DEF UsedInTime
      <4>2. CASE l = l0
        BY <3>2, <3>4, <4>1, <4>2
      <4>3. CASE l # l0
        BY <3>3, <4>1, <4>3
      <4>. QED  BY <4>2, <4>3
    <3>6. \A l \in Lanes : (Ordered(granted[l]))'
      <4>1. \A i \in 1..Len(g) : g[i] <= scan.at /\ g[i] \in Nat
        BY <1>1, <2>1 DEF BudgetInv, LaneAt, DatedBy
      <4>2. Ordered(granted'[l0])
        <5>1. SUFFICES ASSUME NEW i \in 1..Len(granted'[l0]), NEW j \in 1..Len(granted'[l0]),
                              i <= j
                       PROVE  granted'[l0][i] <= granted'[l0][j]
          BY DEF Ordered
        <5>2. Ordered(g)
          BY <2>1 DEF ArrivalInv
        <5>3. i \in Nat /\ j \in Nat /\ i <= j
              /\ (i \in 1..Len(g) \/ i = Len(g) + 1) /\ (j \in 1..Len(g) \/ j = Len(g) + 1)
          BY <3>2, <3>4, <5>1
        <5>4. CASE j \in 1..Len(g)
          <6>1. i \in 1..Len(g)
            BY <3>2, <5>3, <5>4
          <6>. QED  BY <3>4, <5>2, <5>3, <5>4, <6>1 DEF Ordered
        <5>5. CASE j = Len(g) + 1
          <6>1. granted'[l0][j] = scan.at
            BY <3>4, <5>5
          <6>2. CASE i \in 1..Len(g)
            BY <3>4, <4>1, <6>1, <6>2
          <6>3. CASE i = Len(g) + 1
            BY <2>1, <3>4, <6>1, <6>3
          <6>. QED  BY <5>3, <6>2, <6>3
        <5>. QED  BY <5>3, <5>4, <5>5
      <4>. QED  BY <3>3, <4>2 DEF ArrivalInv
    <3>7. \A l \in Lanes : \A a \in arrived'[l] : (UsedInTime(l, a.slot, a.at))'
      <4>1. ASSUME NEW l \in Lanes, NEW a \in arrived'[l]
            PROVE  (UsedInTime(l, a.slot, a.at))'
        <5>1. UsedInTime(l, a.slot, a.at)
          BY <2>1, <4>1 DEF ArrivalInv
        <5>. QED  BY <3>5, <5>1 DEF UsedInTime
      <4>. QED  BY <4>1
    <3>8. \A a \in arrived[l0] : a.slot # Len(g) + 1
      BY <2>1, <3>2 DEF ArrivalInv, UsedInTime
    <3>9. ASSUME NEW q \in Requests, (OnItsWay(q))'
          PROVE  \/ q = r /\ slot'[q] = Len(g) + 1 /\ lane'[q] = l0
                 \/ q # r /\ slot'[q] = slot[q] /\ OnItsWay(q) /\ lane'[q] = lane[q]
      BY <2>1, <3>1, <3>9 DEF OnItsWay, ArrivalInv
    <3>10. ASSUME NEW q \in Requests, OnItsWay(q), q # r
           PROVE  /\ phase[q] = "granted" /\ phase'[q] = "granted" /\ lane[q] \in Lanes
                  /\ (UsedInTime(lane[q], slot[q], now))'
                  /\ \A a \in arrived'[lane'[q]] : a.slot # slot'[q]
                  /\ lane[q] = l0 => slot[q] # Len(g) + 1
      <4>1. phase[q] = "granted" /\ lane[q] \in Lanes /\ UsedInTime(lane[q], slot[q], now)
        BY <3>10, SMTT(40) DEF ArrivalInv, LaneKnown
      <4>2. slot'[q] = slot[q] /\ phase'[q] = "granted" /\ lane'[q] = lane[q]
        BY <2>1, <3>1, <3>10, <4>1 DEF ArrivalInv
      <4>3. (UsedInTime(lane[q], slot[q], now))'
        BY <2>1, <3>5, <4>1, <4>2, SMTT(40) DEF UsedInTime
      <4>4. lane[q] = l0 => slot[q] # Len(g) + 1
        BY <3>2, <4>1 DEF UsedInTime
      <4>. QED  BY <2>1, <3>10, <4>1, <4>2, <4>3, <4>4 DEF ArrivalInv
    <3>11. (UsedInTime(lane[r], slot[r], now))'
      <4>1. slot'[r] = Len(g) + 1 /\ lane'[r] = l0 /\ now' = now
        BY <2>1, <3>1 DEF ArrivalInv
      <4>2. scan.at <= now /\ now <= scan.at + Margin
        BY <2>1 DEF BudgetInv, ArrivalInv
      <4>. QED  BY <3>2, <3>4, <4>1, <4>2 DEF UsedInTime
    <3>12. \A q \in Requests : phase'[q] # "chosen"
      BY <2>2, <3>1
    <3>13. slot' \in [Requests -> Nat]
      BY <3>1, <3>2 DEF ArrivalInv
    <3>14. \A q \in Requests : (OnItsWay(q))' =>
             /\ phase'[q] = "granted"
             /\ (UsedInTime(lane[q], slot[q], now))'
             /\ \A a \in arrived'[lane'[q]] : a.slot # slot'[q]
      BY <2>1, <2>4, <3>8, <3>9, <3>10, <3>11
    <3>15. ASSUME NEW q1 \in Requests, NEW q2 \in Requests, (OnItsWay(q1))', (OnItsWay(q2))',
                  lane'[q1] = lane'[q2], slot'[q1] = slot'[q2]
           PROVE  q1 = q2
      BY <3>9, <3>10, <3>15 DEF ArrivalInv
    <3>16. /\ arrived' \in [Lanes -> SUBSET [slot : Nat, at : Nat]]
           /\ \A l \in Lanes : \A a, b \in arrived'[l] : a.slot = b.slot => a = b
      BY <2>1 DEF ArrivalInv
    <3>. QED
      BY <3>6, <3>7, <3>12, <3>13, <3>14, <3>15, <3>16 DEF ArrivalInv
  <2>5. CASE phase'[r] # "granted"
    <3>1. /\ UNCHANGED <<granted, slot, now, lane, arrived>>
          /\ phase' = [phase EXCEPT ![r] = "asleep"]
      <4>1. ~HasRoom(hits[lane[r]], Rpm[lane[r]], scan.at)
        BY <2>1, <2>5 DEF Take, Leave
      <4>. QED  BY <1>4, <2>1, <2>5, <4>1 DEF GrantSlot, Take
    <3>2. \A q \in Requests : phase'[q] # "chosen"
      BY <2>2, <3>1
    <3>. QED  BY <1>2, <2>1, <3>1, <3>2
  <2>. QED  BY <2>4, <2>5
<1>5. ASSUME NEW r \in Requests, Send(r)
      PROVE  ArrivalInv'
  <2>. DEFINE l0 == lane[r]
              new == [slot |-> slot[r], at |-> now]
  <2>1. /\ OnItsWay(r)
        /\ arrived' = [arrived EXCEPT ![l0] = arrived[l0] \cup {new}]
        /\ slot' = [slot EXCEPT ![r] = 0]
        /\ UNCHANGED <<now, phase, lane, scan, granted>>
    BY <1>5 DEF Send, vars
  <2>2. /\ l0 \in Lanes /\ UsedInTime(l0, slot[r], now)
        /\ \A a \in arrived[l0] : a.slot # slot[r]
    BY <2>1 DEF ArrivalInv, LaneKnown
  <2>3. new \in [slot : Nat, at : Nat] /\ new.slot = slot[r] /\ new.at = now
    BY DEF ArrivalInv
  <2>. HIDE DEF new
  <2>4. /\ arrived' \in [Lanes -> SUBSET [slot : Nat, at : Nat]]
        /\ slot' \in [Requests -> Nat]
    BY <2>1, <2>3 DEF ArrivalInv
  <2>5. \A l \in Lanes : \A a \in arrived'[l] : a \in arrived[l] \/ (l = l0 /\ a = new)
    BY <2>1, <2>2 DEF ArrivalInv
  <2>6. \A l \in Lanes : \A a \in arrived'[l] : (UsedInTime(l, a.slot, a.at))'
    BY <2>1, <2>2, <2>3, <2>5 DEF ArrivalInv, UsedInTime
  <2>7. \A l \in Lanes : \A a, b \in arrived'[l] : a.slot = b.slot => a = b
    <3>1. ASSUME NEW l \in Lanes, NEW a \in arrived'[l], NEW b \in arrived'[l],
                 a.slot = b.slot
          PROVE  a = b
      <4>1. CASE a \in arrived[l] /\ b \in arrived[l]
        BY <3>1, <4>1 DEF ArrivalInv
      <4>2. CASE a = new /\ b = new
        BY <4>2
      <4>3. CASE l = l0 /\ ((a = new /\ b \in arrived[l]) \/ (a \in arrived[l] /\ b = new))
        BY <2>2, <2>3, <3>1, <4>3
      <4>. QED  BY <2>5, <3>1, <4>1, <4>2, <4>3
    <3>. QED  BY <3>1
  <2>8. \A q \in Requests : (OnItsWay(q))' => OnItsWay(q) /\ q # r /\ slot'[q] = slot[q]
    BY <2>1 DEF OnItsWay, ArrivalInv
  <2>9. ASSUME NEW q \in Requests, (OnItsWay(q))'
        PROVE  /\ phase'[q] = "granted"
               /\ (UsedInTime(lane[q], slot[q], now))'
               /\ \A a \in arrived'[lane'[q]] : a.slot # slot'[q]
    <3>1. OnItsWay(q) /\ q # r /\ slot'[q] = slot[q] /\ lane'[q] = lane[q] /\ lane[q] \in Lanes
          /\ phase'[q] = "granted"
      BY <2>1, <2>8, <2>9 DEF ArrivalInv, LaneKnown
    <3>2. lane[q] = l0 => slot[q] # slot[r]
      BY <2>1, <3>1 DEF ArrivalInv
    <3>3. (UsedInTime(lane[q], slot[q], now))'
      BY <2>1, <3>1 DEF ArrivalInv, UsedInTime
    <3>. QED  BY <2>3, <2>5, <3>1, <3>2, <3>3 DEF ArrivalInv
  <2>10. \A q1, q2 \in Requests :
           (OnItsWay(q1))' /\ (OnItsWay(q2))' /\ lane'[q1] = lane'[q2] /\ slot'[q1] = slot'[q2]
             => q1 = q2
    BY <2>1, <2>8 DEF ArrivalInv
  <2>11. /\ \A l \in Lanes : (Ordered(granted[l]))'
         /\ \A q \in Requests : phase'[q] = "chosen" => now' <= scan'.at + Margin
    BY <2>1 DEF ArrivalInv
  <2>. QED  BY <2>4, <2>6, <2>7, <2>9, <2>10, <2>11 DEF ArrivalInv
\* A request off its lane: its slot, if unused, is never used.
<1>6. ASSUME NEW r \in Requests, EndOnLane(r) \/ \E b \in Backoffs : SeeRebuff(r, b)
      PROVE  ArrivalInv'
  <2>1. /\ phase[r] = "granted"
        /\ phase' = [phase EXCEPT ![r] = "idle"]
        /\ lane' = [lane EXCEPT ![r] = ANY]
        /\ UNCHANGED <<now, scan, granted, arrived>>
    BY <1>6 DEF EndOnLane, SeeRebuff, Answered, SendFails, Rebuff, GiveBack
  <2>2. slot' = [slot EXCEPT ![r] = 0]
    BY <1>6 DEF EndOnLane, SeeRebuff, OnItsWay, ArrivalInv
  <2>3. \A q \in Requests : (OnItsWay(q))' =>
          OnItsWay(q) /\ q # r /\ slot'[q] = slot[q] /\ lane'[q] = lane[q] /\ phase'[q] = phase[q]
    BY <2>1, <2>2 DEF OnItsWay, ArrivalInv
  <2>4. \A q \in Requests : (OnItsWay(q))' =>
          /\ phase'[q] = "granted"
          /\ (UsedInTime(lane[q], slot[q], now))'
          /\ \A a \in arrived'[lane'[q]] : a.slot # slot'[q]
    BY <2>1, <2>3 DEF ArrivalInv, UsedInTime
  <2>5. \A q1, q2 \in Requests :
          (OnItsWay(q1))' /\ (OnItsWay(q2))' /\ lane'[q1] = lane'[q2] /\ slot'[q1] = slot'[q2]
            => q1 = q2
    BY <2>3 DEF ArrivalInv
  <2>6. /\ slot' \in [Requests -> Nat]
        /\ arrived' \in [Lanes -> SUBSET [slot : Nat, at : Nat]]
        /\ \A l \in Lanes : (Ordered(granted[l]))'
        /\ \A l \in Lanes : \A a, b \in arrived'[l] : a.slot = b.slot => a = b
        /\ \A q \in Requests : phase'[q] = "chosen" => now' <= scan'.at + Margin
    BY <2>1, <2>2 DEF ArrivalInv
  <2>7. \A l \in Lanes : \A a \in arrived'[l] : (UsedInTime(l, a.slot, a.at))'
    BY <2>1 DEF ArrivalInv, UsedInTime
  <2>. QED  BY <2>4, <2>5, <2>6, <2>7 DEF ArrivalInv
<1>7. ASSUME NEW r \in Requests, Unseen(r)
      PROVE  ArrivalInv'
  <2>1. UNCHANGED <<granted, arrived, slot, now>>
    BY <1>7 DEF Unseen, Arrive, PlanExhausted, Drop, ScanChooses, ScanRefuses, ScanWaits,
                Scan, view
  <2>2. \A q \in Requests : phase[q] = "granted" => phase'[q] = "granted" /\ lane'[q] = lane[q]
    BY <1>7 DEF Unseen, Arrive, PlanExhausted, Drop, Leave, ScanChooses, ScanRefuses,
                ScanWaits, Scan
  <2>3. ASSUME NEW q \in Requests, phase'[q] = "chosen"
        PROVE  (phase[q] = "chosen" /\ scan' = scan) \/ scan'.at = now
    <3>1. CASE (\E w \in Wants : Arrive(r, w)) \/ PlanExhausted(r)
      BY <2>3, <3>1 DEF Arrive, PlanExhausted
    <3>2. CASE Drop(r)
      <4>1. phase[q] = "chosen" /\ q # r
        BY <2>3, <3>2 DEF Drop, Leave
      <4>2. phase[r] # "asleep"
        BY <4>1 DEF GateHeldByHead, HoldsGate
      <4>. QED  BY <3>2, <4>1, <4>2 DEF Drop
    <3>3. CASE ScanChooses(r)
      BY <3>3 DEF ScanChooses
    <3>4. CASE ScanRefuses(r) \/ ScanWaits(r)
      <4>1. Scan(r) /\ phase'[r] # "chosen"
        BY <3>4 DEF ScanRefuses, ScanWaits, Leave
      <4>2. phase[q] = "chosen" /\ q # r
        BY <2>3, <3>4, <4>1 DEF ScanRefuses, ScanWaits, Leave
      <4>. QED  BY <4>1, <4>2, OneChosen DEF Scan
    <3>. QED  BY <1>7, <3>1, <3>2, <3>3, <3>4 DEF Unseen
  <2>. QED  BY <1>2, <2>1, <2>2, <2>3
<1>8. CASE UNCHANGED allvars
  BY <1>2, <1>8 DEF allvars, vars, view
<1>. QED
  BY <1>3, <1>4, <1>5, <1>6, <1>7, <1>8 DEF ViewNext

\* Two arrivals whose slots are Rpm or more apart are a provider window apart:
\* the margin pays for the delay of the earlier one.
LEMMA FarSlotsArriveFarApart ==
  ASSUME DispatcherInv, BudgetInv, ArrivalInv,
         NEW l \in Lanes, NEW b \in arrived[l], NEW c \in arrived[l],
         b.slot + Rpm[l] <= c.slot
  PROVE  b.at + ProviderWindow <= c.at
<1>. DEFINE g == granted[l]
            n == Rpm[l]
<1>1. g \in Seq(Nat) /\ n \in Nat \ {0}
  BY DispatcherAssumption DEF BudgetInv
<1>2. UsedInTime(l, b.slot, b.at) /\ UsedInTime(l, c.slot, c.at)
  BY DEF ArrivalInv
<1>3. b.at \in Nat /\ c.at \in Nat
  BY DEF ArrivalInv
<1>. HIDE DEF n
<1>4. /\ b.slot \in 1..Len(g) /\ b.slot + n \in 1..Len(g) /\ c.slot \in 1..Len(g)
      /\ b.slot + n <= c.slot /\ b.slot + n <= Len(g)
  <2>1. b.slot \in 1..Len(g) /\ c.slot \in 1..Len(g)
    BY <1>2 DEF UsedInTime
  <2>2. b.slot + n <= c.slot /\ Len(g) \in Nat
    BY <1>1 DEF n
  <2>. HIDE DEF g
  <2>. QED  BY <1>1, <2>1, <2>2
<1>5. g[b.slot] + Window <= g[b.slot + n]
  BY <1>4 DEF BudgetInv, Spaced, n
<1>6. g[b.slot + n] <= g[c.slot]
  BY <1>4 DEF ArrivalInv, Ordered
<1>7. g[b.slot] \in Nat /\ g[b.slot + n] \in Nat /\ g[c.slot] \in Nat
  <2>. HIDE DEF g
  <2>1. \A i \in 1..Len(g) : g[i] \in Nat
    BY <1>1
  <2>. QED  BY <1>4, <2>1
<1>8. b.at <= g[b.slot] + Margin /\ g[c.slot] <= c.at
  BY <1>2 DEF UsedInTime
<1>. HIDE DEF g
<1>. QED  BY <1>3, <1>5, <1>6, <1>7, <1>8, MarginAssumption

LEMMA FewArrivalsInWindow ==
  ASSUME DispatcherInv, BudgetInv, ArrivalInv, NEW l \in Lanes, NEW a \in arrived[l]
  PROVE  Cardinality({b \in arrived[l] : b.at <= a.at /\ a.at < b.at + ProviderWindow}) <= Rpm[l]
<1>. DEFINE B == {b \in arrived[l] : b.at <= a.at /\ a.at < b.at + ProviderWindow}
            n == Rpm[l]
            S == {b.slot : b \in B}
<1>1. n \in Nat \ {0}
  BY DispatcherAssumption
<1>2. arrived[l] \subseteq [slot : Nat, at : Nat] /\ a.at \in Nat
  BY DEF ArrivalInv
<1>3. ASSUME NEW b \in B, NEW c \in B  PROVE c.slot < b.slot + n
  <2>1. /\ b \in arrived[l] /\ c \in arrived[l]
        /\ b.at \in Nat /\ c.at \in Nat /\ b.slot \in Nat /\ c.slot \in Nat
        /\ c.at < b.at + ProviderWindow
    BY <1>2, MarginAssumption
  <2>2. ~(b.slot + n <= c.slot)
    BY <2>1, FarSlotsArriveFarApart, MarginAssumption
  <2>. HIDE DEF n, B
  <2>. QED  BY <1>1, <2>1, <2>2
<1>4. \A b, c \in B : b.slot = c.slot => b = c
  BY DEF ArrivalInv
<1>5. \A b \in B : b.slot \in Nat
  BY <1>2
<1>6. CASE B = {}
  <2>1. Cardinality(B) = 0
    BY <1>6, FS_EmptySet
  <2>. HIDE DEF B
  <2>. QED  BY <1>1, <2>1 DEF B
<1>7. CASE B # {}
  <2>. HIDE DEF B, n
  <2>1. S \in SUBSET Nat /\ S # {}
    BY <1>5, <1>7
  <2>2. PICK m \in S : \A j \in S : m <= j
    <3>. HIDE DEF S
    <3>. QED  BY <2>1, LeastElement
  <2>3. PICK first \in B : m = first.slot
    BY <2>2
  <2>. DEFINE f == [b \in B |-> b.slot]
              T == m .. (m + n - 1)
  <2>4. m \in Nat
    BY <2>1, <2>2
  <2>5. \A b \in B : b.slot \in T
    <3>1. ASSUME NEW b \in B  PROVE b.slot \in T
      <4>1. m <= b.slot /\ b.slot < m + n /\ b.slot \in Nat
        BY <1>3, <1>5, <2>2, <2>3
      <4>. QED  BY <1>1, <2>4, <4>1
    <3>. QED  BY <3>1
  <2>6. f \in Injection(B, T)
    <3>. HIDE DEF T
    <3>. QED  BY <1>4, <2>5 DEF Injection, IsInjective
  <2>7. IsFiniteSet(T) /\ Cardinality(T) = n
    <3>1. m \in Int /\ m + n - 1 \in Int /\ ~(m > m + n - 1)
      BY <1>1, <2>4
    <3>2. /\ IsFiniteSet(T)
          /\ Cardinality(T) = IF m > m + n - 1 THEN 0 ELSE (m + n - 1) - m + 1
      BY <3>1, FS_Interval
    <3>3. (m + n - 1) - m + 1 = n
      BY <1>1, <2>4
    <3>. QED  BY <3>1, <3>2, <3>3
  <2>. HIDE DEF T, f
  <2>8. Cardinality(B) <= Cardinality(T)
    BY <2>6, <2>7, FS_Injection
  <2>. QED  BY <2>7, <2>8 DEF B, n
<1>. QED  BY <1>6, <1>7

\* The upstream never sees a violation: in no rolling window of the provider do
\* more than Rpm requests of one key arrive, whatever the delays within the margin.
THEOREM UpstreamSeesNoViolation == ViewSpec => []UpstreamNeverViolated
<1>1. ViewInit => DispatcherInv /\ BudgetInv
  BY DispatcherInvInitially, BudgetInvInitially DEF ViewInit
<1>2. ViewInit => ArrivalInv
  <2>. SUFFICES ASSUME ViewInit PROVE ArrivalInv
    OBVIOUS
  <2>1. /\ \A r \in Requests : phase[r] = "idle" /\ slot[r] = 0
        /\ \A l \in Lanes : granted[l] = << >> /\ arrived[l] = {}
        /\ slot \in [Requests -> Nat]
        /\ arrived \in [Lanes -> SUBSET [slot : Nat, at : Nat]]
    BY DEF ViewInit, Init
  <2>2. \A l \in Lanes : Ordered(granted[l])
    BY <2>1 DEF Ordered
  <2>. QED  BY <2>1, <2>2 DEF ArrivalInv, OnItsWay
<1>3. DispatcherInv /\ BudgetInv /\ ArrivalInv => UpstreamNeverViolated
  BY FewArrivalsInWindow DEF UpstreamNeverViolated
<1>. QED
  BY <1>1, <1>2, <1>3, DispatcherInvInductive, BudgetInvInductive, ArrivalInvInductive, PTL
     DEF ViewSpec

=============================================================================
