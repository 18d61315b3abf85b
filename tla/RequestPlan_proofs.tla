------------------------- MODULE RequestPlan_proofs -------------------------
(***************************************************************************)
(* A request on its way over the keys: it never goes to the same key       *)
(* twice, it is not stranded by what the catalog says, and when it fails   *)
(* there was no key left to try.  For every pool, every catalog and every  *)
(* plan, as long as the pool is not swapped on the way.                    *)
(***************************************************************************)
EXTENDS RequestPlan, FiniteSetTheorems, TLAPS

LEMMA PoolTypes ==
  ASSUME NEW p \in Pools
  PROVE  p \in Seq(Keys) /\ Len(p) \in Nat /\ DOMAIN p = 1..Len(p) /\ Distinct(p)
<1>1. p \in Seq(Keys) /\ Distinct(p)
  BY PlanAssumption
<1>. QED  BY <1>1

-----------------------------------------------------------------------------
(***************************************************************************)
(* The lanes excluded and the keys that failed are the same, and a permit  *)
(* is for none of them.                                                    *)
(***************************************************************************)
\* What the client gets is settled.
Answered == {"relaying", "sending", "telling", "ended"}

LanesInv ==
  /\ pool \in Pools
  /\ swaps \in Nat
  /\ step \in Nat \ {0}
  /\ pc = "idle" => step = 1 /\ tried = {} /\ sent = {} /\ failed = {}
  /\ swaps = 0 /\ pc \in Waiting =>
       tried \subseteq DOMAIN pool /\ failed = {pool[l] : l \in tried}
  /\ swaps = 0 /\ pc = "upstream" =>
       permit.lane \in DOMAIN pool \ tried /\ permit.key = pool[permit.lane]

\* A failure that moves the request on: the lane excluded is the lane that failed.
LEMMA FailureExcludes ==
  ASSUME LanesInv, swaps = 0, pc = "upstream",
         tried' = tried \cup {permit.lane}, failed' = failed \cup {permit.key}
  PROVE  tried' \subseteq DOMAIN pool /\ failed' = {pool[l] : l \in tried'}
BY DEF LanesInv, Waiting

LEMMA LanesInvInductive == LanesInv /\ [Next]_vars => LanesInv'
<1>. SUFFICES ASSUME LanesInv, [Next]_vars  PROVE LanesInv'
  OBVIOUS
<1>. USE DEF LanesInv, Waiting, Answered, history
<1>1. CASE Begin
  BY <1>1 DEF Begin
<1>2. CASE Return
  BY <1>2 DEF Return
<1>3. CASE AdmitModel
  BY <1>3 DEF AdmitModel
<1>4. ASSUME NEW l \in DOMAIN pool, Granted(l)  PROVE LanesInv'
  <2>1. l \in DOMAIN pool \ tried
    BY <1>4 DEF Granted, Eligible
  <2>2. permit'.lane = l /\ permit'.key = pool[l] /\ pc = "queued"
    BY <1>4 DEF Granted
  <2>. QED  BY <1>4, <2>1, <2>2 DEF Granted
<1>5. CASE NoLane
  BY <1>5 DEF NoLane, MoveOn
<1>6. CASE PlanEnds \/ BodyEnds \/ GiveUp \/ Gone
  BY <1>6 DEF PlanEnds, BodyEnds, GiveUp, Gone, End
<1>7. ASSUME (\E status \in {"429", "5xx"} : Rebuffed(status)) \/ SendFails
      PROVE  LanesInv'
  <2>1. /\ pc = "upstream" /\ failed' = failed \cup {permit.key}
        /\ UNCHANGED <<pool, swaps, sent>>
        /\ \/ pc' \in Answered /\ UNCHANGED step
           \/ pc' = "step" /\ step' = step + 1 /\ tried' = tried \cup {permit.lane}
    BY <1>7 DEF Rebuffed, SendFails, MoveOn, Exclude, Relay, End
  <2>2. CASE pc' \in Answered /\ UNCHANGED step
    BY <2>1, <2>2
  <2>3. CASE pc' = "step" /\ step' = step + 1 /\ tried' = tried \cup {permit.lane}
    <3>1. swaps = 0 => tried' \subseteq DOMAIN pool /\ failed' = {pool[l] : l \in tried'}
      BY <2>1, <2>3, FailureExcludes
    <3>. QED  BY <2>1, <2>3, <3>1
  <2>. QED  BY <2>1, <2>2, <2>3
<1>8. CASE SendPlain \/ DeadlinePasses \/ Beats \/ Sends \/ ClientReads
  BY <1>8 DEF SendPlain, DeadlinePasses, Beats, Sends, ClientReads
<1>9. CASE Rejected \/ Accepted
  BY <1>9 DEF Rejected, Accepted, Relay
<1>10. CASE Swap
  <2>1. swaps' \in Nat /\ swaps' # 0 /\ pool' \in Pools /\ UNCHANGED <<step, pc, tried, sent, failed>>
    BY <1>10 DEF Swap, request
  <2>. QED  BY <2>1
<1>11. CASE UNCHANGED vars
  BY <1>11 DEF vars, request
<1>. QED
  BY <1>1, <1>2, <1>3, <1>4, <1>5, <1>6, <1>7, <1>8, <1>9, <1>10, <1>11 DEF Next

LEMMA LanesInvInitially == Init => LanesInv
BY DEF Init, LanesInv, Waiting

\* A request goes to another key each time.
THEOREM NeverTheSameKeyTwice == Spec => []AnotherKeyEachTime
<1>1. LanesInv => AnotherKeyEachTime
  <2>. SUFFICES ASSUME LanesInv, swaps = 0, pc = "upstream"  PROVE permit.key \notin failed
    BY DEF AnotherKeyEachTime
  <2>1. /\ permit.lane \in DOMAIN pool \ tried /\ permit.key = pool[permit.lane]
        /\ tried \subseteq DOMAIN pool /\ failed = {pool[l] : l \in tried}
    BY DEF LanesInv, Waiting
  <2>2. Distinct(pool)
    BY PoolTypes DEF LanesInv
  <2>. QED  BY <2>1, <2>2 DEF Distinct
<1>. QED  BY <1>1, LanesInvInitially, LanesInvInductive, PTL DEF Spec

-----------------------------------------------------------------------------
(***************************************************************************)
(* The plan of a request without an alias: a step for each provider that   *)
(* the catalog names, then one or more that go anywhere.                   *)
(***************************************************************************)
AsPlanned(plan) ==
  \E k \in Nat :
    /\ Len(plan) \in Nat /\ DOMAIN plan = 1..Len(plan)
    /\ k < Len(plan) /\ Len(plan) >= Clamped(Len(pool))
    /\ \A i \in 1..k : plan[i].provider # ANY
    /\ \A i \in k + 1..Len(plan) : plan[i].provider = ANY
    /\ \A i, j \in 1..k : plan[i].provider = plan[j].provider => i = j

LEMMA PlanForOffering ==
  ASSUME pool \in Pools, NEW o \in Offerings
  PROVE  AsPlanned(Plan(ANY, Len(pool), o))
<1>. DEFINE names == {o[i] : i \in DOMAIN o}
            k == Len(o)
            n == Len(pool)
            len == k + Anywhere(n, k)
            plan == [i \in 1..len |-> [provider |-> IF i <= k THEN o[i] ELSE ANY, model |-> ANY]]
<1>1. o \in Seq(names) /\ Distinct(o) /\ ANY \notin names
  BY PlanAssumption
<1>2. k \in Nat /\ DOMAIN o = 1..k /\ n \in Nat
  BY <1>1, PoolTypes
<1>3. /\ Anywhere(n, k) \in Nat \ {0}
      /\ k + Anywhere(n, k) >= Clamped(n)
  BY <1>2 DEF Anywhere, Clamped
<1>4. len \in Nat /\ k < len /\ len >= Clamped(n)
  BY <1>2, <1>3
<1>5. Plan(ANY, n, o) = plan
  BY DEF Plan
<1>. HIDE DEF len, n
<1>6. DOMAIN plan = 1..len /\ Len(plan) = len
  BY <1>4
<1>7. \A i \in 1..k : plan[i].provider = o[i] /\ o[i] # ANY
  BY <1>1, <1>2, <1>4
<1>8. \A i \in k + 1..len : plan[i].provider = ANY
  BY <1>2, <1>4
<1>9. \A i, j \in 1..k : o[i] = o[j] => i = j
  BY <1>1, <1>2 DEF Distinct
<1>. HIDE DEF plan, k
<1>10. \A i, j \in 1..k : plan[i].provider = plan[j].provider => i = j
  BY <1>7, <1>9
<1>11. Len(plan) >= Clamped(Len(pool))
  BY <1>4, <1>6 DEF n
<1>12. AsPlanned(plan)
  <2>1. Len(plan) \in Nat /\ DOMAIN plan = 1..Len(plan) /\ k < Len(plan)
    BY <1>4, <1>6
  <2>2. \A i \in 1..k : plan[i].provider # ANY
    BY <1>7
  <2>3. \A i \in k + 1..Len(plan) : plan[i].provider = ANY
    BY <1>6, <1>8
  <2>. QED  BY <1>2, <1>10, <1>11, <2>1, <2>2, <2>3, Zenon DEF AsPlanned
<1>. QED  BY <1>5, <1>12, Zenon DEF n

\* A request that is not of an alias, while the pool is as it found it.
Plain == swaps = 0 /\ rq.alias = ANY

PlannedInv == Plain /\ pc # "idle" => AsPlanned(rq.plan)

LEMMA PlannedInvInductive == LanesInv /\ PlannedInv /\ [Next]_vars => PlannedInv'
<1>. SUFFICES ASSUME LanesInv, PlannedInv, [Next]_vars  PROVE PlannedInv'
  OBVIOUS
<1>1. CASE Begin
  <2>1. PICK alias \in Aliases \cup {ANY}, offering \in Offerings, stream \in BOOLEAN :
          rq' = [alias |-> alias, stream |-> stream,
                 plan |-> Plan(alias, Len(pool), offering)]
    BY <1>1 DEF Begin
  <2>2. rq'.alias = alias /\ rq'.plan = Plan(alias, Len(pool), offering) /\ pool' = pool
    BY <1>1, <2>1 DEF Begin
  <2>3. AsPlanned(Plan(ANY, Len(pool), offering))
    BY PlanForOffering DEF LanesInv
  <2>. QED  BY <2>2, <2>3 DEF PlannedInv, Plain, AsPlanned
<1>2. CASE Return
  BY <1>2 DEF Return, PlannedInv
<1>3. CASE Swap
  <2>1. swaps' # 0
    BY <1>3 DEF Swap, LanesInv
  <2>. QED  BY <2>1 DEF PlannedInv, Plain
<1>4. ASSUME UNCHANGED <<pool, swaps, rq>>, pc # "idle" \/ pc' = pc  PROVE PlannedInv'
  BY <1>4 DEF PlannedInv, Plain, AsPlanned
<1>5. ASSUME NEW l \in DOMAIN pool, Granted(l)  PROVE PlannedInv'
  BY <1>4, <1>5 DEF Granted
<1>6. ASSUME NEW status, Rebuffed(status)  PROVE PlannedInv'
  BY <1>4, <1>6 DEF Rebuffed
<1>7. CASE \/ AdmitModel \/ NoLane \/ PlanEnds \/ SendFails \/ SendPlain \/ Rejected
           \/ Accepted \/ BodyEnds \/ DeadlinePasses \/ GiveUp \/ Gone \/ Beats \/ Sends
           \/ ClientReads
  <2>1. UNCHANGED <<pool, swaps, rq>> /\ pc # "idle"
    BY <1>7 DEF AdmitModel, NoLane, PlanEnds, SendFails, SendPlain, Rejected, Accepted,
                BodyEnds, DeadlinePasses, GiveUp, Gone, OnTheClock, Waiting, AtClient,
                Beats, Sends, ClientReads
  <2>. QED  BY <1>4, <2>1
<1>8. CASE UNCHANGED vars
  BY <1>4, <1>8 DEF vars, request
<1>. QED  BY <1>1, <1>2, <1>3, <1>5, <1>6, <1>7, <1>8 DEF Next

LEMMA PlannedInvInitially == Init => PlannedInv
BY DEF Init, PlannedInv
-----------------------------------------------------------------------------
(***************************************************************************)
(* Until it was sent somewhere a request has excluded no lane, and so has  *)
(* every lane left when it comes to its last step, which goes anywhere.    *)
(***************************************************************************)
StrandInv ==
  Plain =>
    /\ pc \in Waiting => pool # << >>
    /\ pc \in {"step", "queued", "beating"} /\ sent = {} =>
         tried = {} /\ step <= Len(rq.plan)
    /\ pc \in {"queued", "beating"} => step <= Len(rq.plan)
    /\ pc = "upstream" => sent # {}
    /\ pc \in {"relaying", "sending"} => answer # "503"
    /\ pc \in {"telling", "ended"} /\ answer = "503" => sent # {}

LEMMA StrandInvInductive ==
  LanesInv /\ PlannedInv /\ PlannedInv' /\ StrandInv /\ [Next]_vars => StrandInv'
<1>. SUFFICES ASSUME LanesInv, PlannedInv, PlannedInv', StrandInv, [Next]_vars  PROVE StrandInv'
  OBVIOUS
<1>. USE DEF StrandInv, Plain, Waiting, Answered, history
<1>1. CASE Begin
  <2>1. CASE pool = << >>
    BY <1>1, <2>1 DEF Begin
  <2>2. CASE pool # << >>
    <3>1. pc' = "step" /\ step' = 1 /\ tried' = {} /\ pool' = pool /\ swaps' = swaps
      BY <1>1, <2>2 DEF Begin, LanesInv
    <3>2. Plain' => 1 <= Len(rq'.plan)
      BY <3>1 DEF PlannedInv, AsPlanned
    <3>. QED  BY <2>2, <3>1, <3>2
  <2>. QED  BY <2>1, <2>2
<1>2. CASE Return
  BY <1>2 DEF Return
<1>3. CASE AdmitModel
  BY <1>3 DEF AdmitModel
<1>4. ASSUME NEW l \in DOMAIN pool, Granted(l)  PROVE StrandInv'
  BY <1>4 DEF Granted
<1>5. CASE NoLane
  <2>1. /\ pc = "queued" /\ Eligible = {} /\ pc' = "step" /\ step' = step + 1
        /\ UNCHANGED <<pool, swaps, rq, tried, sent, answer>>
    BY <1>5 DEF NoLane, MoveOn
  <2>2. ASSUME Plain, sent = {}  PROVE step + 1 <= Len(rq.plan)
    <3>1. tried = {} /\ step <= Len(rq.plan) /\ pool # << >> /\ step \in Nat \ {0}
      BY <2>1, <2>2 DEF LanesInv
    <3>2. /\ Len(rq.plan) \in Nat
          /\ rq.plan[Len(rq.plan)].provider = ANY
      BY <2>1, <2>2 DEF PlannedInv, AsPlanned
    <3>3. 1 \in DOMAIN pool
      <4>1. pool \in Pools
        BY DEF LanesInv
      <4>. QED  BY <3>1, <4>1, PoolTypes
    <3>4. step # Len(rq.plan)
      BY <2>1, <3>1, <3>2, <3>3 DEF Eligible
    <3>. QED  BY <3>1, <3>2, <3>4
  <2>. QED  BY <2>1, <2>2
<1>6. CASE PlanEnds
  <2>1. pc = "step" /\ step > Len(rq.plan) /\ pc' \in {"telling", "ended"}
        /\ UNCHANGED <<pool, swaps, rq, sent>>
    BY <1>6 DEF PlanEnds, End
  <2>2. Plain => Len(rq.plan) \in Nat /\ step \in Nat
    BY <2>1 DEF PlannedInv, AsPlanned, LanesInv
  <2>. QED  BY <2>1, <2>2
<1>7. CASE BodyEnds
  BY <1>7 DEF BodyEnds, End
<1>8. CASE GiveUp \/ Gone
  BY <1>8 DEF GiveUp, Gone, End
<1>9. ASSUME (\E status \in {"429", "5xx"} : Rebuffed(status)) \/ SendFails
      PROVE  StrandInv'
  <2>1. /\ pc = "upstream" /\ UNCHANGED <<pool, swaps, rq, sent>>
        /\ \/ pc' \in Answered /\ answer' \in {"429", "5xx", "502"}
           \/ pc' = "step"
    BY <1>9 DEF Rebuffed, SendFails, MoveOn, Relay, End
  <2>. QED  BY <2>1
<1>10. CASE SendPlain \/ DeadlinePasses \/ Beats \/ Sends \/ ClientReads
  BY <1>10 DEF SendPlain, DeadlinePasses, Beats, Sends, ClientReads
<1>11. CASE Rejected \/ Accepted
  BY <1>11 DEF Rejected, Accepted, Relay
<1>12. CASE Swap
  <2>1. swaps' # 0
    BY <1>12 DEF Swap, LanesInv
  <2>. QED  BY <2>1
<1>13. CASE UNCHANGED vars
  BY <1>13 DEF vars, request
<1>. QED
  BY <1>1, <1>2, <1>3, <1>4, <1>5, <1>6, <1>7, <1>8, <1>9, <1>10, <1>11, <1>12, <1>13 DEF Next

\* However wrong the catalog is, a request is not refused before it was sent.
THEOREM CatalogStrandsNobody == Spec => []NotStranded
<1>1. Init => StrandInv
  BY DEF Init, StrandInv, Waiting
<1>2. StrandInv => NotStranded
  BY DEF StrandInv, Plain, NotStranded
<1>. QED
  BY <1>1, <1>2, LanesInvInitially, LanesInvInductive, PlannedInvInitially,
     PlannedInvInductive, StrandInvInductive, PTL DEF Spec

-----------------------------------------------------------------------------
(***************************************************************************)
(* Where every provider the catalog names has a key, every step finds a    *)
(* lane as long as one is left: a step that names a provider is the first  *)
(* to, and all before it named others.  So the lanes excluded are as many  *)
(* as the steps gone by, until they are all.                               *)
(***************************************************************************)
Guarded ==
  /\ Plain
  /\ Len(pool) <= 4
  /\ \A i \in DOMAIN rq.plan :
       rq.plan[i].provider \in {ANY} \cup {ProviderOf[pool[l]] : l \in DOMAIN pool}

Everywhere == {pool[l] : l \in DOMAIN pool}

\* Lane l is one that a step before the present one may have been granted.
Passed(l) ==
  \E j \in DOMAIN rq.plan : j < step /\ rq.plan[j].provider \in {ANY, ProviderOf[pool[l]]}

TriesInv ==
  Guarded =>
    /\ pc \in Waiting =>
         /\ step <= Len(rq.plan) + 1
         /\ \A l \in tried : Passed(l)
         /\ IF step - 1 <= Len(pool) THEN Cardinality(tried) = step - 1 ELSE tried = DOMAIN pool
    /\ pc \in {"queued", "beating"} => step <= Len(rq.plan)
    /\ pc = "upstream" => step <= Len(rq.plan) /\ rq.plan[step].provider \in {ANY, ProviderOf[permit.key]}
    /\ pc \in Answered /\ answer \in Refusals => failed = Everywhere

\* As many lanes as there are are all of them.
LEMMA AllTried ==
  ASSUME pool \in Pools, NEW lanes \in SUBSET DOMAIN pool
  PROVE  /\ IsFiniteSet(lanes) /\ Cardinality(lanes) \in Nat
         /\ Cardinality(lanes) <= Len(pool)
         /\ Cardinality(lanes) = Len(pool) <=> lanes = DOMAIN pool
<1>1. DOMAIN pool = 1..Len(pool) /\ Len(pool) \in Nat
  BY PoolTypes
<1>2. IsFiniteSet(DOMAIN pool) /\ Cardinality(DOMAIN pool) = Len(pool)
  BY <1>1, FS_Interval
<1>. QED  BY <1>1, <1>2, FS_Subset, FS_CardinalityType

\* A step finds no lane only when all of them are excluded.
LEMMA NoLaneWhenAllTried ==
  ASSUME LanesInv, PlannedInv, TriesInv, Guarded, pc = "queued", Eligible = {}
  PROVE  tried = DOMAIN pool
<1>1. /\ tried \subseteq DOMAIN pool /\ \A l \in tried : Passed(l)
      /\ step \in Nat \ {0} /\ step <= Len(rq.plan)
  BY DEF LanesInv, TriesInv, Guarded, Plain, Waiting
<1>2. PICK k \in Nat :
        /\ Len(rq.plan) \in Nat /\ DOMAIN rq.plan = 1..Len(rq.plan)
        /\ \A i \in 1..k : rq.plan[i].provider # ANY
        /\ \A i \in k + 1..Len(rq.plan) : rq.plan[i].provider = ANY
        /\ \A i, j \in 1..k : rq.plan[i].provider = rq.plan[j].provider => i = j
  BY DEF PlannedInv, Guarded, AsPlanned
<1>3. step \in DOMAIN rq.plan
  BY <1>1, <1>2
<1>4. CASE rq.plan[step].provider = ANY
  BY <1>1, <1>4 DEF Eligible
<1>5. CASE rq.plan[step].provider # ANY
  <2>1. PICK l \in DOMAIN pool : rq.plan[step].provider = ProviderOf[pool[l]]
    BY <1>3, <1>5 DEF Guarded
  <2>2. l \in tried
    BY <2>1 DEF Eligible
  <2>3. PICK j \in DOMAIN rq.plan :
          j < step /\ rq.plan[j].provider \in {ANY, ProviderOf[pool[l]]}
    BY <1>1, <2>2 DEF Passed
  <2>4. step \in 1..k
    BY <1>1, <1>2, <1>5
  <2>5. j \in 1..k /\ j # step
    BY <1>1, <1>2, <2>3, <2>4
  <2>. QED  BY <1>2, <2>1, <2>3, <2>4, <2>5
<1>. QED  BY <1>4, <1>5

\* A failure excludes one lane more, and at the last step there is none left.
LEMMA FailureCounts ==
  ASSUME LanesInv, PlannedInv, StrandInv, TriesInv, Guarded, pc = "upstream",
         NEW lanes, lanes = tried \cup {permit.lane}
  PROVE  /\ step <= Len(pool) /\ Cardinality(lanes) = step
         /\ step = Len(rq.plan) => lanes = DOMAIN pool
<1>1. /\ pool \in Pools /\ step \in Nat \ {0} /\ tried \subseteq DOMAIN pool
      /\ permit.lane \in DOMAIN pool \ tried
      /\ IF step - 1 <= Len(pool) THEN Cardinality(tried) = step - 1 ELSE tried = DOMAIN pool
      /\ pool # << >>
  BY DEF LanesInv, StrandInv, TriesInv, Guarded, Plain, Waiting
<1>2. /\ IsFiniteSet(tried) /\ Cardinality(tried) \in Nat
      /\ Cardinality(tried) <= Len(pool)
      /\ Cardinality(tried) = Len(pool) <=> tried = DOMAIN pool
  BY <1>1, AllTried
<1>3. Len(pool) \in Nat /\ DOMAIN pool = 1..Len(pool)
  BY <1>1, PoolTypes
<1>4. tried # DOMAIN pool
  BY <1>1
<1>5. Cardinality(tried) = step - 1 /\ step <= Len(pool)
  <2>1. Cardinality(tried) = step - 1
    BY <1>1, <1>4
  <2>2. Cardinality(tried) # Len(pool)
    BY <1>2, <1>4
  <2>. QED  BY <1>1, <1>2, <1>3, <2>1, <2>2
<1>6. lanes \subseteq DOMAIN pool /\ Cardinality(lanes) = step
  <2>1. Cardinality(tried \cup {permit.lane}) = Cardinality(tried) + 1
    BY <1>1, <1>2, FS_AddElement
  <2>. QED  BY <1>1, <1>5, <2>1
<1>7. ASSUME step = Len(rq.plan)  PROVE lanes = DOMAIN pool
  <2>1. Len(rq.plan) >= Clamped(Len(pool)) /\ Len(pool) <= 4
    BY DEF PlannedInv, Guarded, AsPlanned
  <2>2. Cardinality(lanes) = Len(pool)
    BY <1>1, <1>3, <1>5, <1>6, <1>7, <2>1 DEF Clamped
  <2>. QED  BY <1>1, <1>6, <2>2, AllTried
<1>. QED  BY <1>5, <1>6, <1>7

LEMMA TriesInvInductive ==
  LanesInv /\ PlannedInv /\ StrandInv /\ TriesInv /\ PlannedInv' /\ [Next]_vars => TriesInv'
<1>. SUFFICES ASSUME LanesInv, PlannedInv, PlannedInv', StrandInv, TriesInv, [Next]_vars
              PROVE  TriesInv'
  OBVIOUS
<1>. USE DEF Waiting, Answered, Refusals
<1>0. ASSUME UNCHANGED <<pool, swaps, rq>>
      PROVE  /\ Guarded' = Guarded /\ Everywhere' = Everywhere
             /\ step' = step => \A l : Passed(l)' = Passed(l)
  BY <1>0 DEF Guarded, Plain, Everywhere, Passed
<1>1. CASE Begin
  <2>1. CASE pool = << >>
    BY <1>1, <2>1 DEF Begin, TriesInv
  <2>2. CASE pool # << >>
    <3>1. pc' = "step" /\ step' = 1 /\ tried' = {} /\ pool' = pool
      BY <1>1, <2>2 DEF Begin, LanesInv
    <3>2. Guarded' => Len(rq'.plan) \in Nat
      BY <3>1 DEF Guarded, PlannedInv, AsPlanned
    <3>3. Len(pool) \in Nat /\ Cardinality(tried') = 0
      BY <3>1, PoolTypes, FS_EmptySet DEF LanesInv
    <3>. QED  BY <3>1, <3>2, <3>3 DEF TriesInv
  <2>. QED  BY <2>1, <2>2
<1>2. CASE Return
  BY <1>2 DEF Return, TriesInv
<1>3. CASE AdmitModel
  BY <1>0, <1>3 DEF AdmitModel, TriesInv
<1>4. ASSUME NEW l \in DOMAIN pool, Granted(l)  PROVE TriesInv'
  <2>1. /\ pc = "queued" /\ pc' = "upstream" /\ permit'.key = pool[l]
        /\ rq.plan[step].provider \in {ANY, ProviderOf[pool[l]]}
        /\ UNCHANGED <<pool, swaps, rq, step, tried>>
    BY <1>4 DEF Granted, Eligible
  <2>. QED  BY <1>0, <2>1 DEF TriesInv
<1>5. CASE NoLane
  <2>1. /\ pc = "queued" /\ Eligible = {} /\ pc' = "step" /\ step' = step + 1
        /\ UNCHANGED <<pool, swaps, rq, tried>>
    BY <1>5 DEF NoLane, MoveOn
  <2>. SUFFICES ASSUME Guarded
                PROVE  /\ step + 1 <= Len(rq.plan) + 1
                       /\ \A l \in tried : Passed(l)'
                       /\ IF step <= Len(pool) THEN Cardinality(tried) = step
                          ELSE tried = DOMAIN pool
    <3>1. step \in Nat
      BY DEF LanesInv
    <3>2. (step + 1) - 1 = step
      BY <3>1
    <3>. QED  BY <1>0, <2>1, <3>2 DEF TriesInv
  <2>2. tried = DOMAIN pool
    BY <2>1, NoLaneWhenAllTried
  <2>3. /\ step <= Len(rq.plan) /\ \A l \in tried : Passed(l)
        /\ IF step - 1 <= Len(pool) THEN Cardinality(tried) = step - 1 ELSE tried = DOMAIN pool
    BY <2>1 DEF TriesInv
  <2>4. step \in Nat \ {0} /\ Len(pool) \in Nat /\ Len(rq.plan) \in Nat
    <3>1. pool \in Pools /\ step \in Nat \ {0}
      BY DEF LanesInv
    <3>2. Len(rq.plan) \in Nat
      BY <2>1 DEF PlannedInv, Guarded, AsPlanned
    <3>. QED  BY <3>1, <3>2, PoolTypes
  <2>5. Cardinality(tried) = Len(pool)
    BY <2>2, AllTried DEF LanesInv
  <2>6. \A l \in tried : Passed(l)'
    <3>1. \A j : j < step /\ j \in DOMAIN rq.plan => j < step + 1
      <4>1. DOMAIN rq.plan = 1..Len(rq.plan)
        BY <2>1 DEF PlannedInv, Guarded, AsPlanned
      <4>. QED  BY <2>4, <4>1
    <3>. QED  BY <2>1, <2>3, <3>1 DEF Passed
  <2>. QED  BY <2>2, <2>3, <2>4, <2>5, <2>6
<1>6. CASE PlanEnds
  <2>1. pc = "step" /\ step > Len(rq.plan) /\ UNCHANGED <<pool, swaps, rq, failed>>
        /\ pc' \in {"telling", "ended"}
    BY <1>6 DEF PlanEnds, End, history
  <2>2. ASSUME Guarded  PROVE tried = DOMAIN pool
    <3>1. /\ pool \in Pools /\ step \in Nat /\ tried \subseteq DOMAIN pool
          /\ IF step - 1 <= Len(pool) THEN Cardinality(tried) = step - 1 ELSE tried = DOMAIN pool
          /\ pool # << >>
      BY <2>1, <2>2 DEF LanesInv, StrandInv, TriesInv, Guarded, Plain
    <3>2. /\ Len(rq.plan) \in Nat /\ Len(rq.plan) >= Clamped(Len(pool)) /\ Len(pool) <= 4
      BY <2>1, <2>2 DEF PlannedInv, Guarded, AsPlanned
    <3>3. Len(pool) \in Nat \ {0}
      BY <3>1, PoolTypes
    <3>4. Len(pool) <= step - 1
      BY <2>1, <3>1, <3>2, <3>3 DEF Clamped
    <3>. QED  BY <3>1, <3>3, <3>4, AllTried
  <2>3. Plain => failed = {pool[l] : l \in tried}
    BY <2>1 DEF LanesInv, Plain
  <2>. QED  BY <1>0, <2>1, <2>2, <2>3 DEF TriesInv, Everywhere, Guarded
<1>7. CASE BodyEnds
  BY <1>0, <1>7 DEF BodyEnds, End, history, TriesInv
<1>8. CASE GiveUp \/ Gone
  BY <1>8 DEF GiveUp, Gone, End, TriesInv
<1>9. ASSUME (\E status \in {"429", "5xx"} : Rebuffed(status)) \/ SendFails
      PROVE  TriesInv'
  <2>. DEFINE lanes == tried \cup {permit.lane}
  <2>1. /\ pc = "upstream" /\ UNCHANGED <<pool, swaps, rq>>
        /\ failed' = failed \cup {permit.key}
        /\ \/ pc' \in Answered /\ step = Len(rq.plan)
           \/ pc' = "step" /\ step' = step + 1 /\ tried' = lanes /\ step # Len(rq.plan)
    BY <1>9 DEF Rebuffed, SendFails, MoveOn, Exclude, Relay, End, IsLast
  <2>. SUFFICES ASSUME Guarded  PROVE TriesInv'
    BY <1>0, <2>1 DEF TriesInv
  <2>2. /\ step <= Len(pool) /\ Cardinality(lanes) = step
        /\ step = Len(rq.plan) => lanes = DOMAIN pool
    BY <2>1, FailureCounts
  <2>3. failed' = {pool[l] : l \in lanes}
    BY <2>1 DEF LanesInv, Guarded, Plain
  <2>4. step \in Nat \ {0} /\ step <= Len(rq.plan) /\ \A l \in tried : Passed(l)
    BY <2>1 DEF LanesInv, TriesInv
  <2>5. CASE pc' \in Answered /\ step = Len(rq.plan)
    BY <1>0, <2>1, <2>2, <2>3, <2>5 DEF TriesInv, Everywhere
  <2>6. CASE pc' = "step" /\ step' = step + 1 /\ tried' = lanes /\ step # Len(rq.plan)
    <3>1. Len(rq.plan) \in Nat /\ DOMAIN rq.plan = 1..Len(rq.plan)
      BY <2>1 DEF PlannedInv, Guarded, AsPlanned
    <3>2. step' - 1 = step /\ step' <= Len(rq.plan) + 1
      BY <2>4, <2>6, <3>1
    <3>3. \A l \in tried : Passed(l)'
      BY <2>1, <2>4, <2>6, <3>1 DEF Passed
    <3>4. ASSUME NEW l, l = permit.lane  PROVE Passed(l)'
      <4>1. rq.plan[step].provider \in {ANY, ProviderOf[permit.key]}
        BY <2>1 DEF TriesInv
      <4>2. permit.key = pool[permit.lane]
        BY <2>1 DEF LanesInv, Guarded, Plain
      <4>3. step \in DOMAIN rq.plan /\ step < step'
        BY <2>4, <2>6, <3>1
      <4>. QED  BY <2>1, <3>4, <4>1, <4>2, <4>3 DEF Passed
    <3>5. \A l \in tried' : Passed(l)'
      BY <2>6, <3>3, <3>4
    <3>. QED  BY <2>1, <2>2, <2>6, <3>2, <3>5 DEF TriesInv
  <2>. QED  BY <2>1, <2>5, <2>6
<1>10. CASE SendPlain \/ DeadlinePasses \/ Beats \/ Sends \/ ClientReads
  BY <1>0, <1>10 DEF SendPlain, DeadlinePasses, Beats, Sends, ClientReads, history, TriesInv
<1>11. CASE Rejected \/ Accepted
  BY <1>11 DEF Rejected, Accepted, Relay, TriesInv
<1>12. CASE Swap
  <2>1. swaps' # 0
    BY <1>12 DEF Swap, LanesInv
  <2>. QED  BY <2>1 DEF TriesInv, Guarded, Plain
<1>13. CASE UNCHANGED vars
  BY <1>0, <1>13 DEF vars, request, history, TriesInv
<1>. QED
  BY <1>1, <1>2, <1>3, <1>4, <1>5, <1>6, <1>7, <1>8, <1>9, <1>10, <1>11, <1>12, <1>13 DEF Next

\* A request that ends in a failure has been failed by every key there is.
THEOREM FailureMeansEveryKey == Spec => []FailoverTriesEveryKey
<1>1. Init => StrandInv /\ TriesInv
  BY DEF Init, StrandInv, TriesInv, Waiting, Answered
<1>2. TriesInv => FailoverTriesEveryKey
  BY DEF TriesInv, Guarded, Plain, Everywhere, Answered, FailoverTriesEveryKey
<1>. QED
  BY <1>1, <1>2, LanesInvInitially, LanesInvInductive, PlannedInvInitially,
     PlannedInvInductive, StrandInvInductive, TriesInvInductive, PTL DEF Spec

=============================================================================
