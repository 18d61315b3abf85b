--------------------------- MODULE Sampler_proofs ---------------------------
(***************************************************************************)
(* Nothing is counted twice, and no restart erases what was written, for   *)
(* any number of absorbers, any usage and any number of kills.  No         *)
(* clients' names grow the tables of the metrics beyond their cap, and no  *)
(* history is answered with twice the points asked for.                    *)
(***************************************************************************)
EXTENDS Sampler, FiniteSetTheorems, WellFoundedInduction, TLAPS

\* What a process counts comes on top of what was served before it: the baseline and
\* the counter together are no more than all there was, and nobody has read more of
\* the counter than there is.
LedgerInv ==
  /\ TypeOK
  /\ baseline + counter <= served
  /\ \A a \in Absorbers : read[a] <= counter
  /\ live <= baseline + counter
  /\ disk # TORN => disk <= served

LEMMA LedgerInvInductive == LedgerInv /\ [Next]_vars => LedgerInv'
<1>. SUFFICES ASSUME LedgerInv, [Next]_vars PROVE LedgerInv'
  OBVIOUS
<1>. USE LedgerAssumption DEF LedgerInv, TypeOK, Phases, written
<1>1. CASE Serve
  BY <1>1 DEF Serve
<1>2. CASE Restart
  <2>1. Stored \in Nat /\ Stored <= served
    BY DEF Stored
  <2>. QED  BY <1>2, <2>1 DEF Restart
<1>3. ASSUME NEW a \in Absorbers, ReadCounter(a) PROVE LedgerInv'
  BY <1>3 DEF ReadCounter, Goes
<1>4. ASSUME NEW a \in Absorbers, Absorb(a) PROVE LedgerInv'
  <2>1. live' = baseline + read[a] /\ UNCHANGED <<served, written, crashes, counter, baseline, disk, read>>
    BY <1>4 DEF Absorb, Folded
  <2>2. pc' \in [Absorbers -> Phases]
    BY <1>4 DEF Absorb, Goes
  <2>. QED  BY <2>1, <2>2
<1>5. ASSUME NEW a \in Absorbers, Truncate(a) PROVE LedgerInv'
  BY <1>5 DEF Truncate, Goes
<1>6. ASSUME NEW a \in Absorbers, Write(a) PROVE LedgerInv'
  BY <1>6 DEF Write, Goes
<1>7. ASSUME NEW a \in Absorbers, WriteFails(a) \/ Show(a) PROVE LedgerInv'
  BY <1>7 DEF WriteFails, Show, Goes
<1>8. ASSUME NEW a \in Absorbers, Finish(a) PROVE LedgerInv'
  BY <1>8 DEF Finish, Goes
<1>9. CASE UNCHANGED vars
  BY <1>9 DEF vars, process
<1>. QED
  BY <1>1, <1>2, <1>3, <1>4, <1>5, <1>6, <1>7, <1>8, <1>9 DEF Next

LEMMA LedgerInvInitially == Init => LedgerInv
<1>. SUFFICES ASSUME Init  PROVE LedgerInv
  OBVIOUS
<1>1. forgotten \in BOOLEAN
  BY DEF Init
<1>2. pc \in [Absorbers -> Phases] /\ read \in [Absorbers -> Nat]
  BY DEF Init, Phases
<1>. QED  BY <1>1, <1>2 DEF Init, LedgerInv, TypeOK

\* No usage is counted twice, by whatever interleaving of absorbers and kills.
THEOREM LedgerNeverOvercounts == Spec => []NeverOvercounts
<1>1. LedgerInv => NeverOvercounts
  BY DEF LedgerInv, TypeOK, NeverOvercounts
<1>. QED  BY <1>1, LedgerInvInitially, LedgerInvInductive, PTL DEF Spec

-----------------------------------------------------------------------------
(***************************************************************************)
(* One absorber at a time has the lock, and what it publishes and then     *)
(* writes is what it read on top of the baseline; the baseline is all that *)
(* earlier processes had written, unless a start found the file cut short. *)
(***************************************************************************)
Locked == {"truncating", "writing"}

WrittenInv ==
  /\ \A a, b \in Absorbers : pc[a] \in Locked /\ pc[b] \in Locked => a = b
  /\ \A a \in Absorbers : pc[a] \in Locked => live = baseline + read[a]
  /\ live >= baseline
  /\ ~forgotten => baseline = past
  /\ ~forgotten /\ disk # TORN => disk = past + covered

LEMMA WrittenInvInductive == LedgerInv /\ WrittenInv /\ [Next]_vars => WrittenInv'
<1>. SUFFICES ASSUME LedgerInv, WrittenInv, [Next]_vars  PROVE WrittenInv'
  OBVIOUS
<1>. USE LedgerAssumption DEF LedgerInv, TypeOK, WrittenInv, Locked, written
<1>1. CASE Serve
  BY <1>1 DEF Serve
<1>2. CASE Restart
  <2>1. /\ baseline' = Stored /\ live' = Stored /\ past' = past + covered /\ covered' = 0
        /\ forgotten' = (forgotten \/ disk = TORN) /\ disk' = disk
        /\ \A a \in Absorbers : pc'[a] = "idle"
    BY <1>2 DEF Restart
  <2>2. ASSUME ~forgotten'  PROVE disk # TORN /\ Stored = past' /\ disk = past' + covered'
    <3>1. ~forgotten /\ disk # TORN
      BY <2>1, <2>2
    <3>. QED  BY <2>1, <3>1 DEF Stored
  <2>3. Stored \in Nat
    BY DEF Stored
  <2>. QED  BY <2>1, <2>2, <2>3
<1>3. ASSUME NEW a \in Absorbers, ReadCounter(a)  PROVE WrittenInv'
  BY <1>3 DEF ReadCounter, Goes
<1>4. ASSUME NEW a \in Absorbers, Absorb(a)  PROVE WrittenInv'
  <2>1. /\ live' = baseline + read[a] /\ \A b \in Absorbers : pc[b] \notin Locked
        /\ UNCHANGED <<past, covered, forgotten, baseline, disk, read>>
    BY <1>4 DEF Absorb, Folded, Unlocked
  <2>2. \A b \in Absorbers : pc'[b] \in Locked => b = a
    BY <1>4, <2>1 DEF Absorb, Goes
  <2>. QED  BY <2>1, <2>2
<1>5. ASSUME NEW a \in Absorbers, Truncate(a)  PROVE WrittenInv'
  BY <1>5 DEF Truncate, Goes
<1>6. ASSUME NEW a \in Absorbers, Write(a)  PROVE WrittenInv'
  <2>1. /\ live = baseline + read[a] /\ disk' = live /\ covered' = read[a]
        /\ UNCHANGED <<past, forgotten, baseline, live, read>>
    BY <1>6 DEF Write
  <2>2. \A b \in Absorbers : pc'[b] \in Locked => pc[b] \in Locked
    BY <1>6 DEF Write, Goes
  <2>. QED  BY <2>1, <2>2
<1>7. ASSUME NEW a \in Absorbers, WriteFails(a) \/ Show(a)  PROVE WrittenInv'
  BY <1>7 DEF WriteFails, Show, Goes
<1>8. ASSUME NEW a \in Absorbers, Finish(a)  PROVE WrittenInv'
  BY <1>8 DEF Finish, Goes
<1>9. CASE UNCHANGED vars
  BY <1>9 DEF vars, process
<1>. QED
  BY <1>1, <1>2, <1>3, <1>4, <1>5, <1>6, <1>7, <1>8, <1>9 DEF Next

\* A restart does not erase what came before: what earlier processes had written stays
\* in the total and in the file, unless a start found the file cut short.
THEOREM RestartsEraseNothing == Spec => []EarlierUsageStays
<1>1. Init => WrittenInv
  BY DEF Init, WrittenInv, Locked
<1>2. WrittenInv => EarlierUsageStays
  BY DEF WrittenInv, EarlierUsageStays
<1>. QED  BY <1>1, <1>2, LedgerInvInitially, LedgerInvInductive, WrittenInvInductive, PTL DEF Spec

-----------------------------------------------------------------------------
(***************************************************************************)
(* The sampler is an absorber like any other.                              *)
(***************************************************************************)
LEMMA StepOfLedger == [SamplerNext]_samplerVars => [Next]_vars
<1>. SUFFICES ASSUME [SamplerNext]_samplerVars  PROVE [Next]_vars
  OBVIOUS
<1>1. CASE Records \/ RestartSampler
  BY <1>1 DEF Records, RestartSampler, Next
<1>2. CASE Absorbs
  BY <1>2 DEF Absorbs, Next
<1>3. CASE Sample \/ SetRetention \/ Elapse \/ UNCHANGED samplerVars
  BY <1>3 DEF Sample, SetRetention, Elapse, samplerVars
<1>. QED  BY <1>1, <1>2, <1>3 DEF SamplerNext

\* What is proved of the ledger holds with the sampler at work.
THEOREM SamplerKeepsLedger == SamplerSpec => Spec
<1>1. SamplerInit => Init
  BY DEF SamplerInit
<1>. QED  BY <1>1, StepOfLedger, PTL DEF SamplerSpec, Spec

-----------------------------------------------------------------------------
(***************************************************************************)
(* The tables.  A row is new only while there are fewer than the cap, all  *)
(* of them counted; "other" is the exception, and it is nobody's name.     *)
(***************************************************************************)
Present(table) == {k \in DOMAIN table : table[k] > 0}
Named(table, names) == {k \in names : table[k] > 0}

\* names: the keys clients can name.
Capped(table, names) ==
  /\ IsFiniteSet(Present(table))
  /\ Cardinality(Named(table, names)) <= MAX_SERIES

LEMMA CountedCapped ==
  ASSUME NEW keys, NEW names \in SUBSET keys, NEW table \in [keys -> Nat],
         Capped(table, names), NEW key \in names, NEW other \in keys \ names,
         NEW k, k = IF HasRoom(table, key) THEN key ELSE other
  PROVE  Counted(table, k) \in [keys -> Nat] /\ Capped(Counted(table, k), names)
<1>. DEFINE t == Counted(table, k)
<1>1. k \in keys /\ key \in keys
  OBVIOUS
<1>2. /\ t \in [keys -> Nat] /\ t[k] > 0
      /\ \A i \in keys : i # k => t[i] = table[i]
  BY <1>1 DEF Counted
<1>3. IsFiniteSet(Present(t))
  <2>1. Present(t) = Present(table) \cup {k}
    <3>. HIDE DEF t
    <3>. QED  BY <1>1, <1>2 DEF Present
  <2>. QED  BY <2>1, FS_AddElement DEF Capped
<1>4. /\ IsFiniteSet(Named(table, names)) /\ Cardinality(Named(table, names)) \in Nat
      /\ Cardinality(Named(table, names)) <= Cardinality(Present(table))
      /\ Cardinality(Present(table)) \in Nat
  <2>1. Named(table, names) \subseteq Present(table)
    BY DEF Named, Present
  <2>. QED  BY <2>1, FS_Subset, FS_CardinalityType DEF Capped
<1>. HIDE DEF t
<1>5. CASE ~HasRoom(table, key)
  <2>1. k = other
    BY <1>5
  <2>2. Named(t, names) = Named(table, names)
    BY <1>2, <2>1 DEF Named
  <2>. QED  BY <1>2, <1>3, <2>2 DEF Capped, t
<1>6. CASE table[key] > 0
  <2>1. k = key
    BY <1>6 DEF HasRoom
  <2>2. Named(t, names) = Named(table, names)
    BY <1>2, <1>6, <2>1 DEF Named
  <2>. QED  BY <1>2, <1>3, <2>2 DEF Capped, t
<1>7. CASE HasRoom(table, key) /\ ~(table[key] > 0)
  <2>1. k = key /\ Size(table) < MAX_SERIES
    BY <1>7 DEF HasRoom
  <2>2. Named(t, names) = Named(table, names) \cup {key} /\ key \notin Named(table, names)
    BY <1>2, <1>7, <2>1 DEF Named
  <2>3. Cardinality(Named(t, names)) = Cardinality(Named(table, names)) + 1
    BY <1>4, <2>2, FS_AddElement
  <2>4. Size(table) = Cardinality(Present(table))
    BY DEF Size, Present
  <2>5. MAX_SERIES \in Nat
    BY SamplerAssumption
  <2>6. Cardinality(Named(t, names)) <= MAX_SERIES
    BY <1>4, <2>1, <2>3, <2>4, <2>5
  <2>. QED  BY <1>2, <1>3, <2>6 DEF Capped, t
<1>. QED  BY <1>5, <1>6, <1>7

LEMMA EmptyCapped ==
  ASSUME NEW keys, NEW names \in SUBSET keys
  PROVE  NoRows(keys) \in [keys -> Nat] /\ Capped(NoRows(keys), names)
<1>1. Present(NoRows(keys)) = {} /\ Named(NoRows(keys), names) = {}
  BY DEF Present, Named, NoRows
<1>2. MAX_SERIES \in Nat
  BY SamplerAssumption
<1>. QED  BY <1>1, <1>2, FS_EmptySet DEF Capped, NoRows

TablesInv ==
  /\ requests \in [Rows -> Nat] /\ Capped(requests, Models \X Statuses)
  /\ tokens \in [Models \cup {REST} -> Nat] /\ Capped(tokens, Models)

LEMMA TablesInvInductive == TablesInv /\ [SamplerNext]_samplerVars => TablesInv'
<1>. SUFFICES ASSUME TablesInv, [SamplerNext]_samplerVars  PROVE TablesInv'
  OBVIOUS
<1>0. REST \notin Models
  BY SamplerAssumption
<1>1. CASE Records
  <2>1. PICK model \in Models, status \in Statuses :
          /\ RecordRequest(model, status)
          /\ IF status \in Reporting THEN RecordTokens(model) ELSE UNCHANGED tokens
    BY <1>1 DEF Records
  <2>2. requests' \in [Rows -> Nat] /\ Capped(requests', Models \X Statuses)
    <3>1. <<model, status>> \in Models \X Statuses /\ <<REST, status>> \in Rows \ (Models \X Statuses)
      BY <1>0 DEF Rows
    <3>2. Models \X Statuses \in SUBSET Rows
      BY DEF Rows
    <3>. DEFINE k == IF HasRoom(requests, <<model, status>>)
                      THEN <<model, status>> ELSE <<REST, status>>
    <3>3. requests' = Counted(requests, k)
      BY <2>1 DEF RecordRequest
    <3>. QED  BY <3>1, <3>2, <3>3, CountedCapped DEF TablesInv
  <2>3. tokens' \in [Models \cup {REST} -> Nat] /\ Capped(tokens', Models)
    <3>1. CASE status \in Reporting
      <4>1. REST \in (Models \cup {REST}) \ Models /\ Models \in SUBSET (Models \cup {REST})
        BY <1>0
      <4>. DEFINE k == IF HasRoom(tokens, model) THEN model ELSE REST
      <4>2. tokens' = Counted(tokens, k)
        BY <2>1, <3>1 DEF RecordTokens
      <4>. QED  BY <4>1, <4>2, CountedCapped DEF TablesInv
    <3>2. CASE status \notin Reporting
      BY <2>1, <3>2 DEF TablesInv
    <3>. QED  BY <3>1, <3>2
  <2>. QED  BY <2>2, <2>3 DEF TablesInv, Capped, Present, Named
<1>2. CASE RestartSampler
  <2>1. Models \X Statuses \in SUBSET Rows /\ Models \in SUBSET (Models \cup {REST})
    BY DEF Rows
  <2>2. requests' = NoRows(Rows) /\ tokens' = NoRows(Models \cup {REST})
    BY <1>2 DEF RestartSampler
  <2>3. requests' \in [Rows -> Nat] /\ Capped(requests', Models \X Statuses)
    BY <2>1, <2>2, EmptyCapped
  <2>4. tokens' \in [Models \cup {REST} -> Nat] /\ Capped(tokens', Models)
    BY <2>1, <2>2, EmptyCapped
  <2>. QED  BY <2>3, <2>4 DEF TablesInv, Capped, Present, Named
<1>3. CASE Sample \/ Absorbs \/ SetRetention \/ Elapse \/ UNCHANGED samplerVars
  <2>1. requests' = requests /\ tokens' = tokens
    BY <1>3 DEF Sample, Absorbs, SetRetention, Elapse, samplerVars
  <2>. QED  BY <2>1 DEF TablesInv, Capped, Present, Named
<1>. QED  BY <1>1, <1>2, <1>3 DEF SamplerNext

\* Whatever names clients make up, they have no more rows than the cap.
THEOREM NamesNeverGrowTables == SamplerSpec => []SeriesCapped
<1>1. SamplerInit => TablesInv
  <2>. SUFFICES ASSUME SamplerInit  PROVE TablesInv
    OBVIOUS
  <2>1. Models \X Statuses \in SUBSET Rows /\ Models \in SUBSET (Models \cup {REST})
    BY DEF Rows
  <2>2. requests = NoRows(Rows) /\ tokens = NoRows(Models \cup {REST})
    BY DEF SamplerInit
  <2>. QED  BY <2>1, <2>2, EmptyCapped DEF TablesInv
<1>2. TablesInv => SeriesCapped
  BY DEF TablesInv, Capped, Named, SeriesCapped
<1>. QED  BY <1>1, <1>2, TablesInvInductive, PTL DEF SamplerSpec

-----------------------------------------------------------------------------
(***************************************************************************)
(* The sum of a table, element by element.                                 *)
(***************************************************************************)
LEMMA LeastElement ==
  ASSUME NEW S \in SUBSET Nat, S # {}
  PROVE  \E i \in S : \A j \in S : i <= j
<1> DEFINE R == {ss \in Nat \X Nat : ss[1] < ss[2]}
<1>1. IsWellFoundedOn(R, Nat)
  BY NatLessThanWellFounded DEF OpToRel
<1>2. PICK i \in S : \A j \in S : ~(<<j, i>> \in R)
  <2> HIDE DEF R
  <2>. QED  BY <1>1, WFMin
<1>3. \A j \in S : ~(j < i)
  <2>1. ASSUME NEW j \in S, j < i  PROVE <<j, i>> \in R
    BY <2>1, SMT
  <2>. QED  BY <1>2, <2>1
<1>4. \A j \in S : j \in Nat /\ i \in Nat
  OBVIOUS
<1>. HIDE DEF R
<1>. QED  BY <1>3, <1>4

Picked(s) == CHOOSE x \in s : TRUE
Rest(s) == s \ {Picked(s)}

LEMMA RestIsSmaller ==
  ASSUME NEW S, IsFiniteSet(S), NEW s \in SUBSET S, s # {}
  PROVE  /\ Picked(s) \in s /\ Rest(s) \in SUBSET S
         /\ Cardinality(s) \in Nat /\ Cardinality(Rest(s)) = Cardinality(s) - 1
<1>1. Picked(s) \in s
  BY DEF Picked
<1>2. IsFiniteSet(s)
  BY FS_Subset
<1>. QED  BY <1>1, <1>2, FS_RemoveElement, FS_CardinalityType DEF Rest

\* Where no set is left that is bad with one element less, none is bad.
LEMMA SubsetDescent ==
  ASSUME NEW S, IsFiniteSet(S), NEW Bad \in SUBSET SUBSET S,
         \A s \in Bad : s # {} /\ Rest(s) \in Bad
  PROVE  Bad = {}
<1>. SUFFICES ASSUME Bad # {}  PROVE FALSE
  OBVIOUS
<1>. DEFINE Sizes == {Cardinality(s) : s \in Bad}
<1>1. Sizes \in SUBSET Nat /\ Sizes # {}
  BY RestIsSmaller
<1>2. PICK n \in Sizes : \A m \in Sizes : n <= m
  <2>. HIDE DEF Sizes
  <2>. QED  BY <1>1, LeastElement
<1>3. PICK s \in Bad : Cardinality(s) = n
  OBVIOUS
<1>4. Cardinality(Rest(s)) = n - 1 /\ Cardinality(Rest(s)) \in Sizes /\ n \in Nat
  BY <1>1, <1>3, RestIsSmaller
<1>. HIDE DEF Sizes
<1>. QED  BY <1>2, <1>4

Summed(f, g, s) == IF s = {} THEN 0 ELSE f[Picked(s)] + g[Rest(s)]

LEMMA SumFolds ==
  ASSUME NEW S, IsFiniteSet(S), NEW f \in [S -> Nat]
  PROVE  \E g : Sum(f) = g[S] /\ \A s \in SUBSET S : g[s] = Summed(f, g, s)
<1>. DEFINE Small(n) == {s \in SUBSET S : Cardinality(s) <= n}
            OnSmall(g, n) == g = [s \in Small(n) |-> Summed(f, g, s)]
            N == Cardinality(S)
            Bad == {n \in 0..N : ~ \E g : OnSmall(g, n)}
<1>0. N \in Nat
  BY FS_CardinalityType
<1>1. Bad = {}
  <2>. SUFFICES ASSUME Bad # {}  PROVE FALSE
    OBVIOUS
  <2>1. PICK n \in Bad : \A m \in Bad : n <= m
    <3>1. Bad \in SUBSET Nat
      BY <1>0
    <3>. HIDE DEF Bad
    <3>. QED  BY <3>1, LeastElement
  <2>2. n \in 0..N /\ n \in Nat /\ ~ \E g : OnSmall(g, n)
    OBVIOUS
  <2>3. CASE n = 0
    <3>. DEFINE g == [s \in Small(0) |-> 0]
    <3>1. ASSUME NEW s \in Small(0)  PROVE s = {}
      <4>1. s \in SUBSET S /\ Cardinality(s) <= 0
        OBVIOUS
      <4>2. ASSUME s # {}  PROVE FALSE
        <5>1. Rest(s) \in SUBSET S /\ Cardinality(s) \in Nat /\ Cardinality(Rest(s)) = Cardinality(s) - 1
          BY <4>1, <4>2, RestIsSmaller
        <5>2. Cardinality(Rest(s)) \in Nat
          BY <5>1, FS_Subset, FS_CardinalityType
        <5>. QED  BY <4>1, <5>1, <5>2
      <4>. QED  BY <4>2
    <3>. HIDE DEF Small
    <3>2. g = [s \in Small(0) |-> Summed(f, g, s)]
      BY <3>1 DEF Summed
    <3>. QED  BY <2>2, <2>3, <3>2
  <2>4. CASE n # 0
    <3>1. n - 1 \in 0..N /\ n - 1 \notin Bad
      <4>. HIDE DEF Bad, N
      <4>. QED  BY <1>0, <2>1, <2>2, <2>4
    <3>2. PICK h : OnSmall(h, n - 1)
      BY <3>1
    <3>. DEFINE g == [s \in Small(n) |-> Summed(f, h, s)]
    <3>3. ASSUME NEW s \in Small(n), s # {}  PROVE Rest(s) \in Small(n - 1) /\ Rest(s) \in Small(n)
      <4>1. Rest(s) \in SUBSET S /\ Cardinality(s) \in Nat /\ Cardinality(Rest(s)) = Cardinality(s) - 1
        BY <3>3, RestIsSmaller
      <4>. QED  BY <2>2, <3>3, <4>1
    <3>. HIDE DEF Small
    <3>4. \A s \in Small(n - 1) : h[s] = Summed(f, h, s)
      BY <3>2
    <3>5. ASSUME NEW s \in Small(n)  PROVE Summed(f, g, s) = Summed(f, h, s)
      BY <3>3, <3>4, <3>5 DEF Summed
    <3>. DEFINE k == [s \in Small(n) |-> Summed(f, g, s)]
    <3>6. g = k
      <4>1. \A s \in Small(n) : g[s] = k[s]
        BY <3>5
      <4>. QED  BY <4>1
    <3>7. OnSmall(g, n)
      BY <3>6
    <3>. HIDE DEF OnSmall, g
    <3>. QED  BY <2>2, <3>7
  <2>. QED  BY <2>3, <2>4
<1>2. Small(N) = SUBSET S
  BY FS_Subset
<1>3. \E g : g = [s \in SUBSET S |-> Summed(f, g, s)]
  <2>1. N \in 0..N
    BY <1>0
  <2>2. \E g : OnSmall(g, N)
    <3>. HIDE DEF OnSmall, N
    <3>. QED  BY <1>1, <2>1
  <2>. HIDE DEF Small
  <2>. QED  BY <1>2, <2>2
<1>4. Sum(f) = (CHOOSE g : g = [s \in SUBSET S |-> Summed(f, g, s)])[S]
  <2>1. DOMAIN f = S
    OBVIOUS
  <2>2. Sum(f) = (CHOOSE g : g = [s \in SUBSET DOMAIN f |-> Summed(f, g, s)])[DOMAIN f]
    BY Zenon DEF Sum, FoldFunction, FoldFunctionOnSet, MapThenFoldSet, Summed, Rest, Picked
  <2>. QED  BY <2>1, <2>2
<1>5. PICK g : g = [s \in SUBSET S |-> Summed(f, g, s)] /\ Sum(f) = g[S]
  BY <1>3, <1>4
<1>6. \A s \in SUBSET S : g[s] = Summed(f, g, s)
  BY <1>5
<1>. QED  BY <1>5, <1>6

\* One more in one place is one more in all.
LEMMA SumCounted ==
  ASSUME NEW S, IsFiniteSet(S), NEW f \in [S -> Nat], NEW k \in S
  PROVE  Sum(f) \in Nat /\ Sum(Counted(f, k)) = Sum(f) + 1
<1>. DEFINE t == Counted(f, k)
<1>1. t \in [S -> Nat] /\ \A i \in S : t[i] = f[i] + IF i = k THEN 1 ELSE 0
  BY DEF Counted
<1>2. PICK g : Sum(f) = g[S] /\ \A s \in SUBSET S : g[s] = Summed(f, g, s)
  BY SumFolds
<1>. HIDE DEF t
<1>3. PICK h : Sum(t) = h[S] /\ \A s \in SUBSET S : h[s] = Summed(t, h, s)
  BY <1>1, SumFolds
<1>. DEFINE Good(s) == g[s] \in Nat /\ h[s] = g[s] + IF k \in s THEN 1 ELSE 0
            Bad == {s \in SUBSET S : ~Good(s)}
<1>4. ASSUME NEW s \in Bad  PROVE s # {} /\ Rest(s) \in Bad
  <2>1. s # {}
    BY <1>2, <1>3 DEF Summed
  <2>2. Picked(s) \in s /\ Picked(s) \in S /\ Rest(s) \in SUBSET S
    BY <2>1, RestIsSmaller
  <2>3. /\ g[s] = f[Picked(s)] + g[Rest(s)] /\ h[s] = t[Picked(s)] + h[Rest(s)]
        /\ f[Picked(s)] \in Nat /\ t[Picked(s)] = f[Picked(s)] + IF Picked(s) = k THEN 1 ELSE 0
    BY <1>1, <1>2, <1>3, <2>1, <2>2 DEF Summed
  <2>4. k \in Rest(s) <=> k \in s /\ k # Picked(s)
    BY DEF Rest
  <2>5. ASSUME Good(Rest(s))  PROVE Good(s)
    <3>1. CASE Picked(s) = k
      BY <2>2, <2>3, <2>4, <2>5, <3>1
    <3>2. CASE Picked(s) # k
      BY <2>3, <2>4, <2>5, <3>2
    <3>. QED  BY <3>1, <3>2
  <2>. HIDE DEF Good
  <2>. QED  BY <2>1, <2>2, <2>5
<1>5. Bad = {}
  <2>1. Bad \in SUBSET SUBSET S
    OBVIOUS
  <2>. HIDE DEF Bad
  <2>. QED  BY <1>4, <2>1, SubsetDescent
<1>6. Good(S)
  <2>. HIDE DEF Good
  <2>. QED  BY <1>5
<1>. QED  BY <1>2, <1>3, <1>6 DEF t

LEMMA SumOfNothing ==
  ASSUME NEW S, IsFiniteSet(S)
  PROVE  Sum(NoRows(S)) = 0
<1>. DEFINE f == NoRows(S)
<1>1. f \in [S -> Nat] /\ \A i \in S : f[i] = 0
  BY DEF NoRows
<1>. HIDE DEF f
<1>2. PICK g : Sum(f) = g[S] /\ \A s \in SUBSET S : g[s] = Summed(f, g, s)
  BY <1>1, SumFolds
<1>. DEFINE Bad == {s \in SUBSET S : g[s] # 0}
<1>3. ASSUME NEW s \in Bad  PROVE s # {} /\ Rest(s) \in Bad
  <2>1. s # {}
    BY <1>2 DEF Summed
  <2>2. Picked(s) \in S /\ Rest(s) \in SUBSET S
    BY <2>1, RestIsSmaller
  <2>. QED  BY <1>1, <1>2, <2>1, <2>2 DEF Summed
<1>4. Bad = {}
  <2>1. Bad \in SUBSET SUBSET S
    OBVIOUS
  <2>. HIDE DEF Bad
  <2>. QED  BY <1>3, <2>1, SubsetDescent
<1>. QED  BY <1>2, <1>4 DEF f

SumInv == requests \in [Rows -> Nat] /\ Sum(requests) = counter

LEMMA SumInvInductive ==
  ASSUME IsFiniteSet(Models), IsFiniteSet(Statuses)
  PROVE  SumInv /\ [SamplerNext]_samplerVars => SumInv'
<1>. SUFFICES ASSUME SumInv, [SamplerNext]_samplerVars  PROVE SumInv'
  OBVIOUS
<1>0. IsFiniteSet(Rows)
  BY FS_EmptySet, FS_AddElement, FS_Product DEF Rows
<1>1. ASSUME NEW t \in [Rows -> Nat], requests' = t, Sum(t) = counter'
      PROVE  SumInv'
  BY <1>1 DEF SumInv
<1>2. CASE Records
  <2>1. PICK model \in Models, status \in Statuses : RecordRequest(model, status)
    BY <1>2 DEF Records
  <2>. DEFINE k == IF HasRoom(requests, <<model, status>>)
                    THEN <<model, status>> ELSE <<REST, status>>
  <2>2. requests' = Counted(requests, k) /\ k \in Rows
    BY <2>1 DEF RecordRequest, Rows
  <2>. HIDE DEF k
  <2>3. requests \in [Rows -> Nat] /\ Sum(requests) = counter /\ counter' = counter + 1
    BY <1>2 DEF SumInv, Records, Serve
  <2>4. Sum(Counted(requests, k)) = counter'
    BY <1>0, <2>2, <2>3, SumCounted
  <2>5. Counted(requests, k) \in [Rows -> Nat]
    BY <2>2, <2>3 DEF Counted
  <2>. QED  BY <1>1, <2>2, <2>4, <2>5
<1>3. CASE RestartSampler
  <2>1. requests' = NoRows(Rows) /\ counter' = 0
    BY <1>3 DEF RestartSampler, Restart
  <2>2. NoRows(Rows) \in [Rows -> Nat] /\ Sum(NoRows(Rows)) = 0
    BY <1>0, SumOfNothing DEF NoRows
  <2>. QED  BY <1>1, <2>1, <2>2
<1>4. CASE Sample \/ Absorbs \/ SetRetention \/ Elapse \/ UNCHANGED samplerVars
  <2>1. requests' = requests /\ counter' = counter
    BY <1>4 DEF Sample, Absorbs, SetRetention, Elapse, samplerVars, vars, process,
                ReadCounter, Finish, Absorb, Truncate, Write, WriteFails, Show
  <2>. QED  BY <1>1, <2>1 DEF SumInv
<1>. QED  BY <1>2, <1>3, <1>4 DEF SamplerNext

\* No request is lost to the cap: what finds no row of its own is counted in "other",
\* so that all rows add up to what this process served.  (No process is sent infinitely
\* many names.)
THEOREM FoldedIsCounted ==
  ASSUME IsFiniteSet(Models), IsFiniteSet(Statuses)
  PROVE  SamplerSpec => []FoldedNotLost
<1>1. SamplerInit => SumInv
  <2>. SUFFICES ASSUME SamplerInit  PROVE SumInv
    OBVIOUS
  <2>1. IsFiniteSet(Rows)
    BY FS_EmptySet, FS_AddElement, FS_Product DEF Rows
  <2>2. requests = NoRows(Rows) /\ counter = 0
    BY DEF SamplerInit, Init
  <2>. QED  BY <2>1, <2>2, SumOfNothing DEF SumInv, NoRows
<1>2. SamplerSpec => []SumInv
  BY <1>1, SumInvInductive, PTL DEF SamplerSpec
<1>3. SumInv /\ SeriesCapped => FoldedNotLost
  BY DEF SumInv, FoldedNotLost
<1>. QED  BY <1>2, <1>3, NamesNeverGrowTables, PTL

-----------------------------------------------------------------------------
(***************************************************************************)
(* Rounding the stride down never doubles what was asked for.              *)
(***************************************************************************)
LEMMA DivisionBounds ==
  ASSUME NEW len \in Nat, NEW max \in Nat, 0 < max, max < len
  PROVE  /\ len \div max \in Nat /\ len \div max >= 1
         /\ len < (len \div max + 1) * max
         /\ (len \div max) * max <= len
BY SMTT(30)

\* A history of any length is answered with less than twice the points asked for, the
\* first of them the oldest.
THEOREM ThinForAnyHistory ==
  ASSUME NEW T, NEW v \in Seq(T), NEW max \in Nat \ {0}
  PROVE  /\ Len(Downsample(v, max)) <= 2 * max - 1
         /\ v # <<>> => Downsample(v, max) # <<>> /\ Head(Downsample(v, max)) = Head(v)
<1>. DEFINE thin == Downsample(v, max)
<1>1. CASE Len(v) <= max
  BY <1>1 DEF Downsample
<1>2. CASE max < Len(v)
  <2>. DEFINE L == Len(v)
              step == L \div max
              n == (L - 1) \div step + 1
  <2>1. L \in Nat /\ 0 < max /\ max < L
    BY <1>2
  <2>2. step \in Nat /\ step >= 1 /\ L < (step + 1) * max
    BY <2>1, DivisionBounds
  <2>3. thin = [i \in 1..n |-> v[(i - 1) * step + 1]]
    BY <2>1 DEF Downsample, Stride
  <2>. HIDE DEF step, L
  <2>4. (L - 1) \div step \in Nat /\ ((L - 1) \div step) * step <= L - 1
    BY <2>1, <2>2, SMTT(30)
  <2>. DEFINE m == (L - 1) \div step
  <2>. HIDE DEF m
  <2>5. m <= 2 * max - 2
    <3>1. m * step <= step * max + max - 2
      BY <2>1, <2>2, <2>4, SMTT(30) DEF m
    <3>2. max - 2 <= (max - 2) * step \/ max = 1
      BY <2>2, SMTT(30)
    <3>3. CASE max = 1
      BY <2>2, <2>4, <3>1, <3>3, SMTT(30) DEF m
    <3>4. CASE max # 1
      <4>1. m * step <= (2 * max - 2) * step
        BY <2>2, <2>4, <3>1, <3>2, <3>4, SMTT(30) DEF m
      <4>. QED  BY <2>2, <2>4, <4>1, SMTT(30) DEF m
    <3>. QED  BY <3>3, <3>4
  <2>6. n = m + 1 /\ m \in Nat
    BY <2>4 DEF m
  <2>. HIDE DEF n
  <2>7. Len(thin) = n /\ thin # <<>> /\ Head(thin) = v[1]
    <3>1. 1 \in 1..n /\ (1 - 1) * step + 1 = 1
      BY <2>2, <2>6
    <3>. QED  BY <2>3, <2>6, <3>1
  <2>8. Head(v) = v[1] /\ v # <<>>
    BY <2>1 DEF L
  <2>. QED  BY <2>5, <2>6, <2>7, <2>8
<1>. QED  BY <1>1, <1>2

-----------------------------------------------------------------------------
(***************************************************************************)
(* The history is in the order of time.  No snapshot is younger than the   *)
(* clock, and what is taken out of an ordered sequence is ordered.         *)
(***************************************************************************)
Ordered(h) == \A i, j \in DOMAIN h : i < j => h[i] <= h[j]

Chronicle(h, t) == h \in Seq(Nat) /\ Ordered(h) /\ \A i \in DOMAIN h : h[i] <= t

LEMMA ChronicleGrows ==
  ASSUME NEW h, NEW t \in Nat, Chronicle(h, t)
  PROVE  Chronicle(Append(h, t), t)
<1>. DEFINE g == Append(h, t)
<1>1. h \in Seq(Nat) /\ Len(h) \in Nat /\ DOMAIN h = 1..Len(h) /\ \A i \in DOMAIN h : h[i] \in Nat /\ h[i] <= t
  BY DEF Chronicle
<1>2. /\ g \in Seq(Nat) /\ DOMAIN g = 1..Len(h) + 1 /\ g[Len(h) + 1] = t
      /\ \A i \in 1..Len(h) : g[i] = h[i]
  BY <1>1
<1>. HIDE DEF g
<1>3. \A i \in 1..Len(h) + 1 : i \in 1..Len(h) \/ i = Len(h) + 1
  BY <1>1
<1>4. Ordered(g)
  <2>1. ASSUME NEW i \in DOMAIN g, NEW j \in DOMAIN g, i < j  PROVE g[i] <= g[j]
    <3>1. i \in 1..Len(h)
      BY <1>1, <1>2, <2>1
    <3>2. CASE j \in 1..Len(h)
      BY <1>1, <1>2, <2>1, <3>1, <3>2 DEF Chronicle, Ordered
    <3>3. CASE j = Len(h) + 1
      BY <1>1, <1>2, <3>1, <3>3
    <3>. QED  BY <1>2, <1>3, <3>2, <3>3
  <2>. QED  BY <2>1 DEF Ordered
<1>5. \A i \in DOMAIN g : g[i] <= t
  BY <1>1, <1>2, <1>3
<1>6. Chronicle(g, t)
  BY <1>2, <1>4, <1>5 DEF Chronicle
<1>. QED  BY <1>6 DEF g

LEMMA ChronicleBegins ==
  ASSUME NEW h, NEW t \in Nat, Chronicle(h, t), NEW n \in 0..Len(h)
  PROVE  Chronicle(SubSeq(h, 1, n), t)
<1>. DEFINE g == SubSeq(h, 1, n)
<1>1. h \in Seq(Nat) /\ Len(h) \in Nat /\ DOMAIN h = 1..Len(h)
  BY DEF Chronicle
<1>2. g \in Seq(Nat) /\ DOMAIN g = 1..n /\ \A i \in 1..n : i \in DOMAIN h /\ g[i] = h[i]
  BY <1>1
<1>. HIDE DEF g
<1>3. Chronicle(g, t)
  BY <1>2 DEF Chronicle, Ordered
<1>. QED  BY <1>3 DEF g

Keep(s, times, n, before) == IF s[n] \in times THEN Append(before, s[n]) ELSE before

Kept(s, times, f, m) ==
  f = [n \in 0..m |-> IF n = 0 THEN <<>> ELSE Keep(s, times, n, f[n - 1])]

LEMMA AmongRead ==
  ASSUME NEW s, NEW times, Len(s) \in Nat
  PROVE  \E f : Kept(s, times, f, Len(s)) /\ Among(s, times) = f[Len(s)]
<1>. DEFINE N == Len(s)
            Bad == {m \in 0..N : ~ \E f : Kept(s, times, f, m)}
<1>1. Bad = {}
  <2>. SUFFICES ASSUME Bad # {}  PROVE FALSE
    OBVIOUS
  <2>0. Bad \in SUBSET Nat
    OBVIOUS
  <2>1. PICK m \in Bad : \A j \in Bad : m <= j
    <3>. HIDE DEF Bad
    <3>. QED  BY <2>0, LeastElement
  <2>2. CASE m = 0
    <3>1. Kept(s, times, [n \in 0..0 |-> <<>>], 0)
      BY DEF Kept
    <3>. QED  BY <2>1, <2>2, <3>1
  <2>3. CASE m # 0
    <3>1. m \in Nat \ {0} /\ m <= N /\ m - 1 \in 0..N /\ m - 1 \notin Bad
      BY <2>1, <2>3
    <3>2. PICK g : Kept(s, times, g, m - 1)
      BY <3>1
    <3>. DEFINE f == [n \in 0..m |-> IF n = m THEN Keep(s, times, m, g[m - 1]) ELSE g[n]]
    <3>3. \A n \in 0..m : n # 0 => f[n - 1] = g[n - 1]
      BY <3>1
    <3>4. \A n \in 0..m : f[n] = IF n = 0 THEN <<>> ELSE Keep(s, times, n, f[n - 1])
      <4>1. \A n \in 0..m - 1 : g[n] = IF n = 0 THEN <<>> ELSE Keep(s, times, n, g[n - 1])
        BY <3>2 DEF Kept
      <4>. QED  BY <3>1, <3>3, <4>1
    <3>5. Kept(s, times, f, m)
      <4>. HIDE DEF f
      <4>1. f = [n \in 0..m |-> f[n]]
        BY DEF f
      <4>. QED  BY <3>4, <4>1 DEF Kept
    <3>. QED  BY <2>1, <3>5
  <2>. QED  BY <2>2, <2>3
<1>2. \E f : Kept(s, times, f, N)
  BY <1>1
<1>3. Among(s, times) = (CHOOSE f : Kept(s, times, f, N))[N]
  BY Zenon DEF Among, Kept, Keep
<1>. QED  BY <1>2, <1>3

\* What is kept of an ordered history, up to its m-th snapshot.
LEMMA AmongIsOrdered ==
  ASSUME NEW s, NEW t \in Nat, Chronicle(s, t), NEW times
  PROVE  Chronicle(Among(s, times), t)
<1>. DEFINE N == Len(s)
            From(g, m) == /\ g \in Seq(Nat) /\ Ordered(g)
                          /\ \A i \in DOMAIN g : \E j \in 1..m : g[i] = s[j]
<1>0. N \in Nat /\ DOMAIN s = 1..N /\ s \in Seq(Nat) /\ Ordered(s) /\ \A i \in 1..N : s[i] \in Nat /\ s[i] <= t
  BY DEF Chronicle
<1>1. PICK f : Kept(s, times, f, N) /\ Among(s, times) = f[N]
  BY <1>0, AmongRead
<1>2. \A n \in 0..N : f[n] = IF n = 0 THEN <<>> ELSE Keep(s, times, n, f[n - 1])
  BY <1>1 DEF Kept
<1>. DEFINE Bad == {m \in 0..N : ~From(f[m], m)}
<1>3. ASSUME NEW m \in 1..N, NEW g, From(g, m - 1)  PROVE From(Append(g, s[m]), m)
  <2>. DEFINE h == Append(g, s[m])
  <2>1. g \in Seq(Nat) /\ Len(g) \in Nat /\ DOMAIN g = 1..Len(g) /\ s[m] \in Nat
    BY <1>0, <1>3
  <2>2. /\ h \in Seq(Nat) /\ DOMAIN h = 1..Len(g) + 1 /\ h[Len(g) + 1] = s[m]
        /\ \A i \in 1..Len(g) : h[i] = g[i]
    BY <2>1
  <2>. HIDE DEF h
  <2>3. \A i \in 1..Len(g) + 1 : i \in 1..Len(g) \/ i = Len(g) + 1
    BY <2>1
  <2>4. \A i \in 1..Len(g) : \E j \in 1..m - 1 : g[i] = s[j]
    BY <1>3, <2>1
  <2>5. \A j \in 1..m - 1 : j \in 1..m /\ s[j] <= s[m]
    BY <1>0 DEF Ordered
  <2>6. Ordered(h)
    <3>1. ASSUME NEW i \in DOMAIN h, NEW j \in DOMAIN h, i < j  PROVE h[i] <= h[j]
      <4>1. i \in 1..Len(g)
        BY <2>1, <2>2, <3>1
      <4>2. CASE j \in 1..Len(g)
        BY <1>3, <2>1, <2>2, <3>1, <4>1, <4>2 DEF Ordered
      <4>3. CASE j = Len(g) + 1
        <5>1. PICK k \in 1..m - 1 : g[i] = s[k]
          BY <2>4, <4>1
        <5>. QED  BY <2>2, <2>5, <4>1, <4>3, <5>1
      <4>. QED  BY <2>2, <2>3, <4>2, <4>3
    <3>. QED  BY <3>1 DEF Ordered
  <2>7. \A i \in DOMAIN h : \E j \in 1..m : h[i] = s[j]
    <3>1. m \in 1..m
      OBVIOUS
    <3>. QED  BY <2>2, <2>3, <2>4, <2>5, <3>1
  <2>. QED  BY <2>2, <2>6, <2>7 DEF h
<1>4. ASSUME NEW m \in 1..N, NEW g, From(g, m - 1)  PROVE From(g, m)
  BY <1>4
<1>. HIDE DEF From
<1>5. Bad = {}
  <2>. SUFFICES ASSUME Bad # {}  PROVE FALSE
    OBVIOUS
  <2>1. PICK m \in Bad : \A j \in Bad : m <= j
    <3>1. Bad \in SUBSET Nat
      OBVIOUS
    <3>. HIDE DEF Bad
    <3>. QED  BY <3>1, LeastElement
  <2>2. CASE m = 0
    <3>1. f[0] = <<>>
      BY <1>0, <1>2
    <3>2. From(<<>>, 0)
      BY DEF From, Ordered
    <3>. QED  BY <2>1, <2>2, <3>1, <3>2
  <2>3. CASE m # 0
    <3>1. m \in 1..N /\ m - 1 \in 0..N /\ m - 1 \notin Bad
      BY <1>0, <2>1, <2>3
    <3>2. From(f[m - 1], m - 1)
      BY <3>1
    <3>3. From(Append(f[m - 1], s[m]), m) /\ From(f[m - 1], m)
      BY <1>3, <1>4, <3>1, <3>2
    <3>4. f[m] = Keep(s, times, m, f[m - 1])
      BY <1>2, <2>3
    <3>. QED  BY <2>1, <3>3, <3>4 DEF Keep
  <2>. QED  BY <2>2, <2>3
<1>6. From(f[N], N)
  BY <1>0, <1>5
<1>7. \A i \in DOMAIN f[N] : f[N][i] <= t
  BY <1>0, <1>6 DEF From
<1>. QED  BY <1>1, <1>6, <1>7 DEF From, Chronicle

OrderInv == now \in Nat /\ Chronicle(snapshots, now) /\ Chronicle(lines, now)

LEMMA OrderInvInductive == OrderInv /\ [SamplerNext]_samplerVars => OrderInv'
<1>. SUFFICES ASSUME OrderInv, [SamplerNext]_samplerVars  PROVE OrderInv'
  OBVIOUS
<1>1. ASSUME NEW s, NEW l, snapshots' = s, lines' = l, now' = now,
             Chronicle(s, now), Chronicle(l, now)
      PROVE  OrderInv'
  BY <1>1 DEF OrderInv, Chronicle, Ordered
<1>2. CASE Sample
  <2>1. Chronicle(Pruned, now)
    <3>. DEFINE all == Append(snapshots, now)
    <3>1. Chronicle(all, now) /\ now \in Nat
      BY ChronicleGrows DEF OrderInv
    <3>. HIDE DEF all
    <3>. QED  BY <3>1, AmongIsOrdered DEF Pruned, all
  <2>2. PICK l : lines' = l /\ (l = lines \/ \E n \in 0..Len(Pruned) : l = SubSeq(Pruned, 1, n))
    BY <1>2 DEF Sample, Persisted
  <2>3. Chronicle(l, now)
    BY <2>1, <2>2, ChronicleBegins DEF OrderInv
  <2>. QED  BY <1>1, <1>2, <2>1, <2>2, <2>3 DEF Sample
<1>3. CASE Elapse
  <2>1. now \in Nat /\ now' = now + 1 /\ snapshots' = snapshots /\ lines' = lines
    BY <1>3 DEF Elapse, OrderInv
  <2>2. ASSUME NEW h, Chronicle(h, now)  PROVE \A i \in DOMAIN h : h[i] \in Nat /\ h[i] <= now + 1
    BY <2>1, <2>2 DEF Chronicle
  <2>3. \A h : Chronicle(h, now) => Chronicle(h, now + 1)
    BY <2>2 DEF Chronicle
  <2>4. ASSUME NEW n, n = now + 1  PROVE n \in Nat /\ Chronicle(snapshots, n) /\ Chronicle(lines, n)
    BY <2>1, <2>3, <2>4 DEF OrderInv
  <2>. QED  BY <2>1, <2>4 DEF OrderInv, Chronicle, Ordered
<1>4. CASE RestartSampler
  BY <1>1, <1>4 DEF RestartSampler, OrderInv
<1>5. CASE Records \/ Absorbs \/ SetRetention \/ UNCHANGED samplerVars
  <2>1. snapshots' = snapshots /\ lines' = lines /\ now' = now
    BY <1>5 DEF Records, Absorbs, SetRetention, samplerVars
  <2>. QED  BY <1>1, <2>1 DEF OrderInv
<1>. QED  BY <1>2, <1>3, <1>4, <1>5 DEF SamplerNext

\* In what is there, and in what the next process would load, time goes forward, wherever
\* writes were cut short and however the retention was changed; and any stretch of it is
\* answered with less than twice the points asked for, from its first one on.
THEOREM HistoryIsInOrder == SamplerSpec => []RangeIsThin
<1>1. SamplerInit => OrderInv
  BY DEF SamplerInit, OrderInv, Chronicle, Ordered
<1>2. OrderInv => RangeIsThin
  <2>. SUFFICES ASSUME OrderInv  PROVE RangeIsThin
    OBVIOUS
  <2>1. \A h \in {snapshots, lines} : \A i, j \in DOMAIN h : i < j => h[i] <= h[j]
    BY DEF OrderInv, Chronicle, Ordered
  <2>2. ASSUME NEW from \in 0..MaxTime, NEW to \in 0..MaxTime, NEW max \in 1..4
        PROVE  LET all == Within(from, to, 0)
                   thin == Downsample(all, max)
               IN  /\ Len(thin) <= 2 * max - 1
                   /\ all # <<>> => thin # <<>> /\ Head(thin) = Head(all)
    <3>. DEFINE all == Among(snapshots, from..to)
    <3>1. all \in Seq(Nat)
      BY AmongIsOrdered DEF OrderInv, Chronicle
    <3>2. Within(from, to, 0) = all
      BY DEF Within, Downsample
    <3>. HIDE DEF all
    <3>3. /\ Len(Downsample(all, max)) <= 2 * max - 1
          /\ all # <<>> => Downsample(all, max) # <<>> /\ Head(Downsample(all, max)) = Head(all)
      <4>1. max \in Nat \ {0}
        OBVIOUS
      <4>. QED  BY <3>1, <4>1, ThinForAnyHistory
    <3>. QED  BY <3>2, <3>3, Zenon
  <2>. QED  BY <2>1, <2>2, Zenon DEF RangeIsThin
<1>. QED  BY <1>1, <1>2, OrderInvInductive, PTL DEF SamplerSpec

=============================================================================
