-------------------------- MODULE LivePool_proofs --------------------------
(***************************************************************************)
(* What a rebuild carries over: a key is held to its limit across any      *)
(* number of swaps, and its rest is not cut short, where the conditions    *)
(* Kept and Calm hold; and what was applied last is live, where one        *)
(* settings request at a time is made.  For every pool, every window, any  *)
(* number of callers, and settings edited without end.                     *)
(***************************************************************************)
EXTENDS LivePool, WellFoundedInduction, TLAPS

-----------------------------------------------------------------------------
(***************************************************************************)
(* Pruning twice is pruning once, at the later instant.                    *)
(***************************************************************************)
LEMMA LeastElement ==
  ASSUME NEW S \in SUBSET Nat, S # {}
  PROVE  \E i \in S : \A j \in S : i <= j
<1> DEFINE R == {ss \in Nat \X Nat : ss[1] < ss[2]}
<1>1. IsWellFoundedOn(R, Nat)
  BY NatLessThanWellFounded DEF OpToRel
<1>2. PICK i \in S : \A j \in S : ~(<<j, i>> \in R)
  <2> HIDE DEF R
  <2>. QED  BY <1>1, WFMin
<1>3. \A j \in S : ~(j < i)
  <2>1. ASSUME NEW j \in S, j < i  PROVE <<j, i>> \in R
    BY <2>1, SMT
  <2>. QED  BY <1>2, <2>1
<1>4. \A j \in S : j \in Nat /\ i \in Nat
  OBVIOUS
<1>. HIDE DEF R
<1>. QED  BY <1>3, <1>4

Live(hits, t) == {i \in 1..Len(hits) : t < hits[i] + Window}

\* The first live hit and all behind it are kept.
LEMMA PruneFromFirst ==
  ASSUME NEW hits \in Seq(Nat), NEW t \in Nat
  PROVE  /\ Prune(hits, t) \in Seq(Nat)
         /\ Live(hits, t) = {} => Prune(hits, t) = << >>
         /\ \A k \in Live(hits, t) : (\A j \in Live(hits, t) : k <= j) =>
              /\ Len(Prune(hits, t)) = Len(hits) - k + 1
              /\ \A i \in 1..Len(hits) - k + 1 : Prune(hits, t)[i] = hits[i + k - 1]
<1>1. CASE Live(hits, t) = {}
  BY <1>1 DEF Prune, Live
<1>2. CASE Live(hits, t) # {}
  <2>1. Live(hits, t) \in SUBSET Nat /\ Len(hits) \in Nat
    BY DEF Live
  <2>2. \E k \in Live(hits, t) : \A j \in Live(hits, t) : k <= j
    BY <1>2, <2>1, LeastElement
  <2>. DEFINE k == CHOOSE i \in Live(hits, t) : \A j \in Live(hits, t) : i <= j
  <2>3. k \in Live(hits, t) /\ \A j \in Live(hits, t) : k <= j
    BY <2>2
  <2>4. Prune(hits, t) = SubSeq(hits, k, Len(hits))
    BY <1>2, Zenon DEF Prune, Live
  <2>5. k \in 1..Len(hits)
    BY <2>3 DEF Live
  <2>. HIDE DEF k
  <2>6. /\ SubSeq(hits, k, Len(hits)) \in Seq(Nat)
        /\ Len(SubSeq(hits, k, Len(hits))) = Len(hits) - k + 1
        /\ \A i \in 1..Len(hits) - k + 1 : SubSeq(hits, k, Len(hits))[i] = hits[i + k - 1]
    BY <2>1, <2>5
  <2>7. \A m \in Live(hits, t) : (\A j \in Live(hits, t) : m <= j) => m = k
    BY <2>1, <2>3
  <2>. QED  BY <1>2, <2>4, <2>6, <2>7
<1>. QED  BY <1>1, <1>2

LEMMA PruneTwice ==
  ASSUME NEW hits \in Seq(Nat), NEW s \in Nat, NEW t \in Nat, s <= t
  PROVE  Prune(Prune(hits, s), t) = Prune(hits, t)
<1>. DEFINE p == Prune(hits, s)
<1>1. p \in Seq(Nat) /\ Len(hits) \in Nat /\ \A i \in 1..Len(hits) : hits[i] \in Nat
  <2>1. p \in Seq(Nat)
    BY PruneFromFirst
  <2>2. Len(hits) \in Nat /\ \A i \in 1..Len(hits) : hits[i] \in Nat
    OBVIOUS
  <2>. QED  BY <2>1, <2>2
<1>2. Live(hits, t) \subseteq Live(hits, s)
  BY <1>1, WindowAssumption DEF Live
<1>3. CASE Live(hits, s) = {}
  <2>1. p = << >> /\ Live(hits, t) = {}
    BY <1>2, <1>3, PruneFromFirst
  <2>. HIDE DEF p
  <2>3. Live(p, t) = {}
    BY <2>1 DEF Live
  <2>2. Prune(p, t) = << >> /\ Prune(hits, t) = << >>
    BY <1>1, <2>1, <2>3, PruneFromFirst
  <2>. QED  BY <2>2 DEF p
<1>4. CASE Live(hits, s) # {}
  <2>1. PICK k \in Live(hits, s) : \A j \in Live(hits, s) : k <= j
    <3>1. Live(hits, s) \in SUBSET Nat
      BY DEF Live
    <3>. QED  BY <1>4, <3>1, LeastElement
  <2>2. /\ k \in 1..Len(hits) /\ Len(p) = Len(hits) - k + 1
        /\ \A i \in 1..Len(p) : p[i] = hits[i + k - 1]
    <3>1. k \in 1..Len(hits)
      BY <2>1 DEF Live
    <3>2. /\ Len(p) = Len(hits) - k + 1
          /\ \A i \in 1..Len(hits) - k + 1 : p[i] = hits[i + k - 1]
      BY <2>1, PruneFromFirst
    <3>. QED  BY <3>1, <3>2
  <2>. HIDE DEF p
  <2>3. \A i \in 1..Len(p) : i + k - 1 \in 1..Len(hits) /\ (i \in Live(p, t) <=> i + k - 1 \in Live(hits, t))
    <3>1. ASSUME NEW i \in 1..Len(p)  PROVE i + k - 1 \in 1..Len(hits) /\ p[i] = hits[i + k - 1]
      BY <1>1, <2>2
    <3>. QED  BY <3>1 DEF Live
  <2>4. \A i \in Live(hits, t) : i - k + 1 \in 1..Len(p) /\ i - k + 1 \in Live(p, t)
    <3>1. ASSUME NEW i \in Live(hits, t)  PROVE i - k + 1 \in 1..Len(p) /\ i - k + 1 \in Live(p, t)
      <4>1. k <= i /\ i \in 1..Len(hits)
        BY <1>2, <2>1 DEF Live
      <4>2. i - k + 1 \in 1..Len(p) /\ (i - k + 1) + k - 1 = i
        BY <1>1, <2>2, <4>1
      <4>. QED  BY <2>3, <4>2
    <3>. QED  BY <3>1
  <2>5. CASE Live(p, t) = {}
    <3>1. Live(hits, t) = {}
      BY <2>4, <2>5
    <3>. QED  BY <1>1, <2>5, <3>1, PruneFromFirst DEF p
  <2>6. CASE Live(p, t) # {}
    <3>1. PICK m \in Live(p, t) : \A j \in Live(p, t) : m <= j
      <4>1. Live(p, t) \in SUBSET Nat
        BY DEF Live
      <4>. QED  BY <2>6, <4>1, LeastElement
    <3>2. m \in 1..Len(p) /\ Len(p) \in Nat
      BY <1>1, <3>1 DEF Live
    <3>. DEFINE n == m + k - 1
    <3>3. n \in Live(hits, t) /\ \A j \in Live(hits, t) : n <= j
      <4>1. n \in Live(hits, t)
        BY <2>3, <3>1, <3>2
      <4>2. ASSUME NEW j \in Live(hits, t)  PROVE n <= j
        <5>1. m <= j - k + 1 /\ j \in Nat
          BY <2>4, <3>1 DEF Live
        <5>. QED  BY <2>2, <3>2, <5>1
      <4>. QED  BY <4>1, <4>2
    <3>4. /\ Prune(p, t) \in Seq(Nat)
          /\ Len(Prune(p, t)) = Len(p) - m + 1
          /\ \A i \in 1..Len(p) - m + 1 : Prune(p, t)[i] = p[i + m - 1]
      BY <1>1, <3>1, PruneFromFirst
    <3>5. /\ Prune(hits, t) \in Seq(Nat)
          /\ Len(Prune(hits, t)) = Len(hits) - n + 1
          /\ \A i \in 1..Len(hits) - n + 1 : Prune(hits, t)[i] = hits[i + n - 1]
      <4>. HIDE DEF n
      <4>. QED  BY <3>3, PruneFromFirst
    <3>6. Len(Prune(p, t)) = Len(Prune(hits, t))
      BY <1>1, <2>2, <3>2, <3>4, <3>5
    <3>7. \A i \in 1..Len(Prune(p, t)) : Prune(p, t)[i] = Prune(hits, t)[i]
      <4>1. ASSUME NEW i \in 1..Len(p) - m + 1
            PROVE  /\ i + m - 1 \in 1..Len(p) /\ (i + m - 1) + k - 1 = i + n - 1
                   /\ i \in 1..Len(hits) - n + 1
        BY <1>1, <2>2, <3>2
      <4>2. ASSUME NEW i \in 1..Len(p) - m + 1  PROVE Prune(p, t)[i] = Prune(hits, t)[i]
        <5>1. Prune(p, t)[i] = p[i + m - 1] /\ p[i + m - 1] = hits[(i + m - 1) + k - 1]
          BY <2>2, <3>4, <4>1
        <5>. HIDE DEF n
        <5>. QED  BY <3>5, <4>1, <5>1
      <4>. QED  BY <3>4, <4>2
    <3>8. Prune(p, t) = Prune(hits, t)
      <4>. DEFINE a == Prune(p, t)
                  b == Prune(hits, t)
      <4>1. a \in Seq(Nat) /\ b \in Seq(Nat) /\ Len(a) = Len(b) /\ \A i \in 1..Len(a) : a[i] = b[i]
        BY <3>4, <3>5, <3>6, <3>7
      <4>. HIDE DEF a, b
      <4>2. a = b
        BY <4>1
      <4>. QED  BY <4>2 DEF a, b
    <3>. QED  BY <3>8 DEF p
  <2>. QED  BY <2>5, <2>6
<1>. QED  BY <1>3, <1>4

-----------------------------------------------------------------------------
(***************************************************************************)
(* What the store wants, read entry by entry.                              *)
(***************************************************************************)
Entry == [key : Keys, enabled : BOOLEAN, rpm : Nat]

DistinctKeys(s) == \A i, j \in DOMAIN s : s[i].key = s[j].key => i = j

Extend(entries, n, before) ==
  IF entries[n].enabled /\ entries[n].rpm > 0
  THEN Append(before, LaneSpec(entries[n])) ELSE before

UpTo(entries, f, m) ==
  f = [n \in 0..m |-> IF n = 0 THEN << >> ELSE Extend(entries, n, f[n - 1])]

LEMMA SpecsRead ==
  ASSUME NEW entries, Len(entries) \in Nat
  PROVE  \E f : UpTo(entries, f, Len(entries)) /\ LaneSpecs(entries) = f[Len(entries)]
<1>. DEFINE N == Len(entries)
            Bad == {m \in 0..N : ~ \E f : UpTo(entries, f, m)}
<1>1. Bad = {}
  <2>. SUFFICES ASSUME Bad # {}  PROVE FALSE
    OBVIOUS
  <2>0. Bad \in SUBSET Nat
    OBVIOUS
  <2>1. PICK m \in Bad : \A j \in Bad : m <= j
    <3>. HIDE DEF Bad
    <3>. QED  BY <2>0, LeastElement
  <2>2. CASE m = 0
    <3>1. UpTo(entries, [n \in 0..0 |-> << >>], 0)
      BY DEF UpTo
    <3>. QED  BY <2>1, <2>2, <3>1
  <2>3. CASE m # 0
    <3>1. m \in Nat \ {0} /\ m <= N /\ m - 1 \in 0..N /\ m - 1 \notin Bad
      BY <2>1, <2>3
    <3>2. PICK g : UpTo(entries, g, m - 1)
      BY <3>1
    <3>. DEFINE f == [n \in 0..m |-> IF n = m THEN Extend(entries, m, g[m - 1]) ELSE g[n]]
    <3>3. \A n \in 0..m : n # 0 => f[n - 1] = g[n - 1]
      BY <3>1
    <3>4. \A n \in 0..m : f[n] = IF n = 0 THEN << >> ELSE Extend(entries, n, f[n - 1])
      <4>1. \A n \in 0..m - 1 : g[n] = IF n = 0 THEN << >> ELSE Extend(entries, n, g[n - 1])
        BY <3>2 DEF UpTo
      <4>. QED  BY <3>1, <3>3, <4>1
    <3>5. UpTo(entries, f, m)
      <4>. HIDE DEF f
      <4>1. f = [n \in 0..m |-> f[n]]
        BY DEF f
      <4>. QED  BY <3>4, <4>1 DEF UpTo
    <3>. QED  BY <2>1, <3>5
  <2>. QED  BY <2>2, <2>3
<1>2. \E f : UpTo(entries, f, N)
  BY <1>1
<1>3. LaneSpecs(entries) = (CHOOSE f : UpTo(entries, f, N))[N]
  BY Zenon DEF LaneSpecs, UpTo, Extend
<1>. QED  BY <1>2, <1>3

\* The specs read from the first n entries.
ReadUpTo(entries, specs, n) ==
  /\ specs \in KeySpecs /\ DistinctKeys(specs)
  /\ \A i \in DOMAIN specs : \E j \in 1..n : specs[i].key = entries[j].key

LEMMA ExtendReads ==
  ASSUME NEW entries \in Seq(Entry), DistinctKeys(entries), NEW n \in 1..Len(entries),
         NEW before, ReadUpTo(entries, before, n - 1)
  PROVE  ReadUpTo(entries, Extend(entries, n, before), n)
<1>. DEFINE spec == LaneSpec(entries[n])
            after == Append(before, spec)
<1>1. /\ Len(entries) \in Nat /\ DOMAIN entries = 1..Len(entries)
      /\ \A j \in 1..n - 1 : j \in 1..n /\ j # n
  OBVIOUS
<1>2. entries[n] \in Entry
  OBVIOUS
<1>3. spec \in [key : Keys, rpm : Nat] /\ spec.key = entries[n].key
  BY <1>2 DEF LaneSpec, Entry
<1>4. /\ before \in Seq([key : Keys, rpm : Nat]) /\ Len(before) \in Nat
      /\ DOMAIN before = 1..Len(before)
  BY DEF ReadUpTo, KeySpecs
<1>5. /\ after \in Seq([key : Keys, rpm : Nat]) /\ DOMAIN after = 1..Len(before) + 1
      /\ \A i \in 1..Len(before) : after[i] = before[i]
      /\ after[Len(before) + 1] = spec
  <2>. HIDE DEF spec
  <2>. QED  BY <1>3, <1>4
<1>6. \A i \in 1..Len(before) : after[i].key # spec.key
  <2>1. ASSUME NEW i \in 1..Len(before)  PROVE after[i].key # spec.key
    <3>1. PICK j \in 1..n - 1 : before[i].key = entries[j].key
      BY <1>4 DEF ReadUpTo
    <3>2. entries[j].key # entries[n].key
      BY <1>1, <3>1 DEF DistinctKeys
    <3>. HIDE DEF after, spec
    <3>. QED  BY <1>3, <1>5, <3>1, <3>2
  <2>. QED  BY <2>1
<1>. HIDE DEF after, spec
<1>7. \A i \in 1..Len(before) + 1 : i \in 1..Len(before) \/ i = Len(before) + 1
  BY <1>4
<1>8. DistinctKeys(after)
  <2>1. DistinctKeys(before)
    BY DEF ReadUpTo
  <2>. QED  BY <1>4, <1>5, <1>6, <1>7, <2>1 DEF DistinctKeys
<1>9. \A i \in DOMAIN after : \E j \in 1..n : after[i].key = entries[j].key
  <2>1. \A i \in DOMAIN before : \E j \in 1..n : before[i].key = entries[j].key
    BY <1>1 DEF ReadUpTo
  <2>2. n \in 1..n
    OBVIOUS
  <2>. QED  BY <1>3, <1>4, <1>5, <1>7, <2>1, <2>2
<1>10. ReadUpTo(entries, after, n)
  BY <1>5, <1>8, <1>9 DEF ReadUpTo, KeySpecs
<1>11. ReadUpTo(entries, before, n)
  BY <1>1 DEF ReadUpTo
<1>. QED  BY <1>10, <1>11 DEF Extend, after, spec

\* A store that names no key twice wants no key twice.
LEMMA SpecsDistinct ==
  ASSUME NEW entries \in Seq(Entry), DistinctKeys(entries)
  PROVE  LaneSpecs(entries) \in KeySpecs /\ DistinctKeys(LaneSpecs(entries))
<1>. DEFINE N == Len(entries)
<1>0. N \in Nat
  OBVIOUS
<1>1. PICK f : UpTo(entries, f, N) /\ LaneSpecs(entries) = f[N]
  BY <1>0, SpecsRead
<1>. DEFINE Bad == {m \in 0..N : ~ReadUpTo(entries, f[m], m)}
<1>. SUFFICES Bad = {}
  <2>1. ReadUpTo(entries, f[N], N)
    BY <1>0
  <2>. QED  BY <1>1, <2>1 DEF ReadUpTo
<1>. SUFFICES ASSUME Bad # {}  PROVE FALSE
  OBVIOUS
<1>2. PICK m \in Bad : \A j \in Bad : m <= j
  <2>1. Bad \in SUBSET Nat
    OBVIOUS
  <2>. HIDE DEF Bad
  <2>. QED  BY <2>1, LeastElement
<1>3. \A n \in 0..N : f[n] = IF n = 0 THEN << >> ELSE Extend(entries, n, f[n - 1])
  BY <1>1 DEF UpTo
<1>4. CASE m = 0
  <2>1. f[0] = << >>
    BY <1>0, <1>3
  <2>2. ReadUpTo(entries, << >>, 0)
    BY DEF ReadUpTo, DistinctKeys, KeySpecs
  <2>. QED  BY <1>2, <1>4, <2>1, <2>2
<1>5. CASE m # 0
  <2>1. m \in 1..N /\ m - 1 \in 0..N /\ m - 1 \notin Bad
    BY <1>0, <1>2, <1>5
  <2>2. ReadUpTo(entries, f[m - 1], m - 1)
    BY <2>1
  <2>3. ReadUpTo(entries, Extend(entries, m, f[m - 1]), m)
    BY <2>1, <2>2, ExtendReads
  <2>. QED  BY <1>2, <1>3, <1>5, <2>1, <2>3
<1>. QED  BY <1>4, <1>5

-----------------------------------------------------------------------------
(***************************************************************************)
(* An edit names no key twice either.                                      *)
(***************************************************************************)
LEMMA EditedDistinct ==
  ASSUME NEW entries \in Seq(Entry), DistinctKeys(entries), NEW new \in Edited(entries)
  PROVE  new \in Seq(Entry) /\ DistinctKeys(new)
<1>0. Len(entries) \in Nat /\ DOMAIN entries = 1..Len(entries) /\ \A i \in DOMAIN entries : entries[i] \in Entry
  OBVIOUS
<1>00. \A k \in Keys : \A e \in Entries(k) : e \in Entry /\ e.key = k
  <2>1. \A k \in Keys : Rpms[k] \subseteq Nat
    BY LivePoolAssumption
  <2>. QED  BY <2>1 DEF Entries, Entry
<1>1. ASSUME NEW k \in Keys, NEW e \in Entries(k), \A i \in DOMAIN entries : entries[i].key # e.key,
             new = Append(entries, e)
      PROVE  new \in Seq(Entry) /\ DistinctKeys(new)
  <2>1. e \in Entry
    BY <1>00
  <2>2. /\ new \in Seq(Entry) /\ DOMAIN new = 1..Len(entries) + 1
        /\ \A i \in 1..Len(entries) : new[i] = entries[i]
        /\ new[Len(entries) + 1] = e
    BY <1>1, <2>1
  <2>3. \A i \in 1..Len(entries) + 1 : i \in 1..Len(entries) \/ i = Len(entries) + 1
    BY <1>0
  <2>. QED  BY <1>0, <1>1, <2>2, <2>3 DEF DistinctKeys
<1>2. ASSUME NEW i \in DOMAIN entries,
             new = SubSeq(entries, 1, i - 1) \o SubSeq(entries, i + 1, Len(entries))
      PROVE  new \in Seq(Entry) /\ DistinctKeys(new)
  <2>. DEFINE a == SubSeq(entries, 1, i - 1)
              b == SubSeq(entries, i + 1, Len(entries))
              at(k) == IF k < i THEN k ELSE k + 1
  <2>1. i \in 1..Len(entries)
    BY <1>0
  <2>2. /\ a \in Seq(Entry) /\ Len(a) = i - 1 /\ \A k \in 1..i - 1 : a[k] = entries[k]
        /\ b \in Seq(Entry) /\ Len(b) = Len(entries) - i
        /\ \A k \in 1..Len(entries) - i : b[k] = entries[k + i]
    BY <1>0, <2>1
  <2>. HIDE DEF a, b
  <2>3. new = a \o b
    BY <1>2 DEF a, b
  <2>4. /\ new \in Seq(Entry) /\ Len(new) = Len(entries) - 1 /\ DOMAIN new = 1..Len(entries) - 1
        /\ \A k \in DOMAIN new : new[k] = IF k <= i - 1 THEN a[k] ELSE b[k - (i - 1)]
    <3>1. /\ new \in Seq(Entry) /\ Len(new) = Len(a) + Len(b) /\ DOMAIN new = 1..Len(a) + Len(b)
          /\ \A k \in 1..Len(a) + Len(b) : new[k] = IF k <= Len(a) THEN a[k] ELSE b[k - Len(a)]
      <4>. DEFINE c == a \o b
      <4>1. a \in Seq(Entry) /\ b \in Seq(Entry)
        BY <2>2
      <4>2. c \in Seq(Entry)
        BY <4>1
      <4>3. Len(c) = Len(a) + Len(b)
        BY <4>1
      <4>4. \A k \in 1..Len(a) + Len(b) : c[k] = IF k <= Len(a) THEN a[k] ELSE b[k - Len(a)]
        BY <4>1
      <4>. HIDE DEF c
      <4>5. DOMAIN c = 1..Len(a) + Len(b)
        BY <4>2, <4>3
      <4>. QED  BY <2>3, <4>2, <4>3, <4>4, <4>5 DEF c
    <3>2. Len(a) + Len(b) = Len(entries) - 1
      BY <1>0, <2>1, <2>2
    <3>. QED  BY <2>2, <3>1, <3>2
  <2>5. \A k \in DOMAIN new : at(k) \in DOMAIN entries /\ new[k] = entries[at(k)]
    <3>1. ASSUME NEW k \in DOMAIN new  PROVE at(k) \in DOMAIN entries /\ new[k] = entries[at(k)]
      <4>0. k \in 1..Len(entries) - 1
        BY <2>4
      <4>1. CASE k <= i - 1
        <5>1. k \in 1..i - 1 /\ at(k) = k /\ k \in 1..Len(entries)
          BY <1>0, <2>1, <4>0, <4>1
        <5>. QED  BY <1>0, <2>2, <2>4, <4>1, <5>1
      <4>2. CASE ~(k <= i - 1)
        <5>1. /\ k - (i - 1) \in 1..Len(entries) - i /\ at(k) = k + 1 /\ k + 1 \in 1..Len(entries)
              /\ (k - (i - 1)) + i = k + 1
          BY <1>0, <2>1, <4>0, <4>2
        <5>. QED  BY <1>0, <2>2, <2>4, <4>2, <5>1
      <4>. QED  BY <4>1, <4>2
    <3>. QED  BY <3>1
  <2>6. \A k, l \in DOMAIN new : at(k) = at(l) => k = l
    BY <1>0, <2>1, <2>4
  <2>. HIDE DEF at
  <2>. QED  BY <2>4, <2>5, <2>6 DEF DistinctKeys
<1>3. ASSUME NEW i \in DOMAIN entries, NEW e \in Entries(entries[i].key),
             new = [entries EXCEPT ![i] = e]
      PROVE  new \in Seq(Entry) /\ DistinctKeys(new)
  <2>1. entries[i].key \in Keys
    BY <1>0 DEF Entry
  <2>2. e \in Entry /\ e.key = entries[i].key
    BY <1>00, <2>1
  <2>3. new \in Seq(Entry) /\ DOMAIN new = DOMAIN entries /\ \A j \in DOMAIN new : new[j].key = entries[j].key
    BY <1>3, <2>2
  <2>. QED  BY <2>3 DEF DistinctKeys
<1>4. CASE \E k \in Keys : \E e \in Entries(k) :
             (\A i \in DOMAIN entries : entries[i].key # e.key) /\ new = Append(entries, e)
  BY <1>1, <1>4
<1>5. CASE \E i \in DOMAIN entries :
             new = SubSeq(entries, 1, i - 1) \o SubSeq(entries, i + 1, Len(entries))
  BY <1>2, <1>5
<1>6. CASE \E i \in DOMAIN entries : \E e \in Entries(entries[i].key) : new = [entries EXCEPT ![i] = e]
  BY <1>3, <1>6
<1>. QED  BY <1>4, <1>5, <1>6, Zenon DEF Edited

-----------------------------------------------------------------------------
(***************************************************************************)
(* A rebuild: a key that was there keeps its hits and its cooldown, any    *)
(* other starts fresh.                                                     *)
(***************************************************************************)
LEMMA RebuiltCarries ==
  ASSUME NEW old \in Seq(Lane), DistinctKeys(old), NEW specs \in KeySpecs, DistinctKeys(specs)
  PROVE  /\ Rebuilt(old, specs) \in Seq(Lane) /\ DistinctKeys(Rebuilt(old, specs))
         /\ DOMAIN Rebuilt(old, specs) = DOMAIN specs
         /\ \A i \in DOMAIN specs :
              /\ Rebuilt(old, specs)[i].key = specs[i].key
              /\ Rebuilt(old, specs)[i].rpm = specs[i].rpm
              /\ \A j \in DOMAIN old : old[j].key = specs[i].key =>
                   /\ Rebuilt(old, specs)[i].hits = old[j].hits
                   /\ Rebuilt(old, specs)[i].cooldown = old[j].cooldown
              /\ (\A j \in DOMAIN old : old[j].key # specs[i].key) =>
                   Rebuilt(old, specs)[i].hits = << >>
<1>. DEFINE new == Rebuilt(old, specs)
<1>1. /\ Len(specs) \in Nat /\ DOMAIN specs = 1..Len(specs)
      /\ \A i \in DOMAIN specs : specs[i] \in [key : Keys, rpm : Nat]
  <2>. DEFINE Wanted == [key : Keys, rpm : Nat]
  <2>1. specs \in Seq(Wanted)
    BY DEF KeySpecs
  <2>. HIDE DEF Wanted
  <2>2. Len(specs) \in Nat /\ DOMAIN specs = 1..Len(specs) /\ \A i \in DOMAIN specs : specs[i] \in Wanted
    BY <2>1
  <2>. QED  BY <2>2 DEF Wanted
<1>2. DOMAIN old = 1..Len(old) /\ Len(old) \in Nat /\ \A j \in DOMAIN old : old[j] \in Lane
  OBVIOUS
<1>3. ASSUME NEW i \in DOMAIN specs
      PROVE  /\ new[i] \in Lane
             /\ new[i].key = specs[i].key /\ new[i].rpm = specs[i].rpm
             /\ \A j \in DOMAIN old : old[j].key = specs[i].key =>
                  new[i].hits = old[j].hits /\ new[i].cooldown = old[j].cooldown
             /\ (\A j \in DOMAIN old : old[j].key # specs[i].key) => new[i].hits = << >>
  <2>. DEFINE same == {j \in DOMAIN old : old[j].key = specs[i].key}
              fresh == Fresh(specs[i])
  <2>1. /\ fresh \in Lane /\ fresh.key = specs[i].key /\ fresh.rpm = specs[i].rpm
        /\ fresh.hits = << >>
    BY <1>1 DEF Fresh, Lane
  <2>2. CASE same = {}
    <3>1. new[i] = fresh
      BY <2>2 DEF Rebuilt
    <3>. HIDE DEF fresh, new
    <3>. QED  BY <2>1, <2>2, <3>1
  <2>3. CASE same # {}
    <3>1. PICK j \in same : TRUE
      BY <2>3
    <3>2. same = {j}
      BY <3>1 DEF DistinctKeys
    <3>3. (CHOOSE m \in same : \A k \in same : m <= k) = j
      <4>1. j <= j
        BY <1>2, <3>1
      <4>. HIDE DEF same
      <4>. QED  BY <3>2, <4>1
    <3>4. new[i] = [fresh EXCEPT !.hits = old[j].hits, !.cooldown = old[j].cooldown]
      BY <2>3, <3>3 DEF Rebuilt
    <3>5. old[j].hits \in Seq(Nat) /\ old[j].cooldown \in Nat
      BY <1>2, <3>1 DEF Lane
    <3>. HIDE DEF fresh, new
    <3>6. /\ new[i] \in Lane /\ new[i].key = fresh.key /\ new[i].rpm = fresh.rpm
          /\ new[i].hits = old[j].hits /\ new[i].cooldown = old[j].cooldown
      BY <2>1, <3>4, <3>5 DEF Lane
    <3>. QED  BY <2>1, <3>1, <3>2, <3>6
  <2>. QED  BY <2>2, <2>3
<1>4. DOMAIN new = DOMAIN specs
  BY DEF Rebuilt
<1>5. new = [i \in 1..Len(specs) |-> new[i]]
  BY <1>1 DEF Rebuilt
<1>. HIDE DEF new
<1>6. new \in Seq(Lane)
  BY <1>1, <1>3, <1>5
<1>7. DistinctKeys(new)
  BY <1>3, <1>4 DEF DistinctKeys
<1>8. /\ new \in Seq(Lane) /\ DistinctKeys(new) /\ DOMAIN new = DOMAIN specs
      /\ \A i \in DOMAIN specs :
              /\ new[i].key = specs[i].key
              /\ new[i].rpm = specs[i].rpm
              /\ \A j \in DOMAIN old : old[j].key = specs[i].key =>
                   /\ new[i].hits = old[j].hits
                   /\ new[i].cooldown = old[j].cooldown
              /\ (\A j \in DOMAIN old : old[j].key # specs[i].key) => new[i].hits = << >>
  BY <1>3, <1>4, <1>6, <1>7
<1>. QED  BY <1>8 DEF new

-----------------------------------------------------------------------------
(***************************************************************************)
(* Types.  Beside them: no store, no pool and no snapshot names a key      *)
(* twice, and the lane chosen at the gate is still there.                  *)
(***************************************************************************)
AdminStates ==
  [step : {"idle", "edited", "saving", "built", "applied"},
   specs : KeySpecs, pool : Slots \cup {NONE}]

AdminOK(r) ==
  /\ r \in AdminStates /\ DistinctKeys(r.specs)
  /\ r.step = "built" => r.pool \in Slots

PoolsOK(ps) ==
  /\ ps \in [Slots -> Seq(Lane)]
  /\ \A s \in Slots : DistinctKeys(ps[s])

TypeInv ==
  /\ TypeOK
  /\ DistinctKeys(store)
  /\ PoolsOK(pools)
  /\ \A a \in Admins : AdminOK(admin[a])
  /\ gate.step = "chosen" => gate.pool \in Slots /\ gate.lane \in DOMAIN pools[gate.pool]

\* The same lanes, whatever was spent on them.
Kin(p, q) ==
  /\ DOMAIN q = DOMAIN p
  /\ \A i \in DOMAIN p : q[i].key = p[i].key /\ q[i].rpm = p[i].rpm

LEMMA KinDistinct ==
  ASSUME NEW p, NEW q, Kin(p, q), DistinctKeys(p)
  PROVE  DistinctKeys(q)
BY DEF Kin, DistinctKeys

LEMMA HeldPools ==
  ASSUME NEW ps, PoolsOK(ps), NEW refs
  PROVE  /\ PoolsOK(Held(ps, refs))
         /\ \A s \in Slots \cap refs : Held(ps, refs)[s] = ps[s]
BY DEF Held, PoolsOK, DistinctKeys

LEMMA ReplacedPool ==
  ASSUME PoolsOK(pools), NEW s \in Slots, NEW q \in Seq(Lane), Kin(pools[s], q)
  PROVE  /\ PoolsOK([pools EXCEPT ![s] = q])
         /\ [pools EXCEPT ![s] = q][s] = q
         /\ \A r \in Slots : r # s => [pools EXCEPT ![s] = q][r] = pools[r]
         /\ \A r \in Slots : Kin(pools[r], [pools EXCEPT ![s] = q][r])
<1>1. DistinctKeys(q)
  BY KinDistinct DEF PoolsOK
<1>2. \A r \in Slots : Kin(pools[r], pools[r])
  BY DEF Kin
<1>. QED  BY <1>1, <1>2 DEF PoolsOK

LEMMA LaneWith ==
  ASSUME NEW l \in Lane, NEW h \in Seq(Nat), NEW c \in Nat
  PROVE  /\ [l EXCEPT !.hits = h] \in Lane
         /\ [l EXCEPT !.hits = h].key = l.key /\ [l EXCEPT !.hits = h].rpm = l.rpm
         /\ [l EXCEPT !.hits = h].hits = h /\ [l EXCEPT !.hits = h].cooldown = l.cooldown
         /\ [l EXCEPT !.cooldown = c] \in Lane
         /\ [l EXCEPT !.cooldown = c].key = l.key /\ [l EXCEPT !.cooldown = c].rpm = l.rpm
         /\ [l EXCEPT !.cooldown = c].hits = l.hits
BY DEF Lane

\* What a scan, a grant and a rebuff leave of a pool.
LEMMA ScanPools ==
  ASSUME TypeInv, Scan
  PROVE  \E q \in Seq(Lane) :
           /\ pools' = Held([pools EXCEPT ![current] = q], {current} \cup BuiltBy(admin))
           /\ Kin(pools[current], q)
           /\ \A i \in DOMAIN q :
                /\ q[i].cooldown = pools[current][i].cooldown
                /\ \/ q[i].hits = pools[current][i].hits
                   \/ q[i].hits = Prune(pools[current][i].hits, now)
<1>. DEFINE p == pools[current]
            q == Scanned(current)
<1>1. p \in Seq(Lane) /\ now \in Nat /\ current \in Slots
  BY DEF TypeInv, TypeOK
<1>2. pools' = Held([pools EXCEPT ![current] = q], {current} \cup BuiltBy(admin))
  BY DEF Scan
<1>0. q = [i \in DOMAIN p |-> IF i \in Open(current) THEN [p[i] EXCEPT !.hits = Prune(@, now)]
                              ELSE p[i]]
  BY DEF Scanned
<1>. HIDE DEF p, q
<1>3. ASSUME NEW i \in DOMAIN p
      PROVE  /\ q[i] \in Lane /\ q[i].key = p[i].key /\ q[i].rpm = p[i].rpm
             /\ q[i].cooldown = p[i].cooldown
             /\ q[i].hits = p[i].hits \/ q[i].hits = Prune(p[i].hits, now)
  <2>1. p[i] \in Lane
    BY <1>1
  <2>2. Prune(p[i].hits, now) \in Seq(Nat)
    <3>1. p[i].hits \in Seq(Nat)
      BY <2>1 DEF Lane
    <3>. QED  BY <1>1, <3>1, PruneFromFirst
  <2>3. q[i] = IF i \in Open(current) THEN [p[i] EXCEPT !.hits = Prune(p[i].hits, now)] ELSE p[i]
    BY <1>0
  <2>4. CASE i \in Open(current)
    <3>. DEFINE h == Prune(p[i].hits, now)
                l == [p[i] EXCEPT !.hits = h]
    <3>1. q[i] = l /\ h \in Seq(Nat) /\ 0 \in Nat
      BY <2>2, <2>3, <2>4
    <3>. HIDE DEF h
    <3>2. /\ l \in Lane /\ l.key = p[i].key /\ l.rpm = p[i].rpm
          /\ l.cooldown = p[i].cooldown /\ l.hits = h
      BY <2>1, <3>1, LaneWith
    <3>. HIDE DEF l
    <3>. QED  BY <3>1, <3>2 DEF h
  <2>5. CASE i \notin Open(current)
    BY <2>1, <2>3, <2>5
  <2>. QED  BY <2>4, <2>5
<1>4. q \in Seq(Lane) /\ DOMAIN q = DOMAIN p
  <2>1. Len(p) \in Nat /\ DOMAIN p = 1..Len(p) /\ DOMAIN q = DOMAIN p
    BY <1>0, <1>1
  <2>2. q = [i \in 1..Len(p) |-> q[i]]
    BY <1>0, <2>1
  <2>. QED  BY <1>3, <2>1, <2>2
<1>5. Kin(p, q)
  BY <1>3, <1>4 DEF Kin
<1>. QED  BY <1>2, <1>3, <1>4, <1>5 DEF p

LEMMA GrantPools ==
  ASSUME TypeInv, NEW c \in Callers, Grant(c)
  PROVE  \E q \in Seq(Lane) :
           /\ pools' = Held([pools EXCEPT ![gate.pool] = q], {current} \cup BuiltBy(admin))
           /\ Kin(pools[gate.pool], q)
           /\ q[gate.lane].hits = Hit(pools[gate.pool][gate.lane].hits, gate.until)
           /\ \A i \in DOMAIN q : i # gate.lane => q[i] = pools[gate.pool][i]
<1>. DEFINE p == pools[gate.pool]
            n == gate.lane
            h == Hit(p[n].hits, gate.until)
            l == [p[n] EXCEPT !.hits = h]
            q == [p EXCEPT ![n] = l]
<1>1. gate.pool \in Slots /\ p \in Seq(Lane) /\ n \in DOMAIN p /\ gate.until \in Nat
  BY DEF Grant, TypeInv, TypeOK
<1>2. p[n] \in Lane
  BY <1>1
<1>3. p[n].hits \in Seq(Nat)
  BY <1>2 DEF Lane
<1>4. h \in Seq(Nat)
  <2>1. Prune(p[n].hits, gate.until) \in Seq(Nat)
    BY <1>1, <1>3, PruneFromFirst
  <2>. QED  BY <1>1, <2>1 DEF Hit
<1>5. pools' = Held([pools EXCEPT ![gate.pool] = q], {current} \cup BuiltBy(admin))
  <2>1. [pools EXCEPT ![gate.pool][gate.lane].hits = Hit(@, gate.until)]
          = [pools EXCEPT ![gate.pool] = q]
    BY <1>1 DEF TypeInv, PoolsOK
  <2>. QED  BY <2>1 DEF Grant
<1>. HIDE DEF h, p, n
<1>6. l \in Lane /\ l.key = p[n].key /\ l.rpm = p[n].rpm /\ l.hits = h
  <2>1. 0 \in Nat
    OBVIOUS
  <2>. QED  BY <1>2, <1>4, <2>1, LaneWith
<1>. HIDE DEF l
<1>7. q \in Seq(Lane) /\ DOMAIN q = DOMAIN p /\ q[n] = l /\ \A i \in DOMAIN p : i # n => q[i] = p[i]
  BY <1>1, <1>6
<1>. HIDE DEF q
<1>8. Kin(p, q)
  BY <1>6, <1>7 DEF Kin
<1>. QED  BY <1>5, <1>6, <1>7, <1>8 DEF p, n, h

LEMMA RebuffPools ==
  ASSUME TypeInv, NEW c \in Callers, NEW b \in Backoffs, Rebuff(c, b)
  PROVE  \E q \in Seq(Lane) :
           /\ pools' = [pools EXCEPT ![current] = q]
           /\ Kin(pools[current], q)
           /\ \A i \in DOMAIN q : q[i].hits = pools[current][i].hits
<1>. DEFINE p == pools[current]
            n == permit[c].lane
<1>1. p \in Seq(Lane) /\ current \in Slots /\ now \in Nat /\ b \in Nat
  BY LivePoolAssumption DEF TypeInv, TypeOK
<1>2. CASE n \notin DOMAIN p
  <2>1. pools' = pools
    BY <1>2 DEF Rebuff
  <2>2. pools = [pools EXCEPT ![current] = p]
    BY <1>1 DEF TypeInv, PoolsOK
  <2>3. Kin(p, p)
    BY DEF Kin
  <2>. QED  BY <1>1, <2>1, <2>2, <2>3
<1>3. CASE n \in DOMAIN p
  <2>. DEFINE d == IF p[n].cooldown > now + b THEN p[n].cooldown ELSE now + b
              l == [p[n] EXCEPT !.cooldown = d]
              q == [p EXCEPT ![n] = l]
  <2>1. p[n] \in Lane
    BY <1>1, <1>3
  <2>2. d \in Nat
    BY <1>1, <2>1 DEF Lane
  <2>3. pools' = [pools EXCEPT ![current] = q]
    <3>1. pools' = [pools EXCEPT ![current][permit[c].lane].cooldown =
                      IF @ > now + b THEN @ ELSE now + b]
      BY <1>3 DEF Rebuff
    <3>2. pools' = [pools EXCEPT ![current] = [p EXCEPT ![n] = [p[n] EXCEPT !.cooldown = d]]]
      BY <1>1, <3>1 DEF TypeInv, PoolsOK
    <3>. QED  BY <3>2
  <2>. HIDE DEF d, p, n
  <2>4. l \in Lane /\ l.key = p[n].key /\ l.rpm = p[n].rpm /\ l.hits = p[n].hits
    <3>1. << >> \in Seq(Nat)
      OBVIOUS
    <3>. QED  BY <2>1, <2>2, <3>1, LaneWith
  <2>. HIDE DEF l
  <2>5. q \in Seq(Lane) /\ DOMAIN q = DOMAIN p /\ q[n] = l /\ \A i \in DOMAIN p : i # n => q[i] = p[i]
    BY <1>1, <1>3, <2>4
  <2>. HIDE DEF q
  <2>6. Kin(p, q) /\ \A i \in DOMAIN q : q[i].hits = p[i].hits
    BY <2>4, <2>5 DEF Kin
  <2>. QED  BY <2>3, <2>5, <2>6 DEF p
<1>. QED  BY <1>2, <1>3

LEMMA TypeInvInductive == TypeInv /\ [Next]_vars => TypeInv'
<1>. SUFFICES ASSUME TypeInv, [Next]_vars  PROVE TypeInv'
  OBVIOUS
<1>1. /\ now \in Nat /\ store \in Seq(Entry) /\ DistinctKeys(store)
      /\ current \in Slots /\ PoolsOK(pools)
      /\ admin \in [Admins -> AdminStates]
      /\ \A a \in Admins : AdminOK(admin[a])
  BY DEF TypeInv, TypeOK, Entry, AdminStates
\* Lanes are spent, but stay; the store and the settings requests stay.
<1>2. ASSUME UNCHANGED <<store, current, admin, overrun>>, now' \in Nat, PoolsOK(pools'),
             gate' \in [step : {"free", "chosen", "asleep"}, pool : Slots \cup {NONE},
                        lane : Nat, until : Nat],
             gate'.step = "chosen" =>
               gate'.pool \in Slots /\ gate'.lane \in DOMAIN pools'[gate'.pool],
             permit' \in [Callers -> [lane : Nat, key : Keys] \cup {NONE}],
             spent' \in [Keys -> Seq(Nat)]
      PROVE  TypeInv'
  BY <1>1, <1>2 DEF TypeInv, TypeOK, AdminOK, AdminStates, PoolsOK
\* One settings request goes on; the pools stay.
<1>3. ASSUME NEW a \in Admins, NEW r, AdminOK(r), admin' = [admin EXCEPT ![a] = r],
             UNCHANGED <<now, pools, current, gate, permit, spent, overrun>>,
             store' \in Seq(Entry), DistinctKeys(store')
      PROVE  TypeInv'
  <2>1. admin' \in [Admins -> AdminStates] /\ \A b \in Admins : AdminOK(admin'[b])
    BY <1>1, <1>3 DEF AdminOK
  <2>. QED  BY <1>3, <2>1 DEF TypeInv, TypeOK, Entry, AdminStates, AdminOK, PoolsOK, DistinctKeys
<1>4. AdminOK(Resting) /\ AdminOK([Resting EXCEPT !.step = "edited"])
      /\ AdminOK([Resting EXCEPT !.step = "applied"])
  <2>1. << >> \in KeySpecs /\ DistinctKeys(<< >>)
    BY DEF KeySpecs, DistinctKeys
  <2>. QED  BY <2>1 DEF Resting, AdminOK, AdminStates
<1>5. ASSUME NEW a \in Admins, EditKeys(a)  PROVE TypeInv'
  <2>1. store' \in Seq(Entry) /\ DistinctKeys(store')
    BY <1>1, <1>5, EditedDistinct DEF EditKeys
  <2>2. CASE LaneSpecs(store') = << >>
    BY <1>3, <1>4, <1>5, <2>1, <2>2 DEF EditKeys
  <2>3. CASE LaneSpecs(store') # << >>
    BY <1>3, <1>4, <1>5, <2>1, <2>3 DEF EditKeys
  <2>. QED  BY <2>2, <2>3
<1>6. ASSUME NEW a \in Admins, EditAliases(a) \/ SaveFails(a)  PROVE TypeInv'
  BY <1>1, <1>3, <1>4, <1>6 DEF EditAliases, SaveFails
<1>7. ASSUME NEW a \in Admins, Snapshot(a)  PROVE TypeInv'
  <2>. DEFINE specs == LaneSpecs(store)
              r == [admin[a] EXCEPT !.step = "saving", !.specs = specs]
  <2>1. specs \in KeySpecs /\ DistinctKeys(specs)
    BY <1>1, SpecsDistinct
  <2>2. admin' = [admin EXCEPT ![a] = r]
    BY <1>1, <1>7 DEF Snapshot
  <2>. HIDE DEF specs
  <2>3. AdminOK(r)
    BY <1>1, <2>1 DEF AdminOK, AdminStates
  <2>. HIDE DEF r
  <2>. QED  BY <1>1, <1>3, <1>7, <2>2, <2>3 DEF Snapshot
<1>8. ASSUME NEW a \in Admins, Rebuild(a)  PROVE TypeInv'
  <2>1. PICK s \in Slots :
          /\ s \notin {current, gate.pool} \cup BuiltBy(admin)
          /\ pools' = [pools EXCEPT ![s] = Rebuilt(pools[current], admin[a].specs)]
          /\ admin' = [admin EXCEPT ![a] = [step |-> "built", specs |-> << >>, pool |-> s]]
    BY <1>8 DEF Rebuild
  <2>. DEFINE q == Rebuilt(pools[current], admin[a].specs)
              r == [step |-> "built", specs |-> << >>, pool |-> s]
  <2>2. q \in Seq(Lane) /\ DistinctKeys(q)
    <3>1. /\ pools[current] \in Seq(Lane) /\ DistinctKeys(pools[current])
          /\ admin[a].specs \in KeySpecs /\ DistinctKeys(admin[a].specs)
      BY <1>1 DEF PoolsOK, AdminOK, AdminStates
    <3>. QED  BY <3>1, RebuiltCarries
  <2>3. AdminOK(r)
    <3>1. << >> \in KeySpecs /\ DistinctKeys(<< >>)
      BY DEF KeySpecs, DistinctKeys
    <3>. QED  BY <3>1 DEF AdminOK, AdminStates
  <2>. HIDE DEF q, r
  <2>4. PoolsOK(pools') /\ \A t \in Slots : t # s => pools'[t] = pools[t]
    BY <1>1, <2>1, <2>2 DEF PoolsOK, q
  <2>5. admin' \in [Admins -> AdminStates] /\ \A b \in Admins : AdminOK(admin'[b])
    BY <1>1, <2>1, <2>3 DEF AdminOK, r
  <2>6. UNCHANGED <<now, store, current, gate, permit, spent, overrun>>
    BY <1>8 DEF Rebuild
  <2>7. gate.step = "chosen" => gate.pool \in Slots /\ gate.lane \in DOMAIN pools'[gate.pool]
    BY <2>1, <2>4 DEF TypeInv
  <2>. QED
    BY <2>4, <2>5, <2>6, <2>7 DEF TypeInv, TypeOK, Entry, AdminStates, AdminOK, PoolsOK, DistinctKeys
<1>9. ASSUME NEW a \in Admins, Swap(a)  PROVE TypeInv'
  <2>. DEFINE r == [Resting EXCEPT !.step = "applied"]
              refs == {current', gate.pool} \cup BuiltBy(admin')
  <2>1. /\ current' = admin[a].pool /\ admin[a].step = "built"
        /\ admin' = [admin EXCEPT ![a] = r]
        /\ pools' = Held(pools, refs)
        /\ UNCHANGED <<now, store, gate, permit, spent, overrun>>
    BY <1>9 DEF Swap
  <2>2. current' \in Slots
    BY <1>1, <2>1 DEF AdminOK
  <2>3. admin' \in [Admins -> AdminStates] /\ \A b \in Admins : AdminOK(admin'[b])
    BY <1>1, <1>4, <2>1 DEF AdminOK
  <2>. HIDE DEF r, refs
  <2>4. PoolsOK(pools') /\ \A s \in Slots \cap refs : pools'[s] = pools[s]
    BY <1>1, <2>1, HeldPools
  <2>5. gate.step = "chosen" => gate.pool \in Slots /\ gate.lane \in DOMAIN pools'[gate.pool]
    BY <2>4 DEF TypeInv, refs
  <2>. QED
    BY <2>1, <2>2, <2>3, <2>4, <2>5
    DEF TypeInv, TypeOK, Entry, AdminStates, AdminOK, PoolsOK, DistinctKeys
<1>10. CASE Scan
  <2>1. PICK q \in Seq(Lane) :
          /\ pools' = Held([pools EXCEPT ![current] = q], {current} \cup BuiltBy(admin))
          /\ Kin(pools[current], q)
    BY <1>10, ScanPools
  <2>. DEFINE ps == [pools EXCEPT ![current] = q]
              refs == {current} \cup BuiltBy(admin)
  <2>2. PoolsOK(ps) /\ ps[current] = q
    BY <1>1, <2>1, ReplacedPool
  <2>. HIDE DEF ps, refs
  <2>3. PoolsOK(pools') /\ \A s \in Slots \cap refs : pools'[s] = ps[s]
    BY <2>1, <2>2, HeldPools DEF ps, refs
  <2>4. pools'[current] = q /\ DOMAIN q = DOMAIN pools[current]
    BY <1>1, <2>1, <2>2, <2>3 DEF refs, Kin
  <2>5. \A i \in DOMAIN pools[current] : i \in Nat
    <3>1. pools[current] \in Seq(Lane)
      BY <1>1 DEF PoolsOK
    <3>. QED  BY <3>1
  <2>6. CASE WithRoom(current) # {}
    <3>1. PICK i \in WithRoom(current) :
            gate' = [step |-> "chosen", pool |-> current, lane |-> i, until |-> now]
      BY <1>10, <2>6 DEF Scan
    <3>2. i \in DOMAIN pools[current] /\ i \in Nat
      BY <2>5 DEF WithRoom, Open
    <3>. QED  BY <1>1, <1>2, <1>10, <2>3, <2>4, <3>1, <3>2 DEF Scan, TypeInv, TypeOK
  <2>7. CASE WithRoom(current) = {}
    <3>1. PICK t \in Reopenings(current) :
            gate' = [step |-> "asleep", pool |-> current, lane |-> 0, until |-> t]
      BY <1>10, <2>7 DEF Scan
    <3>2. t \in Nat
      <4>1. ASSUME NEW i \in DOMAIN pools[current]
            PROVE  pools[current][i].cooldown \in Nat /\ RetryAt(pools[current][i].hits, now) \in Nat
        <5>1. pools[current][i] \in Lane
          BY <1>1 DEF PoolsOK
        <5>. DEFINE h == pools[current][i].hits
                    w == Prune(h, now)
        <5>2. pools[current][i].cooldown \in Nat /\ h \in Seq(Nat)
          BY <5>1 DEF Lane
        <5>3. w \in Seq(Nat)
          BY <1>1, <5>2, PruneFromFirst
        <5>4. RetryAt(h, now) = (IF w = << >> THEN now ELSE w[1]) + Window
          BY DEF RetryAt
        <5>. HIDE DEF w
        <5>5. w = << >> \/ w[1] \in Nat
          BY <5>3
        <5>. QED  BY <1>1, <5>2, <5>4, <5>5, WindowAssumption
      <4>. QED  BY <4>1 DEF Reopenings, Open
    <3>. QED  BY <1>1, <1>2, <1>10, <2>3, <3>1, <3>2 DEF Scan, TypeInv, TypeOK
  <2>. QED  BY <2>6, <2>7
<1>11. CASE Dropped
  <2>1. PoolsOK(pools')
    BY <1>1, <1>11, HeldPools DEF Dropped
  <2>. QED  BY <1>1, <1>2, <1>11, <2>1 DEF Dropped, NoGate, TypeInv, TypeOK
<1>12. ASSUME NEW c \in Callers, Grant(c)  PROVE TypeInv'
  <2>. DEFINE p == pools[gate.pool]
              l == p[gate.lane]
  <2>1. /\ gate.pool \in Slots /\ p \in Seq(Lane) /\ gate.lane \in DOMAIN p
        /\ gate.until \in Nat /\ gate.lane \in Nat
    BY <1>12 DEF Grant, TypeInv, TypeOK
  <2>2. l.key \in Keys
    <3>1. l \in Lane
      BY <2>1
    <3>. QED  BY <3>1 DEF Lane
  <2>3. PICK q \in Seq(Lane) :
          /\ pools' = Held([pools EXCEPT ![gate.pool] = q], {current} \cup BuiltBy(admin))
          /\ Kin(p, q)
    BY <1>12, GrantPools
  <2>4. PoolsOK(pools')
    <3>1. PoolsOK([pools EXCEPT ![gate.pool] = q])
      BY <1>1, <2>1, <2>3, ReplacedPool
    <3>. QED  BY <2>3, <3>1, HeldPools
  <2>5. /\ permit' = [permit EXCEPT ![c] = [lane |-> gate.lane, key |-> l.key]]
        /\ spent' = [spent EXCEPT ![l.key] = Hit(spent[l.key], gate.until)]
        /\ overrun' \in {overrun, overrun \cup {l.key}}
        /\ gate' = NoGate
        /\ UNCHANGED <<now, store, current, admin>>
    BY <1>12 DEF Grant
  <2>. HIDE DEF l
  <2>6. Hit(spent[l.key], gate.until) \in Seq(Nat)
    <3>1. spent[l.key] \in Seq(Nat)
      BY <2>2 DEF TypeInv, TypeOK
    <3>2. Prune(spent[l.key], gate.until) \in Seq(Nat)
      BY <2>1, <3>1, PruneFromFirst
    <3>. QED  BY <2>1, <3>2 DEF Hit
  <2>7. spent' \in [Keys -> Seq(Nat)]
    BY <2>5, <2>6 DEF TypeInv, TypeOK
  <2>8. permit' \in [Callers -> [lane : Nat, key : Keys] \cup {NONE}]
    BY <2>1, <2>2, <2>5 DEF TypeInv, TypeOK
  <2>9. overrun' \in SUBSET Keys
    BY <2>2, <2>5 DEF TypeInv, TypeOK
  <2>10. gate' \in [step : {"free", "chosen", "asleep"}, pool : Slots \cup {NONE},
                    lane : Nat, until : Nat] /\ gate'.step # "chosen"
    BY <2>5 DEF NoGate
  <2>. QED
    BY <1>1, <2>4, <2>5, <2>7, <2>8, <2>9, <2>10
    DEF TypeInv, TypeOK, Entry, AdminStates, AdminOK, PoolsOK, DistinctKeys
<1>13. ASSUME NEW c \in Callers, Answered(c)  PROVE TypeInv'
  <2>1. permit' \in [Callers -> [lane : Nat, key : Keys] \cup {NONE}]
    BY <1>13 DEF Answered, TypeInv, TypeOK
  <2>. QED  BY <1>1, <1>2, <1>13, <2>1 DEF Answered, TypeInv, TypeOK
<1>14. ASSUME NEW c \in Callers, NEW b \in Backoffs, Rebuff(c, b)  PROVE TypeInv'
  <2>1. permit' \in [Callers -> [lane : Nat, key : Keys] \cup {NONE}]
    BY <1>14 DEF Rebuff, TypeInv, TypeOK
  <2>2. PICK q \in Seq(Lane) : pools' = [pools EXCEPT ![current] = q] /\ Kin(pools[current], q)
    BY <1>14, RebuffPools
  <2>3. PoolsOK(pools') /\ \A s \in Slots : Kin(pools[s], pools'[s])
    BY <1>1, <2>2, ReplacedPool
  <2>4. gate.step = "chosen" => gate.pool \in Slots /\ gate.lane \in DOMAIN pools'[gate.pool]
    BY <2>3 DEF TypeInv, Kin
  <2>. QED  BY <1>1, <1>2, <1>14, <2>1, <2>3, <2>4 DEF Rebuff, TypeInv, TypeOK
<1>15. CASE Tick
  <2>1. now' \in Nat
    BY <1>1, <1>15 DEF Tick
  <2>. QED  BY <1>1, <1>2, <1>15, <2>1 DEF Tick, TypeInv, TypeOK
<1>16. CASE UNCHANGED vars
  BY <1>1, <1>2, <1>16 DEF vars, TypeInv, TypeOK
<1>. QED
  BY <1>5, <1>6, <1>7, <1>8, <1>9, <1>10, <1>11, <1>12, <1>13, <1>14, <1>15, <1>16
  DEF Next, ServeStep, AdminStep

LEMMA TypeInvInitially ==
  ASSUME DistinctKeys(FirstStore)
  PROVE  Init => TypeInv
<1>. SUFFICES ASSUME Init  PROVE TypeInv
  OBVIOUS
<1>. DEFINE specs == LaneSpecs(FirstStore)
            first == Rebuilt(<< >>, specs)
<1>1. FirstStore \in Seq(Entry)
  BY LivePoolAssumption DEF Entry
<1>2. specs \in KeySpecs /\ DistinctKeys(specs)
  BY <1>1, SpecsDistinct
<1>3. first \in Seq(Lane) /\ DistinctKeys(first)
  <2>1. << >> \in Seq(Lane) /\ DistinctKeys(<< >>)
    BY DEF DistinctKeys
  <2>. HIDE DEF specs
  <2>. QED  BY <1>2, <2>1, RebuiltCarries
<1>4. pools = [s \in Slots |-> IF s = current THEN first ELSE << >>] /\ current \in Slots
  BY DEF Init
<1>. HIDE DEF first
<1>5. PoolsOK(pools)
  <2>1. << >> \in Seq(Lane) /\ DistinctKeys(<< >>)
    BY DEF DistinctKeys
  <2>2. \A s \in Slots : pools[s] = first \/ pools[s] = << >>
    BY <1>4
  <2>3. \A s \in Slots : DistinctKeys(pools[s])
    BY <1>3, <2>1, <2>2
  <2>4. pools \in [Slots -> Seq(Lane)]
    BY <1>3, <1>4, <2>1
  <2>. QED  BY <2>3, <2>4 DEF PoolsOK
<1>6. AdminOK(Resting)
  BY DEF Resting, AdminOK, AdminStates, KeySpecs, DistinctKeys
<1>7. /\ admin = [a \in Admins |-> Resting] /\ gate = NoGate /\ now = 0 /\ store = FirstStore
      /\ permit = [c \in Callers |-> NONE] /\ spent = [k \in Keys |-> << >>] /\ overrun = {}
  BY DEF Init
<1>8. TypeOK
  BY <1>1, <1>4, <1>5, <1>6, <1>7 DEF TypeOK, NoGate, Entry, AdminOK, AdminStates, PoolsOK
<1>. QED  BY <1>5, <1>6, <1>7, <1>8 DEF TypeInv, NoGate

\* Every variable keeps its type, if the store names no key twice at the start.
THEOREM LivePoolTypes ==
  ASSUME DistinctKeys(FirstStore)
  PROVE  Spec => []TypeOK
<1>1. TypeInv => TypeOK
  BY DEF TypeInv
<1>. QED  BY <1>1, TypeInvInitially, TypeInvInductive, PTL DEF Spec

-----------------------------------------------------------------------------
(***************************************************************************)
(* What the lanes of a pool know of what was spent on their keys: from     *)
(* some instant on, a lane's hits are the hits on its key (Tracks); what   *)
(* was spent was spent on a key of the pool (Covers).                      *)
(***************************************************************************)
Tracks(p, sp, from) ==
  \A i \in DOMAIN p : \A t \in Nat : from <= t => Prune(p[i].hits, t) = Prune(sp[p[i].key], t)

Covers(p, sp) == \A k \in Keys : sp[k] # << >> => \E i \in DOMAIN p : p[i].key = k

\* The rests in p are no longer in q.
Rests(p, q) ==
  \A i \in DOMAIN p : \A j \in DOMAIN q : p[i].key = q[j].key => p[i].cooldown <= q[j].cooldown

LEMMA CoversKin ==
  ASSUME NEW p, NEW q, Kin(p, q), NEW sp, Covers(p, sp)
  PROVE  Covers(q, sp)
BY DEF Kin, Covers

LEMMA TracksLater ==
  ASSUME NEW p, NEW sp, NEW from \in Nat, NEW to \in Nat, from <= to, Tracks(p, sp, from)
  PROVE  Tracks(p, sp, to)
BY DEF Tracks

\* A scan only drops hits that no later scan counts.
LEMMA TracksScanned ==
  ASSUME NEW p \in Seq(Lane), NEW q \in Seq(Lane), Kin(p, q), NEW sp,
         NEW t0 \in Nat, Tracks(p, sp, t0),
         \A i \in DOMAIN q : q[i].hits = p[i].hits \/ q[i].hits = Prune(p[i].hits, t0)
  PROVE  Tracks(q, sp, t0)
<1>1. ASSUME NEW i \in DOMAIN q, NEW t \in Nat, t0 <= t
      PROVE  Prune(q[i].hits, t) = Prune(sp[q[i].key], t)
  <2>1. i \in DOMAIN p /\ q[i].key = p[i].key
    BY DEF Kin
  <2>2. p[i] \in Lane
    BY <2>1
  <2>3. p[i].hits \in Seq(Nat)
    BY <2>2 DEF Lane
  <2>4. Prune(Prune(p[i].hits, t0), t) = Prune(p[i].hits, t)
    BY <1>1, <2>3, PruneTwice
  <2>5. Prune(q[i].hits, t) = Prune(p[i].hits, t)
    BY <2>4
  <2>. QED  BY <1>1, <2>1, <2>5 DEF Tracks
<1>. QED  BY <1>1 DEF Tracks

\* A grant finds the same room in the lane and on the key, and is noted on both.
LEMMA TracksGranted ==
  ASSUME NEW p, NEW q, Kin(p, q), DistinctKeys(p), NEW n \in DOMAIN p, NEW u \in Nat,
         NEW sp \in [Keys -> Seq(Nat)], p[n].key \in Keys, Tracks(p, sp, u), Covers(p, sp),
         q[n].hits = Hit(p[n].hits, u),
         \A i \in DOMAIN q : i # n => q[i] = p[i],
         NEW new, new = [sp EXCEPT ![p[n].key] = Hit(sp[p[n].key], u)]
  PROVE  /\ Tracks(q, new, u)
         /\ Covers(q, new)
         /\ HasRoom(p[n].hits, p[n].rpm, u) => HasRoom(sp[p[n].key], p[n].rpm, u)
<1>1. Prune(p[n].hits, u) = Prune(sp[p[n].key], u)
  BY DEF Tracks
<1>2. DOMAIN q = DOMAIN p /\ \A i \in DOMAIN q : q[i].key = p[i].key
  BY DEF Kin
<1>3. new[p[n].key] = Hit(sp[p[n].key], u) /\ \A k \in Keys : k # p[n].key => new[k] = sp[k]
  OBVIOUS
<1>4. q[n].hits = new[p[n].key]
  BY <1>1, <1>3 DEF Hit
<1>5. Tracks(q, new, u)
  <2>1. ASSUME NEW i \in DOMAIN q, i # n, NEW t \in Nat, u <= t
        PROVE  Prune(q[i].hits, t) = Prune(new[q[i].key], t)
    <3>1. q[i] = p[i] /\ p[i].key # p[n].key
      BY <1>2, <2>1 DEF DistinctKeys
    <3>2. new[p[i].key] = sp[p[i].key]
      BY <3>1
    <3>. QED  BY <1>2, <2>1, <3>1, <3>2 DEF Tracks
  <2>2. \A t \in Nat : Prune(q[n].hits, t) = Prune(new[q[n].key], t)
    BY <1>2, <1>4
  <2>. QED  BY <2>1, <2>2 DEF Tracks
<1>6. Covers(q, new)
  <2>1. ASSUME NEW k \in Keys, new[k] # << >>  PROVE \E i \in DOMAIN q : q[i].key = k
    <3>1. \E i \in DOMAIN p : p[i].key = k
      BY <1>3, <2>1 DEF Covers
    <3>. QED  BY <1>2, <3>1
  <2>. QED  BY <2>1 DEF Covers
<1>7. HasRoom(p[n].hits, p[n].rpm, u) => HasRoom(sp[p[n].key], p[n].rpm, u)
  BY <1>1 DEF HasRoom, Load
<1>. QED  BY <1>5, <1>6, <1>7

\* A rebuild that keeps every key knows what the pool it replaces knew, and no
\* rebuild shortens a rest.
LEMMA RebuiltKnows ==
  ASSUME NEW p \in Seq(Lane), DistinctKeys(p), NEW specs \in KeySpecs, DistinctKeys(specs)
  PROVE  /\ Rests(p, Rebuilt(p, specs))
         /\ \A sp \in [Keys -> Seq(Nat)], from \in Nat :
              /\ Tracks(p, sp, from) /\ Covers(p, sp)
              /\ \A i \in DOMAIN p : \E j \in DOMAIN specs : specs[j].key = p[i].key
              => Tracks(Rebuilt(p, specs), sp, from) /\ Covers(Rebuilt(p, specs), sp)
<1>. DEFINE q == Rebuilt(p, specs)
<1>1. /\ q \in Seq(Lane) /\ DOMAIN q = DOMAIN specs
      /\ \A i \in DOMAIN specs :
           /\ q[i].key = specs[i].key
           /\ \A j \in DOMAIN p : p[j].key = specs[i].key =>
                q[i].hits = p[j].hits /\ q[i].cooldown = p[j].cooldown
           /\ (\A j \in DOMAIN p : p[j].key # specs[i].key) => q[i].hits = << >>
  BY RebuiltCarries
<1>. HIDE DEF q
<1>2. \A i \in DOMAIN q : q[i].key \in Keys
  <2>1. \A i \in DOMAIN q : q[i] \in Lane
    BY <1>1
  <2>. QED  BY <2>1 DEF Lane
<1>3. Rests(p, q)
  <2>1. ASSUME NEW i \in DOMAIN p, NEW j \in DOMAIN q, p[i].key = q[j].key
        PROVE  p[i].cooldown <= q[j].cooldown
    <3>1. q[j].cooldown = p[i].cooldown
      BY <1>1, <2>1
    <3>2. p[i] \in Lane
      OBVIOUS
    <3>3. p[i].cooldown \in Nat
      BY <3>2 DEF Lane
    <3>. QED  BY <3>1, <3>3
  <2>. QED  BY <2>1 DEF Rests
<1>4. ASSUME NEW sp \in [Keys -> Seq(Nat)], NEW from \in Nat, Tracks(p, sp, from), Covers(p, sp),
             \A i \in DOMAIN p : \E j \in DOMAIN specs : specs[j].key = p[i].key
      PROVE  Tracks(q, sp, from) /\ Covers(q, sp)
  <2>1. Covers(q, sp)
    <3>1. ASSUME NEW k \in Keys, sp[k] # << >>  PROVE \E j \in DOMAIN q : q[j].key = k
      <4>1. PICK i \in DOMAIN p : p[i].key = k
        BY <1>4, <3>1 DEF Covers
      <4>2. PICK j \in DOMAIN specs : specs[j].key = p[i].key
        BY <1>4
      <4>. QED  BY <1>1, <4>1, <4>2
    <3>. QED  BY <3>1 DEF Covers
  <2>2. ASSUME NEW j \in DOMAIN q, NEW t \in Nat, from <= t
        PROVE  Prune(q[j].hits, t) = Prune(sp[q[j].key], t)
    <3>1. CASE \E i \in DOMAIN p : p[i].key = q[j].key
      <4>1. PICK i \in DOMAIN p : p[i].key = q[j].key
        BY <3>1
      <4>2. q[j].hits = p[i].hits
        BY <1>1, <4>1
      <4>. QED  BY <1>4, <2>2, <4>1, <4>2 DEF Tracks
    <3>2. CASE \A i \in DOMAIN p : p[i].key # q[j].key
      <4>1. q[j].hits = << >>
        BY <1>1, <3>2
      <4>2. sp[q[j].key] = << >>
        BY <1>2, <1>4, <3>2 DEF Covers
      <4>. QED  BY <4>1, <4>2
    <3>. QED  BY <3>1, <3>2
  <2>. QED  BY <2>1, <2>2 DEF Tracks
<1>5. \A sp \in [Keys -> Seq(Nat)], from \in Nat :
        /\ Tracks(p, sp, from) /\ Covers(p, sp)
        /\ \A i \in DOMAIN p : \E j \in DOMAIN specs : specs[j].key = p[i].key
        => Tracks(q, sp, from) /\ Covers(q, sp)
  BY <1>4
<1>. QED  BY <1>3, <1>5 DEF q

(***************************************************************************)
(* The key is held to its limit.  A lane's hits are those on its key from  *)
(* the instant at which the next grant would be dated; between a rebuild   *)
(* and the swap, the pool that was built knows as much as the live one.    *)
(***************************************************************************)
Base(g, n) == IF g.step = "chosen" THEN g.until ELSE n

BuiltKnows(ps, cur, sp, n, r) ==
  /\ r.pool \in Slots
  /\ Tracks(ps[r.pool], sp, n) /\ Covers(ps[r.pool], sp)
  /\ Rests(ps[cur], ps[r.pool])

TrackInv ==
  /\ overrun = {}
  /\ Tracks(pools[current], spent, Base(gate, now)) /\ Covers(pools[current], spent)
  /\ gate.step = "chosen" => gate.pool = current /\ gate.until <= now
  /\ \A a \in Admins : admin[a].step = "built" =>
       gate.step # "chosen" /\ BuiltKnows(pools, current, spent, now, admin[a])

\* A built pool is put in place at once, so there is never a second one.
LEMMA CalmSwaps ==
  ASSUME TypeInv, Next, Calm, NEW a \in Admins, admin[a].step = "built"
  PROVE  /\ Swap(a)
         /\ \A b \in Admins : admin'[b].step # "built"
         /\ pools'[current'] = pools[admin[a].pool]
<1>1. \A b \in Admins : admin[b].step = "built" => Swap(b)
  BY DEF Calm
<1>. DEFINE r == [Resting EXCEPT !.step = "applied"]
<1>2. admin \in [Admins -> AdminStates] /\ r.step = "applied"
  BY DEF TypeInv, TypeOK, AdminStates, Resting
<1>. HIDE DEF r
<1>3. \A b \in Admins : admin[b].step = "built" => admin' = [admin EXCEPT ![b] = r]
  BY <1>1 DEF Swap, r
<1>4. ASSUME NEW b \in Admins  PROVE admin'[b].step # "built"
  <2>1. CASE admin[b].step = "built"
    BY <1>2, <1>3, <2>1
  <2>2. CASE admin[b].step # "built"
    BY <1>2, <1>3, <2>2
  <2>. QED  BY <2>1, <2>2
<1>5. pools'[current'] = pools[admin[a].pool]
  <2>1. current' = admin[a].pool /\ pools' = Held(pools, {current', gate.pool} \cup BuiltBy(admin'))
    BY <1>1 DEF Swap
  <2>2. PoolsOK(pools) /\ admin[a].pool \in Slots
    BY DEF TypeInv, AdminOK
  <2>. DEFINE refs == {current', gate.pool} \cup BuiltBy(admin')
  <2>3. current' \in Slots \cap refs
    BY <2>1, <2>2
  <2>. HIDE DEF refs
  <2>4. \A s \in Slots \cap refs : Held(pools, refs)[s] = pools[s]
    BY <2>2, HeldPools
  <2>. QED  BY <2>1, <2>3, <2>4 DEF refs
<1>. QED  BY <1>1, <1>4, <1>5

LEMMA TrackInvInductive == TypeInv /\ TrackInv /\ [Next /\ Kept /\ Calm]_vars => TrackInv'
<1>. SUFFICES ASSUME TypeInv, TrackInv, [Next /\ Kept /\ Calm]_vars  PROVE TrackInv'
  OBVIOUS
<1>1. /\ now \in Nat /\ current \in Slots /\ PoolsOK(pools)
      /\ spent \in [Keys -> Seq(Nat)] /\ admin \in [Admins -> AdminStates]
      /\ gate.until \in Nat
  BY DEF TypeInv, TypeOK, AdminStates
<1>2. pools[current] \in Seq(Lane) /\ DistinctKeys(pools[current])
  BY <1>1 DEF PoolsOK
<1>3. Tracks(pools[current], spent, Base(gate, now)) /\ Covers(pools[current], spent) /\ overrun = {}
  BY DEF TrackInv
<1>4. gate.step # "chosen" => Tracks(pools[current], spent, now)
  BY <1>3 DEF Base
<1>5. CASE UNCHANGED vars
  BY <1>5 DEF vars, TrackInv
<1>. SUFFICES ASSUME Next, Kept, Calm  PROVE TrackInv'
  BY <1>5
<1>6. CASE \E a \in Admins : admin[a].step = "built"
  <2>1. PICK a \in Admins : admin[a].step = "built"
    BY <1>6
  <2>2. /\ Swap(a)
        /\ \A b \in Admins : admin'[b].step # "built"
        /\ pools'[current'] = pools[admin[a].pool]
    BY <2>1, CalmSwaps
  <2>3. gate.step # "chosen" /\ BuiltKnows(pools, current, spent, now, admin[a])
    BY <2>1 DEF TrackInv
  <2>4. gate' = gate /\ now' = now /\ spent' = spent /\ overrun' = overrun
    BY <2>2 DEF Swap
  <2>5. Tracks(pools'[current'], spent', Base(gate', now')) /\ Covers(pools'[current'], spent')
    BY <2>2, <2>3, <2>4 DEF Base, BuiltKnows
  <2>. QED  BY <1>3, <2>2, <2>3, <2>4, <2>5 DEF TrackInv
<1>7. CASE \A a \in Admins : admin[a].step # "built"
\* A request that builds nothing.
  <2>1. ASSUME NEW a \in Admins, NEW r, r.step # "built", admin' = [admin EXCEPT ![a] = r],
               UNCHANGED <<now, pools, current, gate, spent, overrun>>
        PROVE  TrackInv'
    <3>1. \A b \in Admins : admin'[b].step # "built"
      BY <1>1, <1>7, <2>1
    <3>. QED  BY <2>1, <3>1 DEF TrackInv
  <2>2. ASSUME NEW a \in Admins, EditKeys(a) \/ EditAliases(a) \/ Snapshot(a) \/ SaveFails(a)
        PROVE  TrackInv'
    <3>1. UNCHANGED <<now, pools, current, gate, spent, overrun>>
      BY <2>2 DEF EditKeys, EditAliases, Snapshot, SaveFails
    <3>2. \E r : r.step # "built" /\ admin' = [admin EXCEPT ![a] = r]
      <4>1. Resting.step # "built" /\ [Resting EXCEPT !.step = "edited"].step # "built"
        BY DEF Resting
      <4>2. CASE EditKeys(a)
        BY <4>1, <4>2 DEF EditKeys
      <4>3. CASE EditAliases(a) \/ SaveFails(a)
        BY <4>1, <4>3 DEF EditAliases, SaveFails
      <4>4. CASE Snapshot(a)
        <5>. DEFINE r == [admin[a] EXCEPT !.step = "saving", !.specs = LaneSpecs(store)]
        <5>1. admin' = [admin EXCEPT ![a] = r]
          BY <1>1, <4>4 DEF Snapshot
        <5>2. r.step = "saving"
          BY <1>1 DEF AdminStates
        <5>. QED  BY <5>1, <5>2
      <4>. QED  BY <2>2, <4>2, <4>3, <4>4
    <3>. QED  BY <2>1, <3>1, <3>2
  <2>3. ASSUME NEW a \in Admins, Rebuild(a)  PROVE TrackInv'
    <3>1. PICK s \in Slots :
            /\ s \notin {current, gate.pool} \cup BuiltBy(admin)
            /\ pools' = [pools EXCEPT ![s] = Rebuilt(pools[current], admin[a].specs)]
            /\ admin' = [admin EXCEPT ![a] = [step |-> "built", specs |-> << >>, pool |-> s]]
      BY <2>3 DEF Rebuild
    <3>2. UNCHANGED <<now, current, gate, spent, overrun>> /\ gate.step # "chosen"
      BY <2>3 DEF Rebuild, Calm
    <3>. DEFINE p == pools[current]
                specs == admin[a].specs
                q == Rebuilt(p, specs)
    <3>3. specs \in KeySpecs /\ DistinctKeys(specs)
      BY DEF TypeInv, AdminOK, AdminStates
    <3>4. \A i \in DOMAIN p : \E j \in DOMAIN specs : specs[j].key = p[i].key
      BY <2>3 DEF Kept
    <3>5. Rests(p, q) /\ Tracks(q, spent, now) /\ Covers(q, spent)
      <4>. HIDE DEF p, specs
      <4>. QED  BY <1>1, <1>2, <1>3, <1>4, <3>2, <3>3, <3>4, RebuiltKnows DEF p
    <3>. HIDE DEF q, specs
    <3>6. pools'[s] = q /\ pools'[current] = p
      BY <1>1, <3>1 DEF PoolsOK, q, specs
    <3>7. \A b \in Admins : admin'[b].step = "built" => admin'[b].pool = s
      BY <1>1, <1>7, <3>1
    <3>. HIDE DEF p
    <3>8. ASSUME NEW b \in Admins, admin'[b].step = "built"
          PROVE  BuiltKnows(pools', current', spent', now', admin'[b])
      BY <3>2, <3>5, <3>6, <3>7, <3>8 DEF BuiltKnows
    <3>9. Tracks(pools'[current'], spent', Base(gate', now')) /\ Covers(pools'[current'], spent')
      BY <1>3, <3>2, <3>6 DEF p
    <3>. QED  BY <1>3, <3>2, <3>8, <3>9 DEF TrackInv
  <2>4. ASSUME NEW a \in Admins, Swap(a)  PROVE FALSE
    BY <1>7, <2>4 DEF Swap
\* What is done on the way of a request: nothing is built.
  <2>5. ASSUME admin' = admin, current' = current, overrun' = {},
               Tracks(pools'[current], spent', Base(gate', now')), Covers(pools'[current], spent'),
               gate'.step = "chosen" => gate'.pool = current /\ gate'.until <= now'
        PROVE  TrackInv'
    BY <1>7, <2>5 DEF TrackInv
  <2>6. CASE Scan
    <3>1. PICK q \in Seq(Lane) :
            /\ pools' = Held([pools EXCEPT ![current] = q], {current} \cup BuiltBy(admin))
            /\ Kin(pools[current], q)
            /\ \A i \in DOMAIN q : \/ q[i].hits = pools[current][i].hits
                                   \/ q[i].hits = Prune(pools[current][i].hits, now)
      BY <2>6, ScanPools
    <3>2. pools'[current] = q
      <4>1. PoolsOK([pools EXCEPT ![current] = q]) /\ [pools EXCEPT ![current] = q][current] = q
        BY <1>1, <3>1, ReplacedPool
      <4>. DEFINE refs == {current} \cup BuiltBy(admin)
                  ps == [pools EXCEPT ![current] = q]
      <4>2. current \in Slots \cap refs
        BY <1>1
      <4>. HIDE DEF refs, ps
      <4>3. \A s \in Slots \cap refs : Held(ps, refs)[s] = ps[s]
        BY <4>1, HeldPools DEF ps
      <4>. QED  BY <3>1, <4>1, <4>2, <4>3 DEF refs, ps
    <3>3. gate.step # "chosen" /\ UNCHANGED <<now, current, admin, spent, overrun>>
      BY <2>6 DEF Scan
    <3>4. Tracks(q, spent, now)
      BY <1>1, <1>2, <1>4, <3>1, <3>3, TracksScanned
    <3>5. Covers(q, spent)
      BY <1>3, <3>1, CoversKin
    <3>6. Base(gate', now') = now /\ (gate'.step = "chosen" => gate'.pool = current /\ gate'.until <= now')
      <4>1. CASE WithRoom(current) # {}
        <5>1. PICK i \in WithRoom(current) :
                gate' = [step |-> "chosen", pool |-> current, lane |-> i, until |-> now]
          BY <2>6, <4>1 DEF Scan
        <5>. QED  BY <1>1, <3>3, <5>1 DEF Base
      <4>2. CASE WithRoom(current) = {}
        <5>1. PICK t \in Reopenings(current) :
                gate' = [step |-> "asleep", pool |-> current, lane |-> 0, until |-> t]
          BY <2>6, <4>2 DEF Scan
        <5>. QED  BY <3>3, <5>1 DEF Base
      <4>. QED  BY <4>1, <4>2
    <3>. QED  BY <1>3, <2>5, <3>2, <3>3, <3>4, <3>5, <3>6
  <2>7. CASE Dropped
    <3>1. PoolsOK(pools) /\ current \in Slots \cap ({current} \cup BuiltBy(admin))
      BY <1>1
    <3>2. pools'[current] = pools[current]
      BY <2>7, <3>1, HeldPools DEF Dropped
    <3>3. gate.step = "asleep" /\ gate' = NoGate /\ UNCHANGED <<now, current, admin, spent, overrun>>
      BY <2>7 DEF Dropped
    <3>4. Base(gate', now') = now /\ gate'.step # "chosen"
      BY <3>3 DEF Base, NoGate
    <3>. QED  BY <1>3, <1>4, <2>5, <3>2, <3>3, <3>4
  <2>8. ASSUME NEW c \in Callers, Grant(c)  PROVE TrackInv'
    <3>. DEFINE p == pools[current]
                n == gate.lane
                u == gate.until
                k == p[n].key
    <3>1. gate.step = "chosen" /\ gate.pool = current /\ u \in Nat /\ u <= now
      BY <1>1, <2>8 DEF Grant, TrackInv
    <3>2. n \in DOMAIN p /\ k \in Keys
      <4>1. n \in DOMAIN p
        BY <3>1 DEF TypeInv
      <4>2. p[n] \in Lane
        BY <1>2, <4>1
      <4>. QED  BY <4>1, <4>2 DEF Lane
    <3>3. PICK q \in Seq(Lane) :
            /\ pools' = Held([pools EXCEPT ![current] = q], {current} \cup BuiltBy(admin))
            /\ Kin(p, q)
            /\ q[n].hits = Hit(p[n].hits, u)
            /\ \A i \in DOMAIN q : i # n => q[i] = p[i]
      BY <2>8, <3>1, GrantPools
    <3>4. pools'[current] = q
      <4>1. PoolsOK([pools EXCEPT ![current] = q]) /\ [pools EXCEPT ![current] = q][current] = q
        BY <1>1, <3>3, ReplacedPool
      <4>. DEFINE refs == {current} \cup BuiltBy(admin)
                  ps == [pools EXCEPT ![current] = q]
      <4>2. current \in Slots \cap refs
        BY <1>1
      <4>. HIDE DEF refs, ps
      <4>3. \A s \in Slots \cap refs : Held(ps, refs)[s] = ps[s]
        BY <4>1, HeldPools DEF ps
      <4>. QED  BY <3>3, <4>1, <4>2, <4>3 DEF refs, ps
    <3>5. /\ HasRoom(p[n].hits, p[n].rpm, u)
          /\ spent' = [spent EXCEPT ![k] = Hit(spent[k], u)]
          /\ HasRoom(spent[k], p[n].rpm, u) => overrun' = overrun
          /\ gate' = NoGate /\ UNCHANGED <<now, current, admin>>
      BY <2>8, <3>1 DEF Grant
    <3>6. Tracks(p, spent, u) /\ Covers(p, spent)
      BY <1>3, <3>1 DEF Base
    <3>. DEFINE new == [spent EXCEPT ![k] = Hit(spent[k], u)]
    <3>7. /\ Tracks(q, new, u) /\ Covers(q, new)
          /\ HasRoom(p[n].hits, p[n].rpm, u) => HasRoom(spent[k], p[n].rpm, u)
      <4>1. DistinctKeys(p)
        BY <1>2
      <4>. HIDE DEF p, n, u
      <4>2. ASSUME NEW sp, sp = new
            PROVE  /\ Tracks(q, sp, u) /\ Covers(q, sp)
                   /\ HasRoom(p[n].hits, p[n].rpm, u) => HasRoom(spent[p[n].key], p[n].rpm, u)
        <5>1. sp = [spent EXCEPT ![p[n].key] = Hit(spent[p[n].key], u)]
          BY <4>2
        <5>. HIDE DEF new, k
        <5>. QED  BY <1>1, <3>1, <3>2, <3>3, <3>6, <4>1, <5>1, TracksGranted DEF k
      <4>. HIDE DEF new
      <4>. QED  BY <4>2
    <3>. HIDE DEF p, n, u
    <3>. HIDE DEF new, k
    <3>8. spent' = new
      BY <3>5 DEF new
    <3>9. Tracks(q, new, now)
      BY <1>1, <3>1, <3>7, TracksLater
    <3>10. Base(gate', now') = now /\ gate'.step # "chosen"
      BY <3>5 DEF Base, NoGate
    <3>. QED  BY <1>3, <2>5, <3>4, <3>5, <3>7, <3>8, <3>9, <3>10
  <2>9. ASSUME NEW c \in Callers, Answered(c)  PROVE TrackInv'
    BY <1>3, <2>5, <2>9 DEF Answered, TrackInv
  <2>10. ASSUME NEW c \in Callers, NEW b \in Backoffs, Rebuff(c, b)  PROVE TrackInv'
    <3>1. PICK q \in Seq(Lane) :
            /\ pools' = [pools EXCEPT ![current] = q]
            /\ Kin(pools[current], q)
            /\ \A i \in DOMAIN q : q[i].hits = pools[current][i].hits
      BY <2>10, RebuffPools
    <3>2. pools'[current] = q /\ UNCHANGED <<now, current, admin, gate, spent, overrun>>
      BY <1>1, <2>10, <3>1 DEF PoolsOK, Rebuff
    <3>3. Tracks(q, spent, Base(gate, now))
      BY <1>3, <3>1 DEF Tracks, Kin
    <3>4. Covers(q, spent)
      BY <1>3, <3>1, CoversKin
    <3>. QED  BY <1>3, <2>5, <3>2, <3>3, <3>4 DEF TrackInv
  <2>11. CASE Tick
    <3>1. now' = now + 1 /\ UNCHANGED <<pools, current, admin, gate, spent, overrun>>
      BY <2>11 DEF Tick
    <3>2. Base(gate, now) \in Nat /\ Base(gate', now') \in Nat /\ Base(gate, now) <= Base(gate', now')
      BY <1>1, <3>1 DEF Base
    <3>3. Tracks(pools[current], spent, Base(gate', now'))
      <4>. DEFINE from == Base(gate, now)
      <4>1. ASSUME NEW to \in Nat, to = Base(gate', now')  PROVE Tracks(pools[current], spent, to)
        <5>1. from \in Nat /\ from <= to /\ Tracks(pools[current], spent, from)
          BY <1>3, <3>2, <4>1
        <5>. HIDE DEF from
        <5>. QED  BY <5>1, TracksLater
      <4>. QED  BY <3>2, <4>1
    <3>4. gate'.step = "chosen" => gate'.pool = current /\ gate'.until <= now'
      BY <1>1, <3>1 DEF TrackInv
    <3>. QED  BY <1>3, <2>5, <3>1, <3>3, <3>4
  <2>. QED
    BY <2>2, <2>3, <2>4, <2>6, <2>7, <2>8, <2>9, <2>10, <2>11
    DEF Next, ServeStep, AdminStep
<1>. QED  BY <1>6, <1>7

LEMMA TrackInvInitially == Init /\ TypeInv => TrackInv
<1>. SUFFICES ASSUME Init, TypeInv  PROVE TrackInv
  OBVIOUS
<1>. DEFINE specs == LaneSpecs(FirstStore)
            first == Rebuilt(<< >>, specs)
<1>1. /\ pools[current] = first
      /\ spent = [k \in Keys |-> << >>] /\ overrun = {}
      /\ gate.step = "free" /\ \A a \in Admins : admin[a].step # "built"
  BY DEF Init, NoGate, Resting
<1>2. \A i \in DOMAIN first : first[i].hits = << >>
  BY DEF Rebuilt, Fresh
<1>3. first \in Seq(Lane)
  BY <1>1 DEF TypeInv, TypeOK, Init
<1>. HIDE DEF first
<1>4. \A i \in DOMAIN first : first[i].key \in Keys
  <2>1. \A i \in DOMAIN first : first[i] \in Lane
    BY <1>3
  <2>. QED  BY <2>1 DEF Lane
<1>5. Tracks(first, spent, Base(gate, now))
  BY <1>1, <1>2, <1>4 DEF Tracks
<1>6. Covers(first, spent)
  BY <1>1 DEF Covers
<1>. QED  BY <1>1, <1>5, <1>6 DEF TrackInv

\* No key is granted more than its limit in a window, across any number of rebuilds and
\* swaps, with any number of settings requests and callers: as long as each rebuild keeps
\* the keys of the live pool and nothing happens between it and its swap.
THEOREM KeyHeldAcrossSwaps ==
  ASSUME DistinctKeys(FirstStore)
  PROVE  KeptCalmSpec => []KeyHeldToItsLimit
<1>1. Init => TypeInv /\ TrackInv
  BY TypeInvInitially, TrackInvInitially
<1>2. TypeInv /\ TrackInv /\ [Next /\ Kept /\ Calm]_vars => (TypeInv /\ TrackInv)'
  BY TypeInvInductive, TrackInvInductive
<1>3. TypeInv /\ TrackInv => KeyHeldToItsLimit
  BY DEF TrackInv, KeyHeldToItsLimit
<1>. QED  BY <1>1, <1>2, <1>3, PTL DEF KeptCalmSpec

-----------------------------------------------------------------------------
(***************************************************************************)
(* The rest of a key.  This needs no key to be kept: what was built knows  *)
(* every rest of the live pool, and is put in place at once.               *)
(***************************************************************************)
RestInv ==
  \A a \in Admins : admin[a].step = "built" =>
    admin[a].pool \in Slots /\ Rests(pools[current], pools[admin[a].pool])

LEMMA RestInvInductive == TypeInv /\ RestInv /\ [Next /\ Calm]_vars => RestInv'
<1>. SUFFICES ASSUME TypeInv, RestInv, [Next /\ Calm]_vars  PROVE RestInv'
  OBVIOUS
<1>1. CASE UNCHANGED vars
  BY <1>1 DEF vars, RestInv
<1>. SUFFICES ASSUME Next, Calm  PROVE RestInv'
  BY <1>1
<1>2. /\ current \in Slots /\ PoolsOK(pools) /\ admin \in [Admins -> AdminStates]
  BY DEF TypeInv, TypeOK, AdminStates
<1>3. CASE \E a \in Admins : admin[a].step = "built"
  BY <1>3, CalmSwaps DEF RestInv
<1>4. CASE \A a \in Admins : admin[a].step # "built"
  <2>1. ASSUME NEW a \in Admins, Rebuild(a)  PROVE RestInv'
    <3>1. PICK s \in Slots :
            /\ s \notin {current, gate.pool} \cup BuiltBy(admin)
            /\ pools' = [pools EXCEPT ![s] = Rebuilt(pools[current], admin[a].specs)]
            /\ admin' = [admin EXCEPT ![a] = [step |-> "built", specs |-> << >>, pool |-> s]]
      BY <2>1 DEF Rebuild
    <3>. DEFINE p == pools[current]
                specs == admin[a].specs
                q == Rebuilt(p, specs)
    <3>2. specs \in KeySpecs /\ DistinctKeys(specs) /\ p \in Seq(Lane) /\ DistinctKeys(p)
      BY DEF TypeInv, TypeOK, AdminOK, AdminStates, PoolsOK
    <3>3. Rests(p, q)
      <4>. HIDE DEF p, specs
      <4>. QED  BY <3>2, RebuiltKnows
    <3>. HIDE DEF q, specs
    <3>4. pools'[s] = q /\ pools'[current] = p /\ current' = current
      BY <1>2, <2>1, <3>1 DEF PoolsOK, q, specs, Rebuild
    <3>5. \A b \in Admins : admin'[b].step = "built" => admin'[b].pool = s
      BY <1>2, <1>4, <3>1
    <3>. QED  BY <3>3, <3>4, <3>5 DEF RestInv
  <2>2. ASSUME \E a \in Admins : EditKeys(a) \/ EditAliases(a) \/ Snapshot(a) \/ SaveFails(a)
        PROVE  \A b \in Admins : admin'[b].step # "built"
    <3>1. PICK a \in Admins : EditKeys(a) \/ EditAliases(a) \/ Snapshot(a) \/ SaveFails(a)
      BY <2>2
    <3>2. CASE Snapshot(a)
      BY <1>2, <1>4, <3>2 DEF Snapshot, AdminStates
    <3>3. CASE ~Snapshot(a)
      <4>1. Resting.step # "built" /\ [Resting EXCEPT !.step = "edited"].step # "built"
        BY DEF Resting
      <4>2. \E r : r.step # "built" /\ admin' = [admin EXCEPT ![a] = r]
        BY <3>1, <3>3, <4>1 DEF EditKeys, EditAliases, SaveFails
      <4>. QED  BY <1>2, <1>4, <4>2
    <3>. QED  BY <3>2, <3>3
  <2>3. ASSUME NEW a \in Admins, Swap(a)  PROVE FALSE
    BY <1>4, <2>3 DEF Swap
  <2>4. CASE Tick \/ ServeStep
    <3>1. admin' = admin
      BY <2>4 DEF Tick, ServeStep, Scan, Dropped, Grant, Answered, Rebuff
    <3>. QED  BY <1>4, <3>1 DEF RestInv
  <2>. QED  BY <2>1, <2>2, <2>3, <2>4 DEF Next, AdminStep, RestInv
<1>. QED  BY <1>3, <1>4

\* A swap never cuts short the rest of a key, whatever is edited meanwhile, as long as
\* nothing happens between the rebuild and its swap.
THEOREM RestIsCarried ==
  ASSUME DistinctKeys(FirstStore)
  PROVE  CalmSpec => RestSurvivesSwap
<1>1. Init => TypeInv /\ RestInv
  <2>1. Init => RestInv
    BY DEF Init, RestInv, Resting
  <2>. QED  BY <2>1, TypeInvInitially
<1>2. TypeInv /\ RestInv /\ [Next /\ Calm]_vars => (TypeInv /\ RestInv)'
  BY TypeInvInductive, RestInvInductive
<1>. DEFINE Carried ==
       current' # current =>
         \A i \in DOMAIN pools[current] : \A j \in DOMAIN pools'[current'] :
           pools[current][i].key = pools'[current'][j].key
             => pools[current][i].cooldown <= pools'[current'][j].cooldown
<1>3. TypeInv /\ RestInv /\ [Next /\ Calm]_vars => [Carried]_vars
  <2>. SUFFICES ASSUME TypeInv, RestInv, Next, Calm, current' # current  PROVE Carried
    OBVIOUS
  <2>1. PICK a \in Admins : Swap(a)
    BY DEF Next, AdminStep, EditKeys, EditAliases, Snapshot, SaveFails, Rebuild, Tick, ServeStep,
           Scan, Dropped, Grant, Answered, Rebuff
  <2>2. admin[a].step = "built"
    BY <2>1 DEF Swap
  <2>3. pools'[current'] = pools[admin[a].pool]
    BY <2>2, CalmSwaps
  <2>4. Rests(pools[current], pools[admin[a].pool])
    BY <2>2 DEF RestInv
  <2>. QED  BY <2>3, <2>4 DEF Rests
<1>. HIDE DEF Carried
<1>4. CalmSpec => [][Carried]_vars
  BY <1>1, <1>2, <1>3, PTL DEF CalmSpec
<1>. QED  BY <1>4 DEF Carried, RestSurvivesSwap

-----------------------------------------------------------------------------
(***************************************************************************)
(* What was applied last is live.  A single settings request is followed   *)
(* from its snapshot over the pool it built to the swap; the lanes of a    *)
(* pool are spent meanwhile, and stay.                                     *)
(***************************************************************************)
SpecsOf(p) == [i \in DOMAIN p |-> LaneSpec(p[i])]

LiveInv ==
  \A a \in Admins :
    /\ admin[a].step = "saving" => admin[a].specs = LaneSpecs(store)
    /\ admin[a].step = "built" => SpecsOf(pools[admin[a].pool]) = LaneSpecs(store)
    /\ admin[a].step = "applied" => SpecsOf(pools[current]) = LaneSpecs(store)

LEMMA SpecsOfKin ==
  ASSUME NEW p, NEW q, Kin(p, q)
  PROVE  SpecsOf(q) = SpecsOf(p)
BY DEF Kin, SpecsOf, LaneSpec

LEMMA SpecsOfRebuilt ==
  ASSUME NEW old \in Seq(Lane), DistinctKeys(old), NEW specs \in KeySpecs, DistinctKeys(specs)
  PROVE  SpecsOf(Rebuilt(old, specs)) = specs
<1>. DEFINE q == Rebuilt(old, specs)
            Wanted == [key : Keys, rpm : Nat]
<1>1. DOMAIN q = DOMAIN specs /\ \A i \in DOMAIN specs : q[i].key = specs[i].key /\ q[i].rpm = specs[i].rpm
  BY RebuiltCarries
<1>. HIDE DEF q
<1>2. specs = [i \in DOMAIN specs |-> specs[i]] /\ \A i \in DOMAIN specs : specs[i] \in Wanted
  <2>1. specs \in Seq(Wanted)
    BY DEF KeySpecs
  <2>. HIDE DEF Wanted
  <2>. QED  BY <2>1
<1>3. \A i \in DOMAIN specs : LaneSpec(q[i]) = specs[i]
  BY <1>1, <1>2 DEF LaneSpec
<1>4. SpecsOf(q) = specs
  BY <1>1, <1>2, <1>3 DEF SpecsOf
<1>. QED  BY <1>4 DEF q

LEMMA LiveInvInductive ==
  ASSUME NEW a, Admins = {a}
  PROVE  TypeInv /\ LiveInv /\ [Next]_vars => LiveInv'
<1>. SUFFICES ASSUME TypeInv, LiveInv, [Next]_vars  PROVE LiveInv'
  OBVIOUS
<1>1. /\ current \in Slots /\ PoolsOK(pools) /\ admin \in [{a} -> AdminStates] /\ AdminOK(admin[a])
  BY DEF TypeInv, TypeOK, AdminStates
<1>2. /\ admin[a].step = "saving" => admin[a].specs = LaneSpecs(store)
      /\ admin[a].step = "built" => SpecsOf(pools[admin[a].pool]) = LaneSpecs(store)
      /\ admin[a].step = "applied" => SpecsOf(pools[current]) = LaneSpecs(store)
  BY DEF LiveInv
<1>3. ASSUME UNCHANGED <<store, current, admin>>,
             \A s \in Slots \cap ({current} \cup BuiltBy(admin)) : SpecsOf(pools'[s]) = SpecsOf(pools[s])
      PROVE  LiveInv'
  <2>1. SpecsOf(pools'[current]) = SpecsOf(pools[current])
    BY <1>1, <1>3
  <2>2. admin[a].step = "built" => SpecsOf(pools'[admin[a].pool]) = SpecsOf(pools[admin[a].pool])
    BY <1>1, <1>3 DEF AdminOK, BuiltBy
  <2>3. ASSUME NEW b \in Admins
        PROVE  /\ admin'[b].step = "saving" => admin'[b].specs = LaneSpecs(store')
               /\ admin'[b].step = "built" => SpecsOf(pools'[admin'[b].pool]) = LaneSpecs(store')
               /\ admin'[b].step = "applied" => SpecsOf(pools'[current']) = LaneSpecs(store')
    BY <1>2, <1>3, <2>1, <2>2
  <2>. QED  BY <2>3 DEF LiveInv
<1>4. ASSUME NEW r, admin' = [admin EXCEPT ![a] = r],
             r.step = "saving" => r.specs = LaneSpecs(store'),
             r.step = "built" => SpecsOf(pools'[r.pool]) = LaneSpecs(store'),
             r.step = "applied" => SpecsOf(pools'[current']) = LaneSpecs(store')
      PROVE  LiveInv'
  <2>1. \A b \in Admins : admin'[b] = r
    BY <1>1, <1>4
  <2>2. ASSUME NEW b \in Admins
        PROVE  /\ admin'[b].step = "saving" => admin'[b].specs = LaneSpecs(store')
               /\ admin'[b].step = "built" => SpecsOf(pools'[admin'[b].pool]) = LaneSpecs(store')
               /\ admin'[b].step = "applied" => SpecsOf(pools'[current']) = LaneSpecs(store')
    BY <1>4, <2>1
  <2>. QED  BY <2>2 DEF LiveInv
<1>5. CASE EditKeys(a) \/ EditAliases(a) \/ SaveFails(a)
  <2>. DEFINE e == [Resting EXCEPT !.step = "edited"]
              r == IF admin' = [admin EXCEPT ![a] = e] THEN e ELSE Resting
  <2>1. Resting.step = "idle" /\ e.step = "edited"
    BY DEF Resting
  <2>2. admin' = [admin EXCEPT ![a] = Resting] \/ admin' = [admin EXCEPT ![a] = e]
    BY <1>5 DEF EditKeys, EditAliases, SaveFails
  <2>. HIDE DEF e
  <2>3. admin' = [admin EXCEPT ![a] = r]
    BY <2>2, Zenon
  <2>4. r.step \in {"idle", "edited"}
    BY <2>1
  <2>. HIDE DEF r
  <2>. QED  BY <1>4, <2>3, <2>4
<1>6. CASE Snapshot(a)
  <2>. DEFINE specs == LaneSpecs(store)
              r == [admin[a] EXCEPT !.step = "saving", !.specs = specs]
  <2>1. admin' = [admin EXCEPT ![a] = r] /\ store' = store
    BY <1>1, <1>6 DEF Snapshot
  <2>. HIDE DEF specs
  <2>2. r.step = "saving" /\ r.specs = specs
    BY <1>1 DEF AdminStates
  <2>. HIDE DEF r
  <2>. QED  BY <1>4, <2>1, <2>2 DEF specs
<1>7. CASE Rebuild(a)
  <2>1. PICK s \in Slots :
          /\ s \notin {current, gate.pool} \cup BuiltBy(admin)
          /\ pools' = [pools EXCEPT ![s] = Rebuilt(pools[current], admin[a].specs)]
          /\ admin' = [admin EXCEPT ![a] = [step |-> "built", specs |-> << >>, pool |-> s]]
    BY <1>7 DEF Rebuild
  <2>. DEFINE p == pools[current]
              specs == admin[a].specs
              q == Rebuilt(p, specs)
              r == [step |-> "built", specs |-> << >>, pool |-> s]
  <2>2. specs \in KeySpecs /\ DistinctKeys(specs) /\ p \in Seq(Lane) /\ DistinctKeys(p)
    BY <1>1 DEF AdminOK, AdminStates, PoolsOK
  <2>3. SpecsOf(q) = specs /\ specs = LaneSpecs(store)
    <3>1. specs = LaneSpecs(store)
      BY <1>2, <1>7 DEF Rebuild
    <3>. HIDE DEF p, specs
    <3>. QED  BY <2>2, <3>1, SpecsOfRebuilt
  <2>. HIDE DEF p, specs, q
  <2>4. pools'[s] = q /\ store' = store /\ r.step = "built" /\ r.pool = s
    BY <1>1, <1>7, <2>1 DEF PoolsOK, q, p, specs, Rebuild
  <2>5. admin' = [admin EXCEPT ![a] = r]
    BY <2>1
  <2>. HIDE DEF r
  <2>. QED  BY <1>4, <2>3, <2>4, <2>5
<1>8. CASE Swap(a)
  <2>. DEFINE r == [Resting EXCEPT !.step = "applied"]
              refs == {current', gate.pool} \cup BuiltBy(admin')
  <2>1. /\ current' = admin[a].pool /\ admin[a].step = "built" /\ store' = store
        /\ admin' = [admin EXCEPT ![a] = r] /\ pools' = Held(pools, refs)
    BY <1>8 DEF Swap
  <2>2. current' \in Slots \cap refs
    BY <1>1, <2>1 DEF AdminOK
  <2>3. r.step = "applied"
    BY DEF Resting
  <2>. HIDE DEF r, refs
  <2>4. pools'[current'] = pools[admin[a].pool]
    BY <1>1, <2>1, <2>2, HeldPools
  <2>. QED  BY <1>2, <1>4, <2>1, <2>3, <2>4
<1>9. ASSUME NEW s \in Slots, NEW q \in Seq(Lane), Kin(pools[s], q),
             pools' = Held([pools EXCEPT ![s] = q], {current} \cup BuiltBy(admin)),
             UNCHANGED <<store, current, admin>>
      PROVE  LiveInv'
  <2>. DEFINE ps == [pools EXCEPT ![s] = q]
              refs == {current} \cup BuiltBy(admin)
  <2>1. PoolsOK(ps) /\ \A r \in Slots : Kin(pools[r], ps[r])
    BY <1>1, <1>9, ReplacedPool
  <2>. HIDE DEF ps
  <2>2. \A r \in Slots \cap refs : pools'[r] = ps[r]
    <3>. HIDE DEF refs
    <3>. QED  BY <1>9, <2>1, HeldPools DEF ps, refs
  <2>3. \A r \in Slots \cap refs : SpecsOf(pools'[r]) = SpecsOf(pools[r])
    BY <2>1, <2>2, SpecsOfKin
  <2>. QED  BY <1>3, <1>9, <2>3
<1>10. CASE Scan
  <2>1. PICK q \in Seq(Lane) :
          /\ pools' = Held([pools EXCEPT ![current] = q], {current} \cup BuiltBy(admin))
          /\ Kin(pools[current], q)
    BY <1>10, ScanPools
  <2>2. UNCHANGED <<store, current, admin>>
    BY <1>10 DEF Scan
  <2>. QED  BY <1>1, <1>9, <2>1, <2>2
<1>11. ASSUME NEW c \in Callers, Grant(c)  PROVE LiveInv'
  <2>1. PICK q \in Seq(Lane) :
          /\ pools' = Held([pools EXCEPT ![gate.pool] = q], {current} \cup BuiltBy(admin))
          /\ Kin(pools[gate.pool], q)
    BY <1>11, GrantPools
  <2>2. UNCHANGED <<store, current, admin>> /\ gate.pool \in Slots
    BY <1>11 DEF Grant, TypeInv
  <2>. QED  BY <1>1, <1>9, <2>1, <2>2
<1>12. CASE Dropped
  <2>1. \A r \in Slots \cap ({current} \cup BuiltBy(admin)) : pools'[r] = pools[r]
    BY <1>1, <1>12, HeldPools DEF Dropped
  <2>. QED  BY <1>3, <1>12, <2>1 DEF Dropped
<1>13. ASSUME NEW c \in Callers, NEW b \in Backoffs, Rebuff(c, b)  PROVE LiveInv'
  <2>1. PICK q \in Seq(Lane) : pools' = [pools EXCEPT ![current] = q] /\ Kin(pools[current], q)
    BY <1>13, RebuffPools
  <2>2. \A r \in Slots : Kin(pools[r], [pools EXCEPT ![current] = q][r])
    BY <1>1, <2>1, ReplacedPool
  <2>3. \A r \in Slots : SpecsOf(pools'[r]) = SpecsOf(pools[r])
    BY <2>1, <2>2, SpecsOfKin
  <2>. QED  BY <1>3, <1>13, <2>3 DEF Rebuff
<1>14. CASE UNCHANGED <<store, current, admin, pools>>
  BY <1>3, <1>14
<1>15. ASSUME Tick \/ (\E c \in Callers : Answered(c)) \/ UNCHANGED vars
       PROVE  UNCHANGED <<store, current, admin, pools>>
  BY <1>15 DEF Tick, Answered, vars
<1>. QED
  BY <1>5, <1>6, <1>7, <1>8, <1>10, <1>11, <1>12, <1>13, <1>14, <1>15
  DEF Next, ServeStep, AdminStep

\* When the one settings request that may be under way has been applied, the live pool is
\* what the store says, however requests are served meanwhile and whatever failed before.
\* (Of two, the older snapshot may be put in place last.)
THEOREM AppliedStaysLive ==
  ASSUME NEW a, Admins = {a}, DistinctKeys(FirstStore)
  PROVE  Spec => []AppliedIsLive
<1>1. Init => TypeInv /\ LiveInv
  <2>1. Init => LiveInv
    BY DEF Init, LiveInv, Resting
  <2>. QED  BY <2>1, TypeInvInitially
<1>2. TypeInv /\ LiveInv /\ [Next]_vars => (TypeInv /\ LiveInv)'
  BY TypeInvInductive, LiveInvInductive
<1>3. LiveInv => AppliedIsLive
  BY DEF LiveInv, AppliedIsLive, SpecsOf
<1>. QED  BY <1>1, <1>2, <1>3, PTL DEF Spec

=============================================================================
