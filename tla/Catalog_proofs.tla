---------------------------- MODULE Catalog_proofs ----------------------------
(***************************************************************************)
(* Slots are conserved and the cap is never overshot: for any number of    *)
(* requests, any caps, and any way requests end.  The answers to requests  *)
(* for the model list blank out no provider whose list was known, and are  *)
(* the union of the lists, for any lists.                                  *)
(***************************************************************************)
EXTENDS Catalog, FiniteSetTheorems, SequenceTheorems, FunctionTheorems,
        WellFoundedInduction, TLAPS

AdmissionInv == TypeOK /\ SlotsConserved

LEMMA PhasesFinite ==
  ASSUME NEW phase PROVE IsFiniteSet(In(phase)) /\ Cardinality(In(phase)) \in Nat
<1>1. In(phase) \subseteq Requests
  BY DEF In
<1>. QED  BY <1>1, AdmissionAssumption, FS_Subset, FS_CardinalityType

\* What a request that changes its phase does to the size of the phases.
LEMMA PhaseMoves ==
  ASSUME TypeOK, NEW r \in Requests, NEW to,
         pc' = [pc EXCEPT ![r] = to], pc[r] # to,
         NEW phase
  PROVE  Cardinality(In(phase)') =
           IF phase = to THEN Cardinality(In(phase)) + 1
           ELSE IF phase = pc[r] THEN Cardinality(In(phase)) - 1
           ELSE Cardinality(In(phase))
<1>1. IsFiniteSet(In(phase))
  BY PhasesFinite
<1>2. CASE phase = to
  <2>1. In(phase)' = In(phase) \cup {r} /\ r \notin In(phase)
    BY <1>2 DEF In, TypeOK
  <2>. QED  BY <1>1, <1>2, <2>1, FS_AddElement
<1>3. CASE phase # to /\ phase = pc[r]
  <2>1. In(phase)' = In(phase) \ {r} /\ r \in In(phase)
    BY <1>3 DEF In, TypeOK
  <2>. QED  BY <1>1, <1>3, <2>1, FS_RemoveElement
<1>4. CASE phase # to /\ phase # pc[r]
  <2>1. In(phase)' = In(phase)
    BY <1>4 DEF In, TypeOK
  <2>. QED  BY <1>4, <2>1
<1>. QED  BY <1>2, <1>3, <1>4

LEMMA AdmissionInvInductive == AdmissionInv /\ [Next]_vars => AdmissionInv'
<1>. SUFFICES ASSUME AdmissionInv, [Next]_vars PROVE AdmissionInv'
  OBVIOUS
<1>. USE AdmissionAssumption DEF AdmissionInv
<1>0. /\ Cardinality(In("held")) \in Nat /\ Cardinality(In("refused")) \in Nat
      /\ (pc' = pc => In("held")' = In("held") /\ In("refused")' = In("refused"))
  BY PhasesFinite DEF In
<1>1. CASE SetMax
  BY <1>0, <1>1 DEF SetMax, TypeOK, SlotsConserved
<1>2. ASSUME NEW r \in Requests, ReadCap(r) PROVE AdmissionInv'
  <2>1. TypeOK'
    BY <1>2 DEF ReadCap, TypeOK
  <2>2. Cardinality(In("held")') = Cardinality(In("held"))
    BY <1>2, PhaseMoves, Zenon DEF ReadCap
  <2>3. Cardinality(In("refused")') = Cardinality(In("refused"))
    BY <1>2, PhaseMoves, Zenon DEF ReadCap
  <2>. QED  BY <1>2, <2>1, <2>2, <2>3 DEF ReadCap, SlotsConserved
<1>3. ASSUME NEW r \in Requests, Claim(r) PROVE AdmissionInv'
  <2>1. TypeOK'
    BY <1>3 DEF Claim, TypeOK
  <2>2. PICK to \in {"held", "refused"} : pc' = [pc EXCEPT ![r] = to]
    BY <1>3 DEF Claim
  <2>3. pc[r] = "asking" /\ inflight' = inflight + 1
    BY <1>3 DEF Claim
  <2>4. \A phase : Cardinality(In(phase)') =
           IF phase = to THEN Cardinality(In(phase)) + 1
           ELSE IF phase = pc[r] THEN Cardinality(In(phase)) - 1
           ELSE Cardinality(In(phase))
    BY <2>2, <2>3, PhaseMoves
  <2>5. CASE to = "held"
    BY <1>0, <2>1, <2>3, <2>4, <2>5 DEF SlotsConserved
  <2>6. CASE to = "refused"
    BY <1>0, <2>1, <2>3, <2>4, <2>6 DEF SlotsConserved
  <2>. QED  BY <2>5, <2>6
<1>4. ASSUME NEW r \in Requests, GiveBack(r) \/ End(r) PROVE AdmissionInv'
  <2>1. /\ pc[r] \in {"held", "refused"} /\ inflight' = inflight - 1
        /\ pc' = [pc EXCEPT ![r] = "idle"]
        /\ UNCHANGED <<max, cap>>
    BY <1>4 DEF GiveBack, End
  <2>2. \A phase : Cardinality(In(phase)') =
           IF phase = "idle" THEN Cardinality(In(phase)) + 1
           ELSE IF phase = pc[r] THEN Cardinality(In(phase)) - 1
           ELSE Cardinality(In(phase))
    BY <2>1, PhaseMoves
  <2>3. SlotsConserved'
    BY <1>0, <2>1, <2>2 DEF SlotsConserved
  <2>4. inflight' \in Nat
    <3>1. \A phase : In(phase)' \subseteq Requests
      BY DEF In
    <3>2. \A phase : Cardinality(In(phase)') \in Nat
      BY <3>1, FS_Subset, FS_CardinalityType
    <3>. QED  BY <2>3, <3>2 DEF SlotsConserved
  <2>. QED  BY <2>1, <2>3, <2>4 DEF TypeOK
<1>5. CASE UNCHANGED vars
  BY <1>0, <1>5 DEF vars, TypeOK, SlotsConserved
<1>. QED  BY <1>1, <1>2, <1>3, <1>4, <1>5 DEF Next

LEMMA AdmissionInvInitially == Init => AdmissionInv
<1>. SUFFICES ASSUME Init PROVE AdmissionInv
  OBVIOUS
<1>1. In("held") = {} /\ In("refused") = {}
  BY DEF Init, In
<1>. QED  BY <1>1, FS_EmptySet DEF Init, AdmissionInv, TypeOK, SlotsConserved

\* The counter is the requests admitted and the refusals not yet undone.
THEOREM AdmissionConservesSlots == Spec => []SlotsConserved
<1>1. AdmissionInv => SlotsConserved
  BY DEF AdmissionInv
<1>. QED  BY <1>1, AdmissionInvInitially, AdmissionInvInductive, PTL DEF Spec

\* A request is admitted only below the cap it was told.
THEOREM AdmissionNeverOvershoots == Spec => NoOvershoot
<1>1. AdmissionInv /\ [Next]_vars =>
        [\A r \in Requests :
           pc[r] = "asking" /\ pc'[r] = "held" => Cardinality(In("held")) < cap[r]]_vars
  <2>. SUFFICES ASSUME AdmissionInv, Next, NEW r \in Requests,
                       pc[r] = "asking", pc'[r] = "held"
                PROVE  Cardinality(In("held")) < cap[r]
    BY DEF vars
  <2>1. Claim(r) /\ Fits(r)
    <3>1. ASSUME NEW q \in Requests, ReadCap(q) \/ GiveBack(q) \/ End(q) PROVE FALSE
      BY <3>1 DEF ReadCap, GiveBack, End, AdmissionInv, TypeOK
    <3>2. ~SetMax
      BY DEF SetMax
    <3>3. PICK q \in Requests : Claim(q)
      BY <3>1, <3>2 DEF Next
    <3>4. q = r /\ Fits(r)
      BY <3>3 DEF Claim, AdmissionInv, TypeOK
    <3>. QED  BY <3>3, <3>4
  <2>2. inflight < cap[r] /\ Cardinality(In("held")) <= inflight
    BY <2>1, PhasesFinite DEF Fits, AdmissionInv, SlotsConserved
  <2>3. cap[r] \in Nat /\ inflight \in Nat /\ Cardinality(In("held")) \in Nat
    <3>1. cap[r] \in Caps \cup {0}
      BY DEF AdmissionInv, TypeOK
    <3>2. cap[r] \in Nat
      BY <3>1, AdmissionAssumption
    <3>3. Cardinality(In("held")) \in Nat
      BY PhasesFinite
    <3>. QED  BY <3>2, <3>3 DEF AdmissionInv, TypeOK
  <2>. QED  BY <2>2, <2>3
<1>. QED
  BY <1>1, AdmissionInvInitially, AdmissionInvInductive, PTL DEF Spec, NoOvershoot

-----------------------------------------------------------------------------
(***************************************************************************)
(* Requests for the list are requests: they come by their slot and give it *)
(* back in no other way than Admission says.                               *)
(***************************************************************************)
LEMMA StepOfAdmission == [CatalogNext]_catalogVars => [Next]_vars
<1>. SUFFICES ASSUME [CatalogNext]_catalogVars  PROVE [Next]_vars
  OBVIOUS
<1>1. CASE Admits
  BY <1>1 DEF Admits, Next
<1>2. ASSUME NEW r \in Requests, Ends(r)  PROVE Next
  BY <1>2 DEF Ends, Next
<1>3. ASSUME NEW r \in Requests, Begin(r) \/ Look(r) \/ Send(r) \/ Fetched(r) \/ NotFetched(r)
      PROVE  UNCHANGED vars
  BY <1>3 DEF Begin, Look, Send, Fetched, NotFetched
<1>4. CASE SetTtl \/ SetProviders \/ Tick \/ UNCHANGED catalogVars
  BY <1>4 DEF SetTtl, SetProviders, Tick, catalogVars
<1>. QED  BY <1>1, <1>2, <1>3, <1>4 DEF CatalogNext

\* What is proved of the slots holds with walks under way.
THEOREM CatalogKeepsAdmission == CatalogSpec => Spec
<1>1. CatalogInit => Init
  BY DEF CatalogInit
<1>. QED  BY <1>1, StepOfAdmission, PTL DEF CatalogSpec, Spec

-----------------------------------------------------------------------------
(***************************************************************************)
(* A walk.  A provider whose list was known when the walk began still has  *)
(* one, as entries are never dropped, and is ahead of the walk or behind   *)
(* it with its list.                                                       *)
(***************************************************************************)
Got == [from : Providers, models : Lists]

Walks ==
  [at : {"none", "next", "waiting", "sent"}, todo : Seq(Providers), got : Seq(Got),
   known : SUBSET Providers]

From(got) == {got[i].from : i \in DOMAIN got}

\* The parts of CatalogTypeOK a step on the walks depends on.
WalkTypes ==
  /\ order \in Seq(Providers)
  /\ entries \in [Providers -> [models : Lists \cup {NONE}, age : 0..MaxAge]]
  /\ walk \in [Requests -> Walks]

KnownKept(w, es) ==
  /\ w.at \in {"waiting", "sent"} => w.todo # <<>>
  /\ w.known \subseteq ToSet(w.todo) \cup From(w.got)
  /\ \A p \in w.known : es[p].models # NONE

WalkInv == WalkTypes /\ \A r \in Requests : KnownKept(walk[r], entries)

\* The first provider of a list of them is behind the walk, the others stay ahead.
LEMMA AheadOf ==
  ASSUME NEW todo \in Seq(Providers), todo # <<>>
  PROVE  /\ Head(todo) \in Providers
         /\ Tail(todo) \in Seq(Providers)
         /\ ToSet(todo) = {Head(todo)} \cup ToSet(Tail(todo))
<1>1. /\ Len(todo) \in Nat \ {0} /\ DOMAIN todo = 1..Len(todo)
      /\ Tail(todo) \in Seq(Providers) /\ Len(Tail(todo)) = Len(todo) - 1
      /\ DOMAIN Tail(todo) = 1..Len(todo) - 1
      /\ \A i \in 1..Len(todo) - 1 : Tail(todo)[i] = todo[i + 1]
      /\ Head(todo) = todo[1] /\ Head(todo) \in Providers
  OBVIOUS
<1>2. ASSUME NEW i \in 1..Len(todo)  PROVE todo[i] \in {Head(todo)} \cup ToSet(Tail(todo))
  <2>1. CASE i = 1
    BY <1>1, <2>1
  <2>2. CASE i # 1
    <3>1. i - 1 \in 1..Len(todo) - 1 /\ Tail(todo)[i - 1] = todo[i]
      BY <1>1, <2>2
    <3>. QED  BY <1>1, <3>1 DEF ToSet
  <2>. QED  BY <2>1, <2>2
<1>3. ASSUME NEW i \in 1..Len(todo) - 1  PROVE Tail(todo)[i] \in ToSet(todo)
  <2>1. i + 1 \in DOMAIN todo
    BY <1>1
  <2>. QED  BY <1>1, <2>1 DEF ToSet
<1>4. 1 \in DOMAIN todo
  BY <1>1
<1>5. Head(todo) \in ToSet(todo)
  BY <1>1, <1>4 DEF ToSet
<1>. QED  BY <1>1, <1>2, <1>3, <1>5 DEF ToSet

LEMMA FromAppend ==
  ASSUME NEW got \in Seq(Got), NEW g \in Got
  PROVE  Append(got, g) \in Seq(Got) /\ From(Append(got, g)) = From(got) \cup {g.from}
<1>1. /\ Append(got, g) \in Seq(Got) /\ Len(got) \in Nat
      /\ DOMAIN got = 1..Len(got) /\ DOMAIN Append(got, g) = 1..Len(got) + 1
      /\ \A i \in 1..Len(got) : Append(got, g)[i] = got[i]
      /\ Append(got, g)[Len(got) + 1] = g
  OBVIOUS
<1>2. \A i \in 1..Len(got) + 1 : i \in 1..Len(got) \/ i = Len(got) + 1
  BY <1>1
<1>3. 1..Len(got) \subseteq 1..Len(got) + 1 /\ Len(got) + 1 \in 1..Len(got) + 1
  BY <1>1
<1>. QED  BY <1>1, <1>2, <1>3 DEF From

\* The walk goes on past a provider: with its list, or without one it never knew of.
LEMMA GoingOn ==
  ASSUME WalkTypes, NEW r \in Requests, walk[r].todo # <<>>, KnownKept(walk[r], entries),
         NEW models \in Lists \cup {NONE}, GoesOn(r, models),
         models = NONE => Here(r) \notin walk[r].known
  PROVE  /\ walk' \in [Requests -> Walks]
         /\ \A q \in Requests : q # r => walk'[q] = walk[q]
         /\ walk'[r].at = "next"
         /\ walk'[r].known = walk[r].known
         /\ walk'[r].known \subseteq ToSet(walk'[r].todo) \cup From(walk'[r].got)
<1>. DEFINE w == walk[r]
            got == IF models = NONE THEN w.got
                   ELSE Append(w.got, [from |-> Here(r), models |-> models])
            v == [w EXCEPT !.at = "next", !.todo = Tail(w.todo), !.got = got]
<1>1. w \in Walks
  BY DEF WalkTypes
<1>2. /\ Here(r) \in Providers /\ Tail(w.todo) \in Seq(Providers)
      /\ ToSet(w.todo) = {Here(r)} \cup ToSet(Tail(w.todo))
  <2>1. w.todo \in Seq(Providers) /\ w.todo # <<>>
    BY <1>1 DEF Walks
  <2>. QED  BY <2>1, AheadOf DEF Here
<1>3. /\ got \in Seq(Got)
      /\ From(got) = IF models = NONE THEN From(w.got) ELSE From(w.got) \cup {Here(r)}
  <2>1. w.got \in Seq(Got)
    BY <1>1 DEF Walks
  <2>2. CASE models = NONE
    BY <2>1, <2>2
  <2>3. CASE models # NONE
    <3>1. [from |-> Here(r), models |-> models] \in Got
      BY <1>2, <2>3 DEF Got
    <3>. QED  BY <2>1, <2>3, <3>1, FromAppend
  <2>. QED  BY <2>2, <2>3
<1>4. walk' = [walk EXCEPT ![r] = v]
  <2>1. walk' = [walk EXCEPT ![r].at = "next", ![r].todo = Tail(@), ![r].got = got]
    BY Zenon DEF GoesOn
  <2>2. \A g : [walk EXCEPT ![r].at = "next", ![r].todo = Tail(@), ![r].got = g]
                 = [walk EXCEPT ![r] = [walk[r] EXCEPT !.at = "next", !.todo = Tail(@), !.got = g]]
    BY DEF WalkTypes
  <2>. QED  BY <2>1, <2>2
<1>. HIDE DEF got
<1>5. /\ v \in Walks
      /\ v.at = "next" /\ v.todo = Tail(w.todo) /\ v.got = got /\ v.known = w.known
  <2>. HIDE DEF w
  <2>. QED  BY <1>1, <1>2, <1>3 DEF Walks
<1>6. v.known \subseteq ToSet(v.todo) \cup From(v.got)
  <2>1. w.known \subseteq ToSet(w.todo) \cup From(w.got)
    BY DEF KnownKept
  <2>2. w.known \subseteq ToSet(Tail(w.todo)) \cup From(got)
    BY <1>2, <1>3, <2>1
  <2>. HIDE DEF v, w
  <2>. QED  BY <1>5, <2>2
<1>. HIDE DEF v
<1>7. walk' \in [Requests -> Walks] /\ walk'[r] = v /\ \A q \in Requests : q # r => walk'[q] = walk[q]
  BY <1>4, <1>5 DEF WalkTypes
<1>. QED  BY <1>5, <1>6, <1>7

\* An order of the providers is a sequence of them.
LEMMA OrderTypes == \A o \in Orders : o \in Seq(Providers) /\ ToSet(o) \subseteq Providers
<1>. SUFFICES ASSUME NEW o \in Orders  PROVE o \in Seq(Providers) /\ ToSet(o) \subseteq Providers
  OBVIOUS
<1>1. o \in Seq(ToSet(o))
  BY CatalogAssumption
<1>2. ToSet(o) \subseteq Providers
  BY DEF Providers
<1>. HIDE DEF Providers
<1>3. Len(o) \in Nat /\ o \in [1..Len(o) -> Providers]
  BY <1>1, <1>2
<1>. QED  BY <1>2, <1>3, SeqDef

LEMMA WalkInvInductive == WalkInv /\ [CatalogNext]_catalogVars => WalkInv'
<1>. SUFFICES ASSUME WalkInv, [CatalogNext]_catalogVars  PROVE WalkInv'
  OBVIOUS
<1>. USE DEF WalkInv
\* One walk moves; no entry is dropped.
<1>1. ASSUME NEW r \in Requests, order' = order,
             entries' \in [Providers -> [models : Lists \cup {NONE}, age : 0..MaxAge]],
             \A p \in Providers : entries[p].models # NONE => entries'[p].models # NONE,
             walk' \in [Requests -> Walks],
             \A q \in Requests : q # r => walk'[q] = walk[q],
             KnownKept(walk'[r], entries')
      PROVE  WalkInv'
  <2>1. WalkTypes'
    BY <1>1 DEF WalkTypes
  <2>2. ASSUME NEW q \in Requests  PROVE KnownKept(walk'[q], entries')
    <3>1. CASE q = r
      BY <1>1, <3>1
    <3>2. CASE q # r
      <4>1. walk'[q] = walk[q] /\ walk[q].known \subseteq Providers
        BY <1>1, <3>2 DEF WalkTypes, Walks
      <4>. QED  BY <1>1, <4>1 DEF KnownKept
    <3>. QED  BY <3>1, <3>2
  <2>. QED  BY <2>1, <2>2
\* No walk moves.
<1>2. ASSUME walk' = walk, order' \in Seq(Providers),
             entries' \in [Providers -> [models : Lists \cup {NONE}, age : 0..MaxAge]],
             \A p \in Providers : entries'[p].models = entries[p].models
      PROVE  WalkInv'
  <2>1. WalkTypes'
    BY <1>2 DEF WalkTypes
  <2>2. ASSUME NEW q \in Requests  PROVE KnownKept(walk'[q], entries')
    <3>1. walk'[q] = walk[q] /\ walk[q].known \subseteq Providers
      BY <1>2 DEF WalkTypes, Walks
    <3>. QED  BY <1>2, <3>1 DEF KnownKept
  <2>. QED  BY <2>1, <2>2
<1>3. ASSUME NEW r \in Requests, Begin(r)  PROVE WalkInv'
  <2>. DEFINE known == {p \in ToSet(order) : entries[p].models # NONE}
              w == [at |-> "next", todo |-> order, got |-> <<>>, known |-> known]
  <2>1. walk' = [walk EXCEPT ![r] = w] /\ UNCHANGED <<order, entries>>
    BY <1>3 DEF Begin
  <2>2. ToSet(order) \subseteq Providers
    <3>1. \A i \in DOMAIN order : order[i] \in Providers
      BY DEF WalkTypes
    <3>. QED  BY <3>1 DEF ToSet
  <2>3. w \in Walks
    BY <2>2 DEF WalkTypes, Walks
  <2>4. w.known \subseteq ToSet(w.todo) /\ w.at = "next" /\ w.known = known
    OBVIOUS
  <2>. HIDE DEF w
  <2>5. /\ walk' \in [Requests -> Walks] /\ walk'[r] = w
        /\ \A q \in Requests : q # r => walk'[q] = walk[q]
    BY <2>1, <2>3 DEF WalkTypes
  <2>6. KnownKept(walk'[r], entries')
    BY <2>1, <2>4, <2>5 DEF KnownKept
  <2>. QED  BY <1>1, <2>1, <2>5, <2>6 DEF WalkTypes
\* The walk looks, waits and is sent on the spot.
<1>4. ASSUME NEW r \in Requests, UNCHANGED <<order, entries>>,
             NEW at \in {"waiting", "sent"}, walk' = [walk EXCEPT ![r].at = at],
             walk[r].todo # <<>>
      PROVE  WalkInv'
  <2>. DEFINE w == walk[r]
              v == [w EXCEPT !.at = at]
  <2>1. w \in Walks
    BY DEF WalkTypes
  <2>2. v \in Walks /\ v.at = at /\ v.todo = w.todo /\ v.got = w.got /\ v.known = w.known
    <3>. HIDE DEF w
    <3>. QED  BY <2>1 DEF Walks
  <2>3. walk' = [walk EXCEPT ![r] = v]
    BY <1>4 DEF WalkTypes
  <2>4. KnownKept(w, entries)
    OBVIOUS
  <2>. HIDE DEF v, w
  <2>5. /\ walk' \in [Requests -> Walks] /\ walk'[r] = v
        /\ \A q \in Requests : q # r => walk'[q] = walk[q]
    BY <2>2, <2>3 DEF WalkTypes
  <2>6. KnownKept(walk'[r], entries')
    BY <1>4, <2>2, <2>4, <2>5 DEF KnownKept, w
  <2>. QED  BY <1>1, <1>4, <2>5, <2>6 DEF WalkTypes
\* The walk goes on; no entry is dropped.
<1>5. ASSUME NEW r \in Requests, walk[r].todo # <<>>, order' = order,
             NEW models \in Lists \cup {NONE}, GoesOn(r, models),
             models = NONE => Here(r) \notin walk[r].known,
             entries' \in [Providers -> [models : Lists \cup {NONE}, age : 0..MaxAge]],
             \A p \in Providers : entries[p].models # NONE => entries'[p].models # NONE
      PROVE  WalkInv'
  <2>1. /\ walk' \in [Requests -> Walks]
        /\ \A q \in Requests : q # r => walk'[q] = walk[q]
        /\ walk'[r].at = "next"
        /\ walk'[r].known = walk[r].known
        /\ walk'[r].known \subseteq ToSet(walk'[r].todo) \cup From(walk'[r].got)
    BY <1>5, GoingOn
  <2>2. walk[r].known \subseteq Providers /\ \A p \in walk[r].known : entries[p].models # NONE
    BY DEF WalkTypes, Walks, KnownKept
  <2>3. KnownKept(walk'[r], entries')
    BY <1>5, <2>1, <2>2 DEF KnownKept
  <2>. QED  BY <1>1, <1>5, <2>1, <2>3
<1>6. ASSUME NEW r \in Requests, walk[r].todo # <<>>
      PROVE  /\ Here(r) \in Providers
             /\ entries[Here(r)].models \in Lists \cup {NONE}
             /\ entries[Here(r)].models = NONE => Here(r) \notin walk[r].known
  <2>1. walk[r].todo \in Seq(Providers)
    BY DEF WalkTypes, Walks
  <2>2. Here(r) \in Providers
    BY <1>6, <2>1, AheadOf DEF Here
  <2>. QED  BY <2>2 DEF WalkTypes, KnownKept
<1>7. ASSUME NEW r \in Requests, Look(r)  PROVE WalkInv'
  <2>1. walk[r].todo # <<>> /\ UNCHANGED <<order, entries>>
    BY <1>7 DEF Look
  <2>2. CASE Fresh(Here(r))
    <3>1. GoesOn(r, entries[Here(r)].models)
      BY <1>7, <2>2 DEF Look
    <3>. QED  BY <1>5, <1>6, <2>1, <3>1 DEF WalkTypes
  <2>3. CASE ~Fresh(Here(r))
    BY <1>4, <1>7, <2>1, <2>3 DEF Look
  <2>. QED  BY <2>2, <2>3
<1>8. ASSUME NEW r \in Requests, Send(r)  PROVE WalkInv'
  <2>1. walk[r].todo # <<>>
    BY <1>8 DEF Send, Listing, KnownKept
  <2>. QED  BY <1>4, <1>8, <2>1 DEF Send
<1>9. ASSUME NEW r \in Requests, Fetched(r)  PROVE WalkInv'
  <2>1. walk[r].todo # <<>>
    BY <1>9 DEF Fetched, Listing, KnownKept
  <2>2. PICK models \in Lists : Put(Here(r), models) /\ GoesOn(r, models)
    BY <1>9 DEF Fetched
  <2>3. Here(r) \in Providers /\ models # NONE
    BY <1>6, <2>1, CatalogAssumption
  <2>4. entries' = [entries EXCEPT ![Here(r)] = [models |-> models, age |-> 0]]
    BY <2>2 DEF Put
  <2>5. [models |-> models, age |-> 0] \in [models : Lists \cup {NONE}, age : 0..MaxAge]
    BY CatalogAssumption
  <2>6. /\ entries' \in [Providers -> [models : Lists \cup {NONE}, age : 0..MaxAge]]
        /\ \A p \in Providers : entries[p].models # NONE => entries'[p].models # NONE
    BY <2>3, <2>4, <2>5 DEF WalkTypes
  <2>7. order' = order
    BY <1>9 DEF Fetched
  <2>. QED  BY <1>5, <2>1, <2>2, <2>3, <2>6, <2>7
<1>10. ASSUME NEW r \in Requests, NotFetched(r)  PROVE WalkInv'
  <2>1. walk[r].todo # <<>> /\ UNCHANGED <<order, entries>>
    BY <1>10 DEF NotFetched, Listing, KnownKept
  <2>2. GoesOn(r, entries[Here(r)].models)
    BY <1>10 DEF NotFetched, Stale
  <2>. QED  BY <1>5, <1>6, <2>1, <2>2 DEF WalkTypes
<1>11. ASSUME NEW r \in Requests, Ends(r)  PROVE WalkInv'
  <2>1. walk' = [walk EXCEPT ![r] = NoWalk] /\ UNCHANGED <<order, entries>>
    BY <1>11 DEF Ends
  <2>2. NoWalk \in Walks /\ NoWalk.at = "none" /\ NoWalk.known = {}
    BY DEF NoWalk, Walks
  <2>3. /\ walk' \in [Requests -> Walks] /\ walk'[r] = NoWalk
        /\ \A q \in Requests : q # r => walk'[q] = walk[q]
    BY <2>1, <2>2 DEF WalkTypes
  <2>4. KnownKept(walk'[r], entries')
    BY <2>2, <2>3 DEF KnownKept
  <2>. QED  BY <1>1, <2>1, <2>3, <2>4 DEF WalkTypes
<1>12. CASE Tick
  <2>1. /\ walk' = walk /\ order' = order
        /\ entries' = [p \in Providers |->
             [entries[p] EXCEPT !.age = IF @ < MaxAge THEN @ + 1 ELSE @]]
    BY <1>12 DEF Tick
  <2>2. ASSUME NEW p \in Providers
        PROVE  /\ entries'[p] \in [models : Lists \cup {NONE}, age : 0..MaxAge]
               /\ entries'[p].models = entries[p].models
    <3>1. entries[p] \in [models : Lists \cup {NONE}, age : 0..MaxAge]
      BY DEF WalkTypes
    <3>. DEFINE age == IF entries[p].age < MaxAge THEN entries[p].age + 1 ELSE entries[p].age
    <3>2. entries'[p] = [entries[p] EXCEPT !.age = age]
      BY <2>1
    <3>3. age \in 0..MaxAge
      BY <3>1, CatalogAssumption
    <3>. HIDE DEF age
    <3>. QED  BY <3>1, <3>2, <3>3
  <2>3. entries' \in [Providers -> [models : Lists \cup {NONE}, age : 0..MaxAge]]
    BY <2>1, <2>2
  <2>. QED  BY <1>2, <2>1, <2>2, <2>3 DEF WalkTypes
<1>13. CASE SetProviders
  BY <1>2, <1>13, OrderTypes DEF SetProviders, WalkTypes
<1>14. CASE Admits \/ SetTtl \/ UNCHANGED catalogVars
  BY <1>2, <1>14 DEF Admits, SetTtl, catalogVars, WalkTypes
<1>. QED
  BY <1>3, <1>7, <1>8, <1>9, <1>10, <1>11, <1>12, <1>13, <1>14 DEF CatalogNext

LEMMA InitialWalk == CatalogInit => WalkInv
<1>. SUFFICES ASSUME CatalogInit  PROVE WalkInv
  OBVIOUS
<1>1. NoWalk \in Walks /\ KnownKept(NoWalk, entries)
  BY DEF NoWalk, Walks, KnownKept
<1>2. order \in Seq(Providers)
  BY OrderTypes DEF CatalogInit
<1>3. entries \in [Providers -> [models : Lists \cup {NONE}, age : 0..MaxAge]]
  BY CatalogAssumption DEF CatalogInit, Unknown
<1>4. walk = [r \in Requests |-> NoWalk]
  BY DEF CatalogInit
<1>. QED  BY <1>1, <1>2, <1>3, <1>4 DEF WalkInv, WalkTypes

\* Whatever fails while the providers are asked, an answer has a list of each of
\* them whose list was there when the walk began.
THEOREM AnswersNeverBlank == CatalogSpec => []NeverBlank
<1>1. WalkInv => NeverBlank
  BY DEF WalkInv, KnownKept, NeverBlank, Listing, From
<1>. QED  BY <1>1, InitialWalk, WalkInvInductive, PTL DEF CatalogSpec

-----------------------------------------------------------------------------
(***************************************************************************)
(* What merge makes of the lists.  First, the folds entry by entry.        *)
(***************************************************************************)
LEMMA LeastElement ==
  ASSUME NEW S \in SUBSET Nat, S # {}
  PROVE  \E i \in S : \A j \in S : i <= j
<1> DEFINE R == {ss \in Nat \X Nat : ss[1] < ss[2]}
<1>1. IsWellFoundedOn(R, Nat)
  BY NatLessThanWellFounded DEF OpToRel
<1>2. PICK i \in S : \A j \in S : ~(<<j, i>> \in R)
  <2> HIDE DEF R
  <2>. QED  BY <1>1, WFMin
<1>3. \A j \in S : ~(j < i)
  <2>1. ASSUME NEW j \in S, j < i  PROVE <<j, i>> \in R
    BY <2>1, SMT
  <2>. QED  BY <1>2, <2>1
<1>4. \A j \in S : j \in Nat /\ i \in Nat
  OBVIOUS
<1>. HIDE DEF R
<1>. QED  BY <1>3, <1>4

LEMMA GreatestElement ==
  ASSUME NEW n \in Nat, NEW s \in SUBSET (1..n), s # {}
  PROVE  Max(s) \in s /\ Max(s) \in 1..n /\ \A i \in s : i <= Max(s)
<1>. DEFINE D == {n - i : i \in s}
<1>1. D \in SUBSET Nat /\ D # {}
  OBVIOUS
<1>2. PICK d \in D : \A e \in D : d <= e
  <2>. HIDE DEF D
  <2>. QED  BY <1>1, LeastElement
<1>3. PICK m \in s : d = n - m
  OBVIOUS
<1>4. ASSUME NEW i \in s  PROVE m >= i
  <2>1. n - i \in D /\ i \in 1..n /\ m \in 1..n
    OBVIOUS
  <2>2. d <= n - i
    <3>. HIDE DEF D
    <3>. QED  BY <1>2, <2>1
  <2>. HIDE DEF D
  <2>. QED  BY <1>3, <2>1, <2>2
<1>5. Max(s) \in s /\ \A y \in s : Max(s) >= y
  <2>. HIDE DEF D
  <2>. QED  BY <1>4, Zenon DEF Max
<1>6. \A y \in s : y \in 1..n
  OBVIOUS
<1>. HIDE DEF D
<1>. QED  BY <1>5, <1>6

\* Add on the last of a set of places, over what the places before it gave.
Step(all, g, s) == IF s = {} THEN <<>> ELSE Add(g[s \ {Max(s)}], all[Max(s)])

LEMMA FoldAdds ==
  ASSUME NEW all, NEW N \in Nat, DOMAIN all = 1..N
  PROVE  \E h : /\ h[0] = <<>>
                /\ \A n \in 1..N : h[n] = Add(h[n - 1], all[n])
                /\ FoldLeft(Add, <<>>, all) = h[N]
<1>. DEFINE On(g, n) == g = [s \in SUBSET (1..n) |-> Step(all, g, s)]
            Bad == {n \in 0..N : ~ \E g : On(g, n)}
<1>1. Bad = {}
  <2>. SUFFICES ASSUME Bad # {}  PROVE FALSE
    OBVIOUS
  <2>1. PICK n \in Bad : \A m \in Bad : n <= m
    <3>1. Bad \in SUBSET Nat
      <4>. HIDE DEF On
      <4>. QED  OBVIOUS
    <3>. HIDE DEF Bad
    <3>. QED  BY <3>1, LeastElement
  <2>2. n \in 0..N /\ n \in Nat /\ ~ \E g : On(g, n)
    <3>1. n \in 0..N /\ ~ \E g : On(g, n)
      <4>. HIDE DEF On
      <4>. QED  BY <2>1, Zenon
    <3>. HIDE DEF Bad, On
    <3>. QED  BY <3>1
  <2>3. CASE n = 0
    <3>. DEFINE g == [s \in SUBSET (1..0) |-> <<>>]
    <3>1. \A s \in SUBSET (1..0) : s = {}
      OBVIOUS
    <3>2. g = [s \in SUBSET (1..0) |-> Step(all, g, s)]
      BY <3>1 DEF Step
    <3>. QED  BY <2>2, <2>3, <3>2
  <2>4. CASE n # 0
    <3>1. n - 1 \in 0..N /\ n - 1 \notin Bad
      <4>. HIDE DEF Bad
      <4>. QED  BY <2>1, <2>2, <2>4
    <3>2. PICK h : On(h, n - 1)
      BY <3>1
    <3>. DEFINE g == [s \in SUBSET (1..n) |-> Step(all, h, s)]
    <3>3. ASSUME NEW s \in SUBSET (1..n), s # {}
          PROVE  s \ {Max(s)} \in SUBSET (1..n - 1) /\ s \ {Max(s)} \in SUBSET (1..n)
      <4>. DEFINE m == Max(s)
      <4>1. m \in 1..n /\ \A i \in s : i <= m
        BY <2>2, <3>3, GreatestElement
      <4>. HIDE DEF m
      <4>2. ASSUME NEW i \in s, i # m  PROVE i \in 1..n - 1
        BY <2>2, <4>1, <4>2
      <4>3. s \ {m} \in SUBSET (1..n - 1) /\ s \ {m} \in SUBSET (1..n)
        BY <4>2
      <4>. QED  BY <4>3 DEF m
    <3>4. \A s \in SUBSET (1..n - 1) : h[s] = Step(all, h, s)
      BY <3>2
    <3>5. \A s \in SUBSET (1..n - 1) : s \in SUBSET (1..n)
      BY <2>2
    <3>6. ASSUME NEW s \in SUBSET (1..n)  PROVE Step(all, g, s) = Step(all, h, s)
      BY <3>3, <3>4, <3>5 DEF Step
    <3>. DEFINE k == [s \in SUBSET (1..n) |-> Step(all, g, s)]
    <3>7. g = k
      <4>1. \A s \in SUBSET (1..n) : g[s] = k[s]
        BY <3>6
      <4>. QED  BY <4>1
    <3>8. On(g, n)
      BY <3>7
    <3>. HIDE DEF On, g
    <3>. QED  BY <2>2, <3>8
  <2>. QED  BY <2>3, <2>4
<1>2. \E g : On(g, N)
  <2>1. N \in 0..N
    OBVIOUS
  <2>. HIDE DEF On
  <2>. QED  BY <1>1, <2>1
<1>3. FoldLeft(Add, <<>>, all) = (CHOOSE g : g = [s \in SUBSET DOMAIN all |-> Step(all, g, s)])[DOMAIN all]
  BY Zenon DEF FoldLeft, MapThenFoldSet, Step
<1>4. PICK g : On(g, N) /\ FoldLeft(Add, <<>>, all) = g[1..N]
  BY <1>2, <1>3
<1>. DEFINE h == [n \in 0..N |-> g[1..n]]
<1>5. h[0] = <<>>
  <2>1. g[{}] = <<>> /\ 1..0 = {}
    BY <1>4 DEF Step
  <2>. QED  BY <2>1
<1>6. ASSUME NEW n \in 1..N  PROVE h[n] = Add(h[n - 1], all[n])
  <2>. HIDE DEF On
  <2>1. n \in Nat /\ 1..n # {} /\ n \in 1..n /\ 1..n \in SUBSET (1..n)
    OBVIOUS
  <2>2. Max(1..n) \in 1..n /\ n <= Max(1..n)
    BY <2>1, GreatestElement
  <2>3. Max(1..n) = n
    <3>. DEFINE m == Max(1..n)
    <3>. HIDE DEF h, m
    <3>1. m \in 1..n /\ n <= m
      BY <2>2 DEF m
    <3>2. m = n
      BY <2>1, <3>1
    <3>. QED  BY <3>2 DEF m
  <2>4. (1..n) \ {n} = 1..n - 1
    OBVIOUS
  <2>5. 1..n \in SUBSET (1..N)
    OBVIOUS
  <2>6. n - 1 \in 0..N /\ n \in 0..N
    OBVIOUS
  <2>7. g[1..n] = Step(all, g, 1..n)
    <3>. HIDE DEF h
    <3>. QED  BY <1>4, <2>5 DEF On
  <2>8. g[1..n] = Add(g[1..n - 1], all[n])
    <3>. HIDE DEF h
    <3>. QED  BY <2>1, <2>3, <2>4, <2>7, Zenon DEF Step
  <2>. QED  BY <2>6, <2>8
<1>7. FoldLeft(Add, <<>>, all) = h[N]
  BY <1>4
<1>. HIDE DEF h
<1>. QED  BY <1>5, <1>6, <1>7

\* What data is when the first n entries have been added: it has their names, each
\* once, and each entry is the first with its name.
Upto(all, n, data) ==
  /\ \A k \in DOMAIN data : \E i \in 1..n :
       data[k] = all[i] /\ \A j \in 1..(i - 1) : all[j].id # all[i].id
  /\ \A i \in 1..n : \E k \in DOMAIN data : data[k].id = all[i].id
  /\ \A k, l \in DOMAIN data : data[k].id = data[l].id => k = l

LEMMA AddKeepsUpto ==
  ASSUME NEW E, NEW all \in Seq(E), NEW n \in 1..Len(all), NEW data \in Seq(E),
         Upto(all, n - 1, data)
  PROVE  Add(data, all[n]) \in Seq(E) /\ Upto(all, n, Add(data, all[n]))
<1>0. /\ \A k \in DOMAIN data : \E i \in 1..(n - 1) :
             data[k] = all[i] /\ \A j \in 1..(i - 1) : all[j].id # all[i].id
      /\ \A i \in 1..(n - 1) : \E k \in DOMAIN data : data[k].id = all[i].id
      /\ \A k, l \in DOMAIN data : data[k].id = data[l].id => k = l
  BY Zenon DEF Upto
<1>1. n \in Nat /\ all[n] \in E /\ 1..(n - 1) \subseteq 1..n
  OBVIOUS
<1>2. \A i \in 1..n : i = n \/ i \in 1..(n - 1)
  OBVIOUS
<1>3. CASE \E k \in DOMAIN data : data[k].id = all[n].id
  <2>1. Add(data, all[n]) = data
    BY <1>3 DEF Add
  <2>2. \A k \in DOMAIN data : \E i \in 1..n :
             data[k] = all[i] /\ \A j \in 1..(i - 1) : all[j].id # all[i].id
    BY <1>0, <1>1, Zenon
  <2>3. \A i \in 1..n : \E k \in DOMAIN data : data[k].id = all[i].id
    BY <1>0, <1>2, <1>3, Zenon
  <2>4. Upto(all, n, data)
    BY <1>0, <2>2, <2>3, Zenon DEF Upto
  <2>. QED  BY <2>1, <2>4, Zenon
<1>4. CASE ~ \E k \in DOMAIN data : data[k].id = all[n].id
  <2>. DEFINE more == Append(data, all[n])
  <2>1. Add(data, all[n]) = more
    BY <1>4 DEF Add
  <2>2. /\ more \in Seq(E)
        /\ Len(data) \in Nat /\ DOMAIN data = 1..Len(data)
        /\ DOMAIN more = 1..(Len(data) + 1)
        /\ more[Len(data) + 1] = all[n]
        /\ \A k \in DOMAIN data : more[k] = data[k]
    BY <1>1
  <2>. HIDE DEF more
  <2>3. \A k \in DOMAIN more : k \in DOMAIN data \/ k = Len(data) + 1
    BY <2>2
  <2>4. DOMAIN data \subseteq DOMAIN more /\ Len(data) + 1 \in DOMAIN more
    BY <2>2
  <2>5. \A j \in 1..(n - 1) : all[j].id # all[n].id
    <3>1. ASSUME NEW j \in 1..(n - 1), all[j].id = all[n].id  PROVE FALSE
      <4>1. PICK k \in DOMAIN data : data[k].id = all[j].id
        BY <1>0
      <4>2. data[k].id = all[n].id
        BY <3>1, <4>1, Zenon
      <4>. QED  BY <1>4, <4>2, Zenon
    <3>. QED  BY <3>1
  <2>6. ASSUME NEW k \in DOMAIN more
        PROVE  \E i \in 1..n :
                 more[k] = all[i] /\ \A j \in 1..(i - 1) : all[j].id # all[i].id
    <3>1. CASE k \in DOMAIN data
      <4>1. more[k] = data[k]
        BY <2>2, <3>1
      <4>2. PICK i \in 1..(n - 1) :
               data[k] = all[i] /\ \A j \in 1..(i - 1) : all[j].id # all[i].id
        BY <1>0, <3>1, Zenon
      <4>3. i \in 1..n
        BY <1>1, Zenon
      <4>. QED  BY <4>1, <4>2, <4>3, Zenon
    <3>2. CASE k = Len(data) + 1
      <4>1. more[k] = all[n] /\ n \in 1..n
        BY <1>1, <2>2, <3>2
      <4>2. more[k] = all[n] /\ \A j \in 1..(n - 1) : all[j].id # all[n].id
        BY <2>5, <4>1, Zenon
      <4>. HIDE DEF Upto
      <4>. QED  BY <4>1, <4>2, Zenon
    <3>. QED  BY <2>3, <3>1, <3>2
  <2>7. ASSUME NEW i \in 1..n  PROVE \E k \in DOMAIN more : more[k].id = all[i].id
    <3>1. CASE i = n
      BY <2>2, <2>4, <3>1
    <3>2. CASE i \in 1..(n - 1)
      <4>1. PICK k \in DOMAIN data : data[k].id = all[i].id
        BY <1>0, <3>2
      <4>. QED  BY <2>2, <2>4, <4>1, Zenon
    <3>. QED  BY <1>2, <3>1, <3>2
  <2>8. ASSUME NEW k \in DOMAIN more, NEW l \in DOMAIN more, more[k].id = more[l].id
        PROVE  k = l
    <3>1. CASE k \in DOMAIN data /\ l \in DOMAIN data
      BY <1>0, <2>2, <2>8, <3>1
    <3>2. CASE k \in DOMAIN data /\ l = Len(data) + 1
      BY <1>4, <2>2, <2>8, <3>2
    <3>3. CASE k = Len(data) + 1 /\ l \in DOMAIN data
      BY <1>4, <2>2, <2>8, <3>3
    <3>. QED  BY <2>3, <3>1, <3>2, <3>3
  <2>9. Upto(all, n, more)
    BY <2>6, <2>7, <2>8, Zenon DEF Upto
  <2>. QED  BY <2>1, <2>2, <2>9, Zenon
<1>. QED  BY <1>3, <1>4

\* Adding the entries of a sequence one by one gives one entry for each name.
LEMMA FoldIsUpto ==
  ASSUME NEW E, NEW all \in Seq(E)
  PROVE  /\ FoldLeft(Add, <<>>, all) \in Seq(E)
         /\ Upto(all, Len(all), FoldLeft(Add, <<>>, all))
<1>. DEFINE N == Len(all)
<1>1. N \in Nat /\ DOMAIN all = 1..N
  OBVIOUS
<1>. HIDE DEF N
<1>2. PICK h : /\ h[0] = <<>>
               /\ \A n \in 1..N : h[n] = Add(h[n - 1], all[n])
               /\ FoldLeft(Add, <<>>, all) = h[N]
  BY <1>1, FoldAdds
<1>. DEFINE Good(n) == h[n] \in Seq(E) /\ Upto(all, n, h[n])
            Bad == {n \in 0..N : ~Good(n)}
<1>3. Good(0)
  <2>1. h[0] \in Seq(E) /\ DOMAIN h[0] = {} /\ 1..0 = {}
    BY <1>2
  <2>. QED  BY <2>1 DEF Upto
<1>4. ASSUME NEW n \in 1..N, Good(n - 1)  PROVE Good(n)
  <2>1. n \in 1..Len(all)
    BY DEF N
  <2>2. Add(h[n - 1], all[n]) \in Seq(E) /\ Upto(all, n, Add(h[n - 1], all[n]))
    BY <1>4, <2>1, AddKeepsUpto
  <2>. QED  BY <1>2, <2>2
<1>5. Bad = {}
  <2>. SUFFICES ASSUME Bad # {}  PROVE FALSE
    OBVIOUS
  <2>. HIDE DEF Good
  <2>1. PICK n \in Bad : \A m \in Bad : n <= m
    <3>1. Bad \in SUBSET Nat
      OBVIOUS
    <3>. HIDE DEF Bad
    <3>. QED  BY <3>1, LeastElement
  <2>2. n \in 1..N /\ n - 1 \in 0..N
    <3>1. n \in 0..N /\ n # 0
      BY <1>3
    <3>. HIDE DEF Bad
    <3>. QED  BY <1>1, <3>1
  <2>3. n - 1 \notin Bad
    <3>. HIDE DEF Bad
    <3>. QED  BY <2>1, <2>2
  <2>4. Good(n - 1) /\ ~Good(n)
    BY <2>2, <2>3
  <2>. QED  BY <1>4, <2>2, <2>4
<1>6. Good(N)
  <2>1. N \in 0..N
    BY <1>1
  <2>. HIDE DEF Good
  <2>. QED  BY <1>5, <2>1
<1>. QED  BY <1>2, <1>6 DEF N

\* No two entries have the same name, so there are as many as there are names.
LEMMA CountOfNames ==
  ASSUME NEW E, NEW data \in Seq(E),
         \A k, l \in DOMAIN data : data[k].id = data[l].id => k = l
  PROVE  Len(data) = Cardinality({data[k].id : k \in DOMAIN data})
<1>. DEFINE ids == {data[k].id : k \in DOMAIN data}
            name == [k \in 1..Len(data) |-> data[k].id]
<1>1. Len(data) \in Nat /\ DOMAIN data = 1..Len(data)
  OBVIOUS
<1>2. name \in [1..Len(data) -> ids]
  BY <1>1
<1>3. \A k, l \in 1..Len(data) : name[k] = name[l] => k = l
  BY <1>1
<1>4. \A id \in ids : \E k \in 1..Len(data) : name[k] = id
  BY <1>1
<1>. HIDE DEF ids, name
<1>5. name \in Bijection(1..Len(data), ids)
  BY <1>2, <1>3, <1>4, Fun_IsBij
<1>6. Cardinality(ids) = Len(data)
  <2>1. ExistsBijection(1..Len(data), ids)
    BY <1>5 DEF ExistsBijection
  <2>. QED  BY <1>1, <2>1, FS_CountingElements
<1>. QED  BY <1>6 DEF ids

-----------------------------------------------------------------------------
\* The first n lists, one after the other: what is in them, and what is before it.
Strung(lists, n, all) ==
  /\ \A p \in DOMAIN all : \E i \in 1..n : \E q \in DOMAIN lists[i] :
       /\ all[p] = lists[i][q]
       /\ \A j \in 1..(i - 1) : \A r \in DOMAIN lists[j] :
            \E o \in 1..(p - 1) : all[o] = lists[j][r]
  /\ \A i \in 1..n : \A q \in DOMAIN lists[i] :
       \E p \in DOMAIN all : all[p] = lists[i][q]

LEMMA StringingOn ==
  ASSUME NEW E, NEW lists \in Seq(Seq(E)), NEW n \in 2..Len(lists), NEW all \in Seq(E),
         Strung(lists, n - 1, all)
  PROVE  (all \o lists[n]) \in Seq(E) /\ Strung(lists, n, all \o lists[n])
<1>0. /\ \A p \in DOMAIN all : \E i \in 1..(n - 1) : \E q \in DOMAIN lists[i] :
           /\ all[p] = lists[i][q]
           /\ \A j \in 1..(i - 1) : \A r \in DOMAIN lists[j] :
                \E o \in 1..(p - 1) : all[o] = lists[j][r]
      /\ \A i \in 1..(n - 1) : \A q \in DOMAIN lists[i] :
           \E p \in DOMAIN all : all[p] = lists[i][q]
  BY Zenon DEF Strung
<1>. DEFINE new  == lists[n]
            more == all \o new
<1>1. n \in Nat /\ n \in 1..n /\ new \in Seq(E) /\ 1..(n - 1) \subseteq 1..n
  OBVIOUS
<1>2. \A i \in 1..n : i = n \/ i \in 1..(n - 1)
  OBVIOUS
<1>3. Len(all) \in Nat /\ Len(new) \in Nat /\ DOMAIN all = 1..Len(all) /\ DOMAIN new = 1..Len(new)
  <2>. HIDE DEF new
  <2>. QED  BY <1>1
<1>4. more \in Seq(E) /\ DOMAIN more = 1..(Len(all) + Len(new))
  <2>1. more \in Seq(E) /\ Len(more) = Len(all) + Len(new)
    <3>. HIDE DEF new
    <3>. QED  BY <1>1
  <2>. HIDE DEF more
  <2>. QED  BY <2>1
<1>5. \A p \in DOMAIN all : more[p] = all[p]
  <2>. HIDE DEF new
  <2>. QED  BY <1>1
<1>6. \A q \in DOMAIN new : more[Len(all) + q] = new[q]
  <2>. HIDE DEF new
  <2>. QED  BY <1>1
<1>. HIDE DEF more
<1>7. ASSUME NEW p \in DOMAIN more
      PROVE  \E i \in 1..n : \E q \in DOMAIN lists[i] :
               /\ more[p] = lists[i][q]
               /\ \A j \in 1..(i - 1) : \A r \in DOMAIN lists[j] :
                    \E o \in 1..(p - 1) : more[o] = lists[j][r]
  <2>1. CASE p \in DOMAIN all
    <3>1. PICK i \in 1..(n - 1) : \E q \in DOMAIN lists[i] :
             /\ all[p] = lists[i][q]
             /\ \A j \in 1..(i - 1) : \A r \in DOMAIN lists[j] :
                  \E o \in 1..(p - 1) : all[o] = lists[j][r]
      BY <1>0, <2>1, Zenon
    <3>2. PICK q \in DOMAIN lists[i] :
             /\ all[p] = lists[i][q]
             /\ \A j \in 1..(i - 1) : \A r \in DOMAIN lists[j] :
                  \E o \in 1..(p - 1) : all[o] = lists[j][r]
      BY <3>1, Zenon
    <3>3. \A o \in 1..(p - 1) : more[o] = all[o]
      <4>1. p \in 1..Len(all) /\ Len(all) \in Nat
        BY <1>3, <2>1
      <4>2. \A o \in 1..(p - 1) : o \in 1..Len(all)
        BY <4>1
      <4>. QED  BY <1>3, <1>5, <4>2
    <3>4. i \in 1..n /\ more[p] = lists[i][q]
      BY <1>1, <1>5, <2>1, <3>2
    <3>5. \A j \in 1..(i - 1) : \A r \in DOMAIN lists[j] :
             \E o \in 1..(p - 1) : more[o] = lists[j][r]
      BY <3>2, <3>3, Zenon
    <3>. QED  BY <3>4, <3>5, Zenon
  <2>2. CASE p \notin DOMAIN all
    <3>. DEFINE q == p - Len(all)
    <3>1. q \in DOMAIN new /\ p = Len(all) + q /\ 1..Len(all) \subseteq 1..(p - 1)
      <4>. DEFINE a == Len(all)
                  b == Len(new)
      <4>1. a \in Nat /\ b \in Nat /\ p \in 1..(a + b) /\ p \notin 1..a
        BY <1>3, <1>4, <2>2
      <4>. HIDE DEF a, b
      <4>2. p \in Nat /\ a < p /\ p <= a + b
        BY <4>1
      <4>3. p - a \in 1..b
        BY <4>1, <4>2
      <4>4. p = a + (p - a)
        BY <4>1, <4>2
      <4>5. 1..a \subseteq 1..(p - 1)
        BY <4>1, <4>2
      <4>. QED  BY <1>3, <4>3, <4>4, <4>5 DEF a, b
    <3>. HIDE DEF q
    <3>2. more[p] = new[q]
      BY <1>6, <3>1
    <3>3. \A j \in 1..(n - 1) : \A r \in DOMAIN lists[j] :
             \E o \in 1..(p - 1) : more[o] = lists[j][r]
      <4>. SUFFICES ASSUME NEW j \in 1..(n - 1), NEW r \in DOMAIN lists[j]
                    PROVE  \E o \in 1..(p - 1) : more[o] = lists[j][r]
        OBVIOUS
      <4>1. PICK o \in DOMAIN all : all[o] = lists[j][r]
        BY <1>0, Zenon
      <4>2. o \in 1..(p - 1) /\ more[o] = all[o]
        BY <1>3, <1>5, <3>1, <4>1
      <4>. QED  BY <4>1, <4>2, Zenon
    <3>. QED  BY <1>1, <3>1, <3>2, <3>3, Zenon
  <2>. QED  BY <2>1, <2>2
<1>8. ASSUME NEW i \in 1..n, NEW q \in DOMAIN lists[i]
      PROVE  \E p \in DOMAIN more : more[p] = lists[i][q]
  <2>1. CASE i = n
    <3>1. q \in DOMAIN new /\ new[q] = lists[i][q]
      BY <2>1
    <3>. HIDE DEF new
    <3>2. Len(all) + q \in DOMAIN more
      BY <1>3, <1>4, <3>1
    <3>. QED  BY <1>6, <3>1, <3>2
  <2>2. CASE i \in 1..(n - 1)
    <3>1. PICK p \in DOMAIN all : all[p] = lists[i][q]
      BY <1>0, <2>2, Zenon
    <3>2. p \in DOMAIN more /\ more[p] = all[p]
      <4>. HIDE DEF new
      <4>. QED  BY <1>3, <1>4, <1>5
    <3>. QED  BY <3>1, <3>2
  <2>. QED  BY <1>2, <2>1, <2>2
<1>9. Strung(lists, n, more)
  BY <1>7, <1>8, Zenon DEF Strung
<1>. QED  BY <1>4, <1>9 DEF more

LEMMA FlattenStrings ==
  ASSUME NEW E, NEW lists \in Seq(Seq(E))
  PROVE  FlattenSeq(lists) \in Seq(E) /\ Strung(lists, Len(lists), FlattenSeq(lists))
<1>. DEFINE N == Len(lists)
            Sum(g, i) == IF i = 1 THEN lists[i] ELSE g[i - 1] \o lists[i]
<1>1. N \in Nat /\ DOMAIN lists = 1..N /\ \A i \in 1..N : lists[i] \in Seq(E)
  OBVIOUS
<1>2. CASE N = 0
  <2>1. FlattenSeq(lists) = lists /\ lists = <<>>
    BY <1>2 DEF FlattenSeq
  <2>2. <<>> \in Seq(E) /\ DOMAIN <<>> = {} /\ 1..0 = {} /\ Len(<<>>) = 0
    OBVIOUS
  <2>3. Strung(<<>>, 0, <<>>)
    BY <2>2, Zenon DEF Strung
  <2>. QED  BY <2>1, <2>2, <2>3
<1>3. CASE N # 0
  <2>. DEFINE On(g, n) == g = [i \in 1..n |-> Sum(g, i)]
              Lacks == {n \in 1..N : ~ \E g : On(g, n)}
  <2>1. \E g : On(g, 1)
    <3>. DEFINE g == [i \in 1..1 |-> lists[1]]
    <3>1. \A i \in 1..1 : Sum(g, i) = lists[1]
      OBVIOUS
    <3>2. On(g, 1)
      BY <3>1
    <3>. HIDE DEF On, g
    <3>. QED  BY <3>2
  <2>2. ASSUME NEW n \in 2..N, NEW h, On(h, n - 1)  PROVE \E g : On(g, n)
    <3>. DEFINE g == [i \in 1..n |-> Sum(h, i)]
    <3>1. \A i \in 1..(n - 1) : h[i] = Sum(h, i)
      BY <2>2
    <3>2. \A i \in 1..(n - 1) : g[i] = h[i]
      BY <3>1
    <3>. HIDE DEF g
    <3>3. \A i \in 1..n : Sum(g, i) = Sum(h, i)
      <4>. SUFFICES ASSUME NEW i \in 1..n  PROVE Sum(g, i) = Sum(h, i)
        OBVIOUS
      <4>1. CASE i = 1
        BY <4>1
      <4>2. CASE i # 1
        <5>1. i - 1 \in 1..(n - 1)
          BY <4>2
        <5>2. g[i - 1] = h[i - 1]
          BY <3>2, <5>1
        <5>. QED  BY <5>2
      <4>. QED  BY <4>1, <4>2
    <3>4. On(g, n)
      <4>1. g = [i \in 1..n |-> Sum(h, i)]
        BY DEF g
      <4>. HIDE DEF Sum
      <4>. QED  BY <3>3, <4>1
    <3>. HIDE DEF On
    <3>. QED  BY <3>4
  <2>3. Lacks = {}
    <3>. SUFFICES ASSUME Lacks # {}  PROVE FALSE
      OBVIOUS
    <3>. HIDE DEF On, N
    <3>1. PICK n \in Lacks : \A m \in Lacks : n <= m
      <4>1. Lacks \in SUBSET Nat
        OBVIOUS
      <4>. HIDE DEF Lacks
      <4>. QED  BY <4>1, LeastElement
    <3>2. n \in 2..N /\ n - 1 \in 1..N
      <4>1. n \in 1..N /\ n # 1
        BY <2>1
      <4>. HIDE DEF Lacks
      <4>. QED  BY <1>1, <4>1
    <3>3. n - 1 \notin Lacks
      <4>. HIDE DEF Lacks
      <4>. QED  BY <3>1, <3>2
    <3>4. (\E h : On(h, n - 1)) /\ ~ \E g : On(g, n)
      BY <3>2, <3>3
    <3>. QED  BY <2>2, <3>2, <3>4
  <2>4. PICK g : On(g, N)
    <3>1. N \in 1..N
      BY <1>1, <1>3
    <3>. HIDE DEF On, N
    <3>. QED  BY <2>3, <3>1
  <2>. DEFINE c == CHOOSE f : On(f, N)
  <2>5. On(c, N)
    <3>. HIDE DEF On
    <3>. QED  BY <2>4
  <2>6. FlattenSeq(lists) = c[N]
    BY <1>3, Zenon DEF FlattenSeq
  <2>7. \A i \in 1..N : c[i] = Sum(c, i)
    <3>. HIDE DEF c
    <3>. QED  BY <2>5
  <2>. HIDE DEF c
  <2>. DEFINE Good(n) == c[n] \in Seq(E) /\ Strung(lists, n, c[n])
              Bad == {n \in 1..N : ~Good(n)}
  <2>8. Good(1)
    <3>1. c[1] = lists[1]
      BY <1>1, <1>3, <2>7
    <3>2. lists[1] \in Seq(E) /\ 1 \in 1..1
      BY <1>1, <1>3
    <3>3. \A i \in 1..1 : i = 1 /\ 1..(i - 1) = {}
      OBVIOUS
    <3>4. Strung(lists, 1, lists[1])
      BY <3>2, <3>3, Zenon DEF Strung
    <3>. QED  BY <3>1, <3>2, <3>4
  <2>9. ASSUME NEW n \in 2..N, Good(n - 1)  PROVE Good(n)
    <3>1. c[n] = c[n - 1] \o lists[n]
      <4>1. n \in 1..N /\ n # 1
        BY <1>1
      <4>2. c[n] = Sum(c, n)
        BY <2>7, <4>1
      <4>. QED  BY <4>1, <4>2
    <3>2. n \in 2..Len(lists)
      OBVIOUS
    <3>3. (c[n - 1] \o lists[n]) \in Seq(E) /\ Strung(lists, n, c[n - 1] \o lists[n])
      <4>. HIDE DEF N
      <4>. QED  BY <2>9, <3>2, StringingOn
    <3>. QED  BY <3>1, <3>3, Zenon
  <2>10. Bad = {}
    <3>. SUFFICES ASSUME Bad # {}  PROVE FALSE
      OBVIOUS
    <3>. HIDE DEF Good, N
    <3>1. PICK n \in Bad : \A m \in Bad : n <= m
      <4>1. Bad \in SUBSET Nat
        OBVIOUS
      <4>. HIDE DEF Bad
      <4>. QED  BY <4>1, LeastElement
    <3>2. n \in 2..N /\ n - 1 \in 1..N
      <4>1. n \in 1..N /\ n # 1
        BY <2>8
      <4>. HIDE DEF Bad
      <4>. QED  BY <1>1, <4>1
    <3>3. n - 1 \notin Bad
      <4>. HIDE DEF Bad
      <4>. QED  BY <3>1, <3>2
    <3>4. Good(n - 1) /\ ~Good(n)
      BY <3>2, <3>3
    <3>. QED  BY <2>9, <3>2, <3>4
  <2>11. Good(N)
    <3>1. N \in 1..N
      BY <1>1, <1>3
    <3>. HIDE DEF Good, N
    <3>. QED  BY <2>10, <3>1
  <2>. QED  BY <2>6, <2>11, Zenon
<1>. QED  BY <1>2, <1>3

-----------------------------------------------------------------------------
\* What merge reads: the aliases, then the lists, each entry with its provider.
Labelled(from, names) == [i \in DOMAIN names |-> [id |-> names[i], from |-> from]]
AllLists(got) == [i \in DOMAIN got |-> Labelled(got[i].from, got[i].models)]

Names == UNION {ToSet(names) : names \in Lists \cup {Aliases}}
Entries == [id : Names, from : Providers \cup {Own}]

LEMMA LabelledTypes ==
  ASSUME NEW from \in Providers \cup {Own}, NEW names \in Lists \cup {Aliases}
  PROVE  /\ Labelled(from, names) \in Seq(Entries)
         /\ names \in Seq(Names)
         /\ DOMAIN Labelled(from, names) = DOMAIN names
         /\ \A i \in DOMAIN names :
              Labelled(from, names)[i].id = names[i] /\ Labelled(from, names)[i].from = from
<1>1. names \in Seq(ToSet(names))
  BY CatalogAssumption
<1>2. ToSet(names) \subseteq Names
  BY DEF Names
<1>3. names \in Seq(Names)
  <2>. HIDE DEF Names
  <2>. QED  BY <1>1, <1>2
<1>4. ASSUME NEW i \in DOMAIN names  PROVE [id |-> names[i], from |-> from] \in Entries
  BY <1>3 DEF Entries
<1>. DEFINE labelled == [i \in DOMAIN names |-> [id |-> names[i], from |-> from]]
<1>5. labelled = Labelled(from, names)
  BY DEF Labelled
<1>6. labelled \in Seq(Entries)
  <2>1. Len(names) \in Nat /\ DOMAIN names = 1..Len(names)
    BY <1>3
  <2>2. labelled \in [1..Len(names) -> Entries]
    BY <1>4, <2>1
  <2>. HIDE DEF labelled
  <2>. QED  BY <2>1, <2>2
<1>7. /\ DOMAIN labelled = DOMAIN names
      /\ \A i \in DOMAIN names : labelled[i].id = names[i] /\ labelled[i].from = from
  OBVIOUS
<1>. QED  BY <1>3, <1>5, <1>6, <1>7, Zenon

\* What MergeIsUnion says of an answer.
AllNames(got) == ToSet(Aliases) \cup UNION {ToSet(got[i].models) : i \in DOMAIN got}
FirstHas(got, entry) ==
  IF entry.id \in ToSet(Aliases) THEN entry.from = Own
  ELSE \E i \in DOMAIN got :
         /\ entry.id \in ToSet(got[i].models) /\ entry.from = got[i].from
         /\ \A j \in 1..(i - 1) : entry.id \notin ToSet(got[j].models)
IsUnion(got, data) ==
  /\ {data[k].id : k \in DOMAIN data} = AllNames(got)
  /\ Len(data) = Cardinality(AllNames(got))
  /\ \A k \in DOMAIN data : FirstHas(got, data[k])

LEMMA MergeGivesUnion ==
  ASSUME NEW got \in Seq(Got)
  PROVE  IsUnion(got, Merge(got))
<1>. DEFINE own   == Labelled(Own, Aliases)
            lists == AllLists(got)
            flat  == FlattenSeq(lists)
            all   == own \o flat
            data  == Merge(got)
<1>1. data = FoldLeft(Add, <<>>, all)
  BY Zenon DEF Merge, Labelled, AllLists
<1>2. /\ own \in Seq(Entries) /\ DOMAIN own = DOMAIN Aliases
      /\ \A a \in DOMAIN Aliases : own[a].id = Aliases[a] /\ own[a].from = Own
  BY LabelledTypes
<1>3. \A i \in DOMAIN got : got[i].from \in Providers \cup {Own} /\ got[i].models \in Lists \cup {Aliases}
  <2>. SUFFICES ASSUME NEW i \in DOMAIN got
                PROVE  got[i].from \in Providers /\ got[i].models \in Lists
    OBVIOUS
  <2>1. got[i] \in Got
    OBVIOUS
  <2>. QED  BY <2>1 DEF Got
<1>4. /\ DOMAIN lists = DOMAIN got
      /\ \A i \in DOMAIN got : lists[i] = Labelled(got[i].from, got[i].models)
  BY DEF AllLists
<1>5. \A i \in DOMAIN got :
        /\ lists[i] \in Seq(Entries) /\ DOMAIN lists[i] = DOMAIN got[i].models
        /\ \A q \in DOMAIN lists[i] :
             lists[i][q].id = got[i].models[q] /\ lists[i][q].from = got[i].from
  <2>. SUFFICES ASSUME NEW i \in DOMAIN got
                PROVE  /\ lists[i] \in Seq(Entries) /\ DOMAIN lists[i] = DOMAIN got[i].models
                       /\ \A q \in DOMAIN lists[i] :
                            lists[i][q].id = got[i].models[q] /\ lists[i][q].from = got[i].from
    BY Zenon
  <2>. DEFINE from == got[i].from
              names == got[i].models
  <2>. HIDE DEF lists
  <2>1. from \in Providers \cup {Own} /\ names \in Lists \cup {Aliases}
    BY <1>3
  <2>2. lists[i] = Labelled(from, names)
    BY <1>4
  <2>3. /\ Labelled(from, names) \in Seq(Entries)
        /\ DOMAIN Labelled(from, names) = DOMAIN names
        /\ \A q \in DOMAIN names :
             Labelled(from, names)[q].id = names[q] /\ Labelled(from, names)[q].from = from
    <3>. HIDE DEF from, names
    <3>. QED  BY <2>1, LabelledTypes
  <2>. QED  BY <2>2, <2>3, Zenon
<1>6. lists \in Seq(Seq(Entries)) /\ Len(lists) \in Nat /\ DOMAIN lists = 1..Len(lists)
  <2>1. Len(got) \in Nat /\ DOMAIN got = 1..Len(got)
    OBVIOUS
  <2>2. lists \in [1..Len(got) -> Seq(Entries)]
    <3>1. lists = [i \in 1..Len(got) |-> lists[i]]
      BY <2>1 DEF AllLists
    <3>. HIDE DEF lists
    <3>. QED  BY <1>5, <2>1, <3>1
  <2>. HIDE DEF lists
  <2>. QED  BY <2>1, <2>2
<1>. HIDE DEF lists
<1>7. flat \in Seq(Entries) /\ Strung(lists, Len(lists), flat)
  BY <1>6, FlattenStrings
<1>8. /\ \A p \in DOMAIN flat : \E i \in 1..Len(lists) : \E q \in DOMAIN lists[i] :
           /\ flat[p] = lists[i][q]
           /\ \A j \in 1..(i - 1) : \A r \in DOMAIN lists[j] :
                \E o \in 1..(p - 1) : flat[o] = lists[j][r]
      /\ \A i \in 1..Len(lists) : \A q \in DOMAIN lists[i] :
           \E p \in DOMAIN flat : flat[p] = lists[i][q]
  BY <1>7, Zenon DEF Strung
<1>. DEFINE a == Len(own)
            b == Len(flat)
<1>. HIDE DEF own, flat
<1>9. /\ a \in Nat /\ b \in Nat /\ DOMAIN own = 1..a /\ DOMAIN flat = 1..b
      /\ all \in Seq(Entries) /\ Len(all) = a + b
      /\ \A i \in 1..a : all[i] = own[i]
      /\ \A p \in 1..b : all[a + p] = flat[p]
  BY <1>2, <1>7
<1>. HIDE DEF all, a, b
<1>10. data \in Seq(Entries) /\ Upto(all, a + b, data)
  <2>1. FoldLeft(Add, <<>>, all) \in Seq(Entries)
        /\ Upto(all, Len(all), FoldLeft(Add, <<>>, all))
    BY <1>9, FoldIsUpto
  <2>. QED  BY <1>1, <1>9, <2>1, Zenon
<1>. HIDE DEF data
<1>11. /\ \A k \in DOMAIN data : \E i \in 1..(a + b) :
            data[k] = all[i] /\ \A j \in 1..(i - 1) : all[j].id # all[i].id
       /\ \A i \in 1..(a + b) : \E k \in DOMAIN data : data[k].id = all[i].id
       /\ \A k, l \in DOMAIN data : data[k].id = data[l].id => k = l
  BY <1>10, Zenon DEF Upto
<1>12. \A i \in 1..(a + b) : i \in 1..a \/ (i - a \in 1..b /\ i = a + (i - a))
  BY <1>9
<1>13. \A i \in 1..a : i \in 1..(a + b)
  BY <1>9
<1>14. \A p \in 1..b : a + p \in 1..(a + b)
  BY <1>9
\* The names in an answer are those of the aliases and of the lists.
<1>15. ASSUME NEW k \in DOMAIN data  PROVE data[k].id \in AllNames(got) /\ FirstHas(got, data[k])
  <2>1. PICK i \in 1..(a + b) : data[k] = all[i] /\ \A j \in 1..(i - 1) : all[j].id # all[i].id
    BY <1>11
  <2>2. CASE i \in 1..a
    <3>1. /\ i \in DOMAIN Aliases /\ data[k] = own[i]
          /\ data[k].id = Aliases[i] /\ data[k].from = Own
      BY <1>2, <1>9, <2>1, <2>2
    <3>2. data[k].id \in ToSet(Aliases)
      BY <3>1 DEF ToSet
    <3>. QED  BY <3>1, <3>2 DEF AllNames, FirstHas
  <2>3. CASE i \notin 1..a
    <3>. DEFINE p == i - a
    <3>1. p \in 1..b /\ i = a + p
      BY <1>12, <2>3
    <3>2. data[k] = flat[p]
      BY <1>9, <2>1, <3>1
    <3>3. PICK x \in 1..Len(lists) : \E q \in DOMAIN lists[x] :
             /\ flat[p] = lists[x][q]
             /\ \A j \in 1..(x - 1) : \A r \in DOMAIN lists[j] :
                  \E o \in 1..(p - 1) : flat[o] = lists[j][r]
      BY <1>8, <1>9, <3>1
    <3>4. PICK q \in DOMAIN lists[x] :
             /\ flat[p] = lists[x][q]
             /\ \A j \in 1..(x - 1) : \A r \in DOMAIN lists[j] :
                  \E o \in 1..(p - 1) : flat[o] = lists[j][r]
      BY <3>3
    <3>5. /\ x \in DOMAIN got /\ q \in DOMAIN got[x].models
          /\ data[k].id = got[x].models[q] /\ data[k].from = got[x].from
      <4>1. x \in DOMAIN got
        BY <1>4, <1>6
      <4>2. DOMAIN lists[x] = DOMAIN got[x].models
            /\ lists[x][q].id = got[x].models[q] /\ lists[x][q].from = got[x].from
        BY <1>5, <4>1
      <4>. QED  BY <3>2, <3>4, <4>1, <4>2, Zenon
    <3>6. data[k].id \in ToSet(got[x].models)
      BY <3>5 DEF ToSet
    <3>7. 1..a \subseteq 1..(i - 1) /\ \A o \in 1..(p - 1) : a + o \in 1..(i - 1) /\ o \in 1..b
      BY <1>9, <3>1
    <3>. HIDE DEF p
    <3>8. data[k].id \notin ToSet(Aliases)
      <4>. SUFFICES ASSUME NEW c \in DOMAIN Aliases, data[k].id = Aliases[c]  PROVE FALSE
        BY Zenon DEF ToSet
      <4>1. c \in 1..a /\ own[c].id = Aliases[c] /\ all[c] = own[c]
        BY <1>2, <1>9
      <4>. QED  BY <2>1, <3>7, <4>1, Zenon
    <3>9. ASSUME NEW j \in 1..(x - 1)  PROVE data[k].id \notin ToSet(got[j].models)
      <4>. SUFFICES ASSUME NEW r \in DOMAIN got[j].models, data[k].id = got[j].models[r]
                    PROVE  FALSE
        BY Zenon DEF ToSet
      <4>1. j \in DOMAIN got
        BY <3>5
      <4>2. r \in DOMAIN lists[j] /\ lists[j][r].id = got[j].models[r]
        BY <1>5, <4>1
      <4>3. PICK o \in 1..(p - 1) : flat[o] = lists[j][r]
        BY <3>4, <4>2
      <4>4. a + o \in 1..(i - 1) /\ all[a + o] = flat[o]
        BY <1>9, <3>7
      <4>. QED  BY <2>1, <4>2, <4>3, <4>4, Zenon
    <3>10. data[k].id \in AllNames(got)
      BY <3>5, <3>6, Zenon DEF AllNames
    <3>. QED  BY <3>5, <3>6, <3>8, <3>9, <3>10, Zenon DEF FirstHas
  <2>. QED  BY <2>2, <2>3
<1>16. ASSUME NEW id \in AllNames(got)  PROVE \E k \in DOMAIN data : data[k].id = id
  <2>1. CASE id \in ToSet(Aliases)
    <3>1. PICK c \in DOMAIN Aliases : id = Aliases[c]
      BY <2>1, Zenon DEF ToSet
    <3>2. c \in 1..(a + b) /\ all[c].id = id
      BY <1>2, <1>9, <1>13, <3>1
    <3>. QED  BY <1>11, <3>2, Zenon
  <2>2. CASE id \notin ToSet(Aliases)
    <3>1. PICK x \in DOMAIN got : id \in ToSet(got[x].models)
      BY <2>2, Zenon DEF AllNames
    <3>2. PICK q \in DOMAIN got[x].models : id = got[x].models[q]
      BY <3>1, Zenon DEF ToSet
    <3>3. x \in 1..Len(lists) /\ q \in DOMAIN lists[x] /\ lists[x][q].id = id
      BY <1>4, <1>5, <1>6, <3>2
    <3>4. PICK p \in DOMAIN flat : flat[p] = lists[x][q]
      BY <1>8, <3>3
    <3>5. a + p \in 1..(a + b) /\ all[a + p].id = id
      BY <1>9, <1>14, <3>3, <3>4
    <3>. QED  BY <1>11, <3>5, Zenon
  <2>. QED  BY <2>1, <2>2
<1>17. {data[k].id : k \in DOMAIN data} = AllNames(got)
  BY <1>15, <1>16
<1>18. Len(data) = Cardinality({data[k].id : k \in DOMAIN data})
  BY <1>10, <1>11, CountOfNames
<1>19. IsUnion(got, data)
  BY <1>15, <1>17, <1>18, Zenon DEF IsUnion
<1>. QED  BY <1>19 DEF data

\* An answer has the names of the aliases and of the lists the walk has brought,
\* each once, and from the first who has it, whatever the lists are.
THEOREM MergeIsTheUnion == CatalogSpec => []MergeIsUnion
<1>1. WalkInv => MergeIsUnion
  <2>. SUFFICES ASSUME WalkInv, NEW r \in Requests
                PROVE  IsUnion(walk[r].got, Merge(walk[r].got))
    BY Zenon DEF MergeIsUnion, IsUnion, FirstHas, AllNames
  <2>1. walk[r].got \in Seq(Got)
    BY DEF WalkInv, WalkTypes, Walks
  <2>. QED  BY <2>1, MergeGivesUnion
<1>. QED  BY <1>1, InitialWalk, WalkInvInductive, PTL DEF CatalogSpec

=============================================================================
