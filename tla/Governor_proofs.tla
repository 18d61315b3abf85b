--------------------------- MODULE Governor_proofs ---------------------------
(***************************************************************************)
(* Proofs about the governor, for any number of callers and keys and any   *)
(* intervals ordered as the code's are.                                    *)
(***************************************************************************)
EXTENDS Governor, FiniteSetTheorems, TLAPS

Asked(r) == Ask(r) \/ GiveUp(r) \/ Admit(r) \/ Refuse(r) \/ Release(r)

LEMMA BackedOffType ==
  ASSUME TypeOK
  PROVE  BackedOff \in Nat /\ MinLimit <= BackedOff /\ 0 < BackedOff
BY GovernorAssumption DEF TypeOK, BackedOff

-----------------------------------------------------------------------------
LEMMA TypeInductive == ASSUME TypeOK, [Next]_vars PROVE TypeOK'
<1>. USE GovernorAssumption
<1>1. CASE Tick
  BY <1>1 DEF TypeOK, Tick, cap, evidence, callers, observers
<1>2. CASE Pressured
  BY <1>2 DEF TypeOK, Pressured, callers, observers, Instants
<1>3. ASSUME NEW r \in Callers, Ask(r) PROVE TypeOK'
  BY <1>3 DEF TypeOK, Ask, cap, evidence, observers, Phases
<1>4. ASSUME NEW r \in Callers, ReadCap(r) PROVE TypeOK'
  <2>1. limit' \in Nat /\ lastAdjusted' \in Instants
    BY <1>4 DEF TypeOK, ReadCap, cap, Instants
  <2>2. rebuffs' \in SUBSET [at : Nat, lane : Lanes] /\ lastRebuff' \in Instants
    BY <1>4 DEF TypeOK, ReadCap, evidence, Instants
  <2>. QED  BY <1>4, <2>1, <2>2 DEF TypeOK, ReadCap, observers, Phases
<1>5. ASSUME NEW r \in Callers, Admit(r) PROVE TypeOK'
  BY <1>5 DEF TypeOK, Admit, cap, evidence, observers, Phases
<1>6. ASSUME NEW r \in Callers, Refuse(r) PROVE TypeOK'
  BY <1>6 DEF TypeOK, Refuse, cap, evidence, observers, Phases
<1>7. ASSUME NEW r \in Callers, GiveUp(r) PROVE TypeOK'
  BY <1>7 DEF TypeOK, GiveUp, cap, evidence, observers, Phases
<1>8. ASSUME NEW r \in Callers, NEW l \in Lanes, NoteRebuff(r, l) PROVE TypeOK'
  <2>1. limit' \in Nat /\ lastAdjusted' \in Instants /\ lastCut' \in Instants
    BY <1>8, BackedOffType DEF TypeOK, NoteRebuff, Cut, cap, Instants
  <2>2. rebuffs' \in SUBSET [at : Nat, lane : Lanes]
    BY <1>8 DEF TypeOK, NoteRebuff, Current
  <2>3. lastRebuff' \in Instants /\ lastBy' \in [Lanes -> Instants]
    BY <1>8 DEF TypeOK, NoteRebuff, Instants
  <2>4. phase' \in [Callers -> Phases]
    BY <1>8 DEF TypeOK, NoteRebuff, Phases
  <2>. QED  BY <1>8, <2>1, <2>2, <2>3, <2>4 DEF TypeOK, NoteRebuff
<1>9. ASSUME NEW r \in Callers, Release(r) PROVE TypeOK'
  BY <1>9 DEF TypeOK, Release, cap, evidence, observers, Phases
<1>10. CASE UNCHANGED vars
  BY <1>10 DEF TypeOK, vars, cap, evidence, callers, observers
<1>. QED
  BY <1>1, <1>2, <1>3, <1>4, <1>5, <1>6, <1>7, <1>8, <1>9, <1>10 DEF Next, Poll

\* Every variable of the governor keeps its type.
THEOREM GovernorTypes == Spec => []TypeOK
<1>1. Init => TypeOK
  BY DEF Init, TypeOK, Instants, Phases
<1>. QED  BY <1>1, TypeInductive, PTL DEF Spec

-----------------------------------------------------------------------------
(***************************************************************************)
(* When the cap last moved, and when it was last cut.  Pressured forgets   *)
(* the last rebuff but not the last move, ReadCap forgets both, but only   *)
(* DissolveAfter later: so a remembered move is never older than the last  *)
(* cut, and a forgotten one leaves the last cut far behind.                *)
(***************************************************************************)
CutInv ==
  /\ lastAdjusted # NONE => lastAdjusted <= now
  /\ lastRebuff # NONE => lastRebuff <= now
  /\ limit # 0 => MinLimit <= limit /\ lastRebuff # NONE /\ lastCut # NONE
  /\ lastCut # NONE =>
       /\ lastCut <= now
       /\ lastRebuff # NONE => lastCut <= lastRebuff
       /\ lastAdjusted # NONE => lastCut <= lastAdjusted
       /\ lastAdjusted = NONE => lastCut + DissolveAfter <= now

LEMMA CutInvInductive == ASSUME TypeOK, CutInv, [Next]_vars PROVE CutInv'
<1>. USE GovernorAssumption
<1>1. CASE Tick
  BY <1>1 DEF TypeOK, CutInv, Tick, cap, evidence, observers, Instants
<1>2. CASE Pressured
  BY <1>2 DEF TypeOK, CutInv, Pressured, observers, Instants
<1>3. ASSUME NEW r \in Callers, Asked(r) PROVE CutInv'
  <2>1. UNCHANGED <<now, cap, evidence, observers>>
    BY <1>3 DEF Asked, Ask, GiveUp, Admit, Refuse, Release
  <2>. QED  BY <2>1 DEF CutInv, cap, evidence, observers
<1>4. ASSUME NEW r \in Callers, ReadCap(r) PROVE CutInv'
  <2>1. CASE Passed(lastRebuff, DissolveAfter)
    BY <1>4, <2>1 DEF TypeOK, CutInv, ReadCap, observers, Instants, Passed
  <2>2. CASE ~Passed(lastRebuff, DissolveAfter)
    <3>1. UNCHANGED evidence /\ UNCHANGED observers /\ now' = now
      BY <1>4, <2>2 DEF ReadCap
    <3>2. \/ UNCHANGED cap
          \/ limit > 0 /\ limit' \in {limit, limit + 1} /\ lastAdjusted' = now
      BY <1>4, <2>2 DEF ReadCap
    <3>. QED
      BY <3>1, <3>2 DEF TypeOK, CutInv, cap, evidence, observers, Instants
  <2>. QED  BY <2>1, <2>2
<1>5. ASSUME NEW r \in Callers, NEW l \in Lanes, NoteRebuff(r, l) PROVE CutInv'
  <2>1. lastRebuff' = now /\ now' = now
    BY <1>5 DEF NoteRebuff
  <2>2. \/ UNCHANGED <<cap, lastCut>>
        \/ /\ limit' \in {limit, BackedOff} /\ limit' # limit
           /\ lastAdjusted' = now /\ lastCut' = now
    BY <1>5 DEF NoteRebuff, Cut
  <2>. QED
    BY <2>1, <2>2, BackedOffType DEF TypeOK, CutInv, cap, Instants
<1>6. CASE UNCHANGED vars
  BY <1>6 DEF CutInv, vars, cap, evidence, observers
<1>. QED
  BY <1>1, <1>2, <1>3, <1>4, <1>5, <1>6 DEF Next, Poll, Asked

LEMMA CutInvAlways == Spec => [](TypeOK /\ CutInv)
<1>1. Init => TypeOK /\ CutInv
  BY DEF Init, TypeOK, CutInv, Instants, Phases
<1>2. TypeOK /\ CutInv /\ [Next]_vars => (TypeOK /\ CutInv)'
  BY TypeInductive, CutInvInductive
<1>. QED  BY <1>1, <1>2, PTL DEF Spec

\* A cap is at the floor or above it, and the rebuff that will lift it is known.
THEOREM CapsCanLift == Spec => []CapCanLift
<1>1. TypeOK /\ CutInv => CapCanLift
  BY GovernorAssumption DEF TypeOK, CutInv, CapCanLift
<1>. QED  BY <1>1, CutInvAlways, PTL

\* What makes the cap move: only note_rebuff lowers it, only ReadCap raises it.
LEMMA OnlyRebuffsCut ==
  ASSUME TypeOK, CutInv, [Next]_vars, IsCut
  PROVE  \E r \in Callers, l \in Lanes :
           NoteRebuff(r, l) /\ Cut(limit')
             /\ Cardinality(Implicated(rebuffs')) >= KeysToIndict
             /\ (lastAdjusted = NONE \/ Passed(lastAdjusted, AdjustCooldown))
<1>1. limit' # limit
  BY DEF IsCut, TypeOK
<1>2. ~Tick /\ ~Pressured /\ ~UNCHANGED vars
  BY <1>1 DEF Tick, Pressured, IsCut, vars, cap
<1>3. ASSUME NEW r \in Callers, Asked(r) PROVE FALSE
  BY <1>1, <1>3 DEF Asked, Ask, GiveUp, Admit, Refuse, Release, cap
<1>4. ASSUME NEW r \in Callers, ReadCap(r) PROVE FALSE
  <2>1. limit' = 0 \/ limit' = limit \/ (limit > 0 /\ limit' = limit + 1)
    BY <1>4 DEF ReadCap, cap
  <2>. QED  BY <1>1, <2>1 DEF IsCut, TypeOK
<1>5. PICK r \in Callers, l \in Lanes : NoteRebuff(r, l)
  BY <1>2, <1>3, <1>4 DEF Next, Poll, Asked
<1>. QED  BY <1>1, <1>5 DEF NoteRebuff, Cut, cap

\* One episode of pressure cuts the cap once: whatever grew, dissolved or was looked at
\* in between, two cuts are AdjustCooldown apart.
THEOREM EpisodesCutOnce == Spec => OneCutPerEpisode
<1>1. ASSUME TypeOK, CutInv, [Next]_vars, IsCut
      PROVE  lastCut = NONE \/ Passed(lastCut, AdjustCooldown)
  <2>1. lastAdjusted = NONE \/ Passed(lastAdjusted, AdjustCooldown)
    BY <1>1, OnlyRebuffsCut
  <2>. QED
    BY <1>1, <2>1, GovernorAssumption DEF TypeOK, CutInv, Passed, Instants
<1>2. TypeOK /\ CutInv /\ [Next]_vars
        => [IsCut => lastCut = NONE \/ Passed(lastCut, AdjustCooldown)]_vars
  BY <1>1
<1>. QED  BY <1>2, CutInvAlways, PTL DEF Spec, OneCutPerEpisode

\* After a cut the cap does not climb for GrowInterval.
THEOREM ClimbingIsSlow == Spec => NoGrowthAfterCut
<1>1. ASSUME TypeOK, CutInv, [Next]_vars, limit # 0, limit' > limit
      PROVE  Passed(lastCut, GrowInterval)
  <2>1. ASSUME NEW r \in Callers, ReadCap(r) PROVE Passed(lastCut, GrowInterval)
    <3>1. limit' # 0 /\ limit' # limit
      BY <1>1, TypeInductive DEF TypeOK
    <3>2. Passed(IF lastAdjusted # NONE THEN lastAdjusted ELSE lastRebuff, GrowInterval)
      BY <2>1, <3>1 DEF ReadCap, cap
    <3>. QED
      BY <1>1, <3>2, GovernorAssumption DEF TypeOK, CutInv, Passed, Instants
  <2>2. ASSUME NEW r \in Callers, NEW l \in Lanes, NoteRebuff(r, l) PROVE FALSE
    <3>1. limit' = limit \/ (limit' = BackedOff /\ BackedOff < limit)
      BY <1>1, <2>2, BackedOffType DEF NoteRebuff, Cut, cap, TypeOK
    <3>. QED  BY <1>1, <3>1, BackedOffType DEF TypeOK
  <2>3. ASSUME NEW r \in Callers, Asked(r) PROVE FALSE
    BY <1>1, <2>3 DEF Asked, Ask, GiveUp, Admit, Refuse, Release, cap, TypeOK
  <2>4. ~Tick /\ ~Pressured /\ ~UNCHANGED vars
    BY <1>1 DEF Tick, Pressured, vars, cap, TypeOK
  <2>. QED  BY <1>1, <2>1, <2>2, <2>3, <2>4 DEF Next, Poll, Asked
<1>2. TypeOK /\ CutInv /\ [Next]_vars
        => [limit # 0 /\ limit' > limit => Passed(lastCut, GrowInterval)]_vars
  BY <1>1
<1>. QED  BY <1>2, CutInvAlways, PTL DEF Spec, NoGrowthAfterCut

-----------------------------------------------------------------------------
\* The evidence kept is evidence: each remembered rebuff is no younger than the latest
\* one of its key.
EvidenceInv ==
  \A b \in rebuffs : lastBy[b.lane] # NONE /\ b.at <= lastBy[b.lane] /\ b.at <= now

LEMMA EvidenceInvInductive == ASSUME TypeOK, EvidenceInv, [Next]_vars PROVE EvidenceInv'
<1>. USE GovernorAssumption
<1>1. CASE UNCHANGED <<rebuffs, lastBy>> /\ (now' = now \/ now' = now + 1)
  BY <1>1 DEF TypeOK, EvidenceInv
<1>2. CASE rebuffs' = {}
  BY <1>2 DEF EvidenceInv
<1>3. ASSUME NEW r \in Callers, NEW l \in Lanes, NoteRebuff(r, l) PROVE EvidenceInv'
  <2>1. /\ rebuffs' = Current(rebuffs) \cup {[at |-> now, lane |-> l]}
        /\ lastBy' = [lastBy EXCEPT ![l] = now] /\ now' = now
    BY <1>3 DEF NoteRebuff
  <2>. SUFFICES ASSUME NEW b \in rebuffs'
                PROVE  lastBy'[b.lane] # NONE /\ b.at <= lastBy'[b.lane] /\ b.at <= now
    BY <2>1 DEF EvidenceInv
  <2>2. CASE b.lane = l
    <3>1. b.at <= now
      BY <2>1 DEF EvidenceInv, Current, TypeOK
    <3>. QED  BY <2>1, <2>2, <3>1 DEF TypeOK
  <2>3. CASE b.lane # l
    <3>1. b \in rebuffs
      BY <2>1, <2>3 DEF Current
    <3>2. b.lane \in Lanes
      BY <3>1 DEF TypeOK
    <3>3. lastBy'[b.lane] = lastBy[b.lane]
      BY <2>1, <2>3, <3>2 DEF TypeOK
    <3>. QED  BY <3>1, <3>3 DEF EvidenceInv
  <2>. QED  BY <2>2, <2>3
<1>4. CASE Tick
  BY <1>1, <1>4 DEF Tick, evidence, observers
<1>5. CASE Pressured
  BY <1>2, <1>5 DEF Pressured
<1>6. ASSUME NEW r \in Callers, ReadCap(r) PROVE EvidenceInv'
  BY <1>1, <1>2, <1>6 DEF ReadCap, evidence, observers
<1>7. ASSUME NEW r \in Callers, Asked(r) PROVE EvidenceInv'
  BY <1>1, <1>7 DEF Asked, Ask, GiveUp, Admit, Refuse, Release, evidence, observers
<1>8. CASE UNCHANGED vars
  BY <1>1, <1>8 DEF vars, evidence, observers
<1>. QED
  BY <1>3, <1>4, <1>5, <1>6, <1>7, <1>8 DEF Next, Poll, Asked

\* A model is cut only when KeysToIndict distinct keys were rebuffed within the
\* evidence window.
THEOREM KeysIndictTogether == Spec => OneKeyNeverIndicts
<1>. DEFINE Rebuffed == {l \in Lanes : lastBy'[l] # NONE /\ now < lastBy'[l] + EvidenceWindow}
<1>1. ASSUME TypeOK, CutInv, EvidenceInv, [Next]_vars, IsCut
      PROVE  Cardinality(Rebuffed) >= KeysToIndict
  <2>. USE GovernorAssumption
  <2>1. PICK r \in Callers, l \in Lanes :
          NoteRebuff(r, l) /\ Cardinality(Implicated(rebuffs')) >= KeysToIndict
    BY <1>1, OnlyRebuffsCut
  <2>2. rebuffs' = Current(rebuffs) \cup {[at |-> now, lane |-> l]} /\ now' = now
    BY <2>1 DEF NoteRebuff
  <2>3. EvidenceInv' /\ TypeOK'
    BY <1>1, EvidenceInvInductive, TypeInductive
  <2>4. ASSUME NEW b \in rebuffs'  PROVE b.lane \in Rebuffed
    <3>1. b.at \in Nat /\ b.lane \in Lanes /\ lastBy'[b.lane] # NONE
          /\ b.at <= lastBy'[b.lane] /\ lastBy'[b.lane] \in Nat
      BY <2>3 DEF TypeOK, EvidenceInv, Instants
    <3>2. now < b.at + EvidenceWindow \/ b.at = now
      BY <2>2 DEF Current
    <3>3. now \in Nat
      BY <1>1 DEF TypeOK
    <3>. QED  BY <3>1, <3>2, <3>3
  <2>5. Implicated(rebuffs') \subseteq Rebuffed
    BY <2>4 DEF Implicated
  <2>6. IsFiniteSet(Rebuffed)
    BY FS_Subset
  <2>7. Cardinality(Implicated(rebuffs')) <= Cardinality(Rebuffed)
    BY <2>5, <2>6, FS_Subset
  <2>8. Cardinality(Implicated(rebuffs')) \in Nat /\ Cardinality(Rebuffed) \in Nat
    BY <2>5, <2>6, FS_Subset, FS_CardinalityType
  <2>. HIDE DEF Rebuffed
  <2>. QED  BY <2>1, <2>7, <2>8
<1>2. Init => EvidenceInv
  BY DEF Init, EvidenceInv
<1>3. TypeOK /\ EvidenceInv /\ [Next]_vars => EvidenceInv'
  BY EvidenceInvInductive
<1>4. TypeOK /\ CutInv /\ EvidenceInv /\ [Next]_vars
        => [IsCut => Cardinality(Rebuffed) >= KeysToIndict]_vars
  BY <1>1
<1>. QED  BY <1>2, <1>3, <1>4, CutInvAlways, PTL DEF Spec, OneKeyNeverIndicts

-----------------------------------------------------------------------------
Holders == {r \in Callers : phase[r] \in {"holding", "rebuffed"}}

PermitInv == IsFiniteSet(Holders) /\ inflight = Cardinality(Holders)

LEMMA PermitInvInductive == ASSUME TypeOK, PermitInv, [Next]_vars PROVE PermitInv'
<1>. USE GovernorAssumption
<1>1. CASE inflight' = inflight /\ Holders' = Holders
  BY <1>1 DEF PermitInv
<1>2. ASSUME NEW r \in Callers, Admit(r) PROVE PermitInv'
  <2>1. r \notin Holders /\ Holders' = Holders \cup {r} /\ inflight' = inflight + 1
    BY <1>2 DEF Admit, Holders, TypeOK
  <2>. QED  BY <2>1, FS_AddElement DEF PermitInv
<1>3. ASSUME NEW r \in Callers, Release(r) PROVE PermitInv'
  <2>1. r \in Holders /\ Holders' = Holders \ {r}
    BY <1>3 DEF Release, Holders, TypeOK
  <2>2. inflight # 0
    BY <2>1, FS_EmptySet DEF PermitInv
  <2>3. inflight' = inflight - 1
    BY <1>3, <2>2 DEF Release
  <2>. QED  BY <2>1, <2>3, FS_RemoveElement DEF PermitInv
<1>4. ASSUME NEW r \in Callers, Ask(r) \/ ReadCap(r) \/ Refuse(r) \/ GiveUp(r) PROVE PermitInv'
  <2>1. inflight' = inflight /\ Holders' = Holders
    BY <1>4 DEF Ask, ReadCap, Refuse, GiveUp, Holders, TypeOK
  <2>. QED  BY <1>1, <2>1
<1>5. ASSUME NEW r \in Callers, NEW l \in Lanes, NoteRebuff(r, l) PROVE PermitInv'
  <2>1. inflight' = inflight /\ Holders' = Holders
    BY <1>5 DEF NoteRebuff, Holders, TypeOK
  <2>. QED  BY <1>1, <2>1
<1>6. CASE Tick \/ Pressured \/ UNCHANGED vars
  BY <1>1, <1>6 DEF Tick, Pressured, vars, callers, Holders
<1>. QED
  BY <1>2, <1>3, <1>4, <1>5, <1>6 DEF Next, Poll

\* Permits out and the count in flight agree, so no permit is lost or returned twice.
THEOREM PermitsAreConserved == Spec => []PermitsConserved
<1>1. Init => PermitInv
  <2>1. Init => Holders = {}
    BY DEF Init, Holders
  <2>. QED  BY <2>1, FS_EmptySet DEF Init, PermitInv
<1>2. PermitInv => PermitsConserved
  BY DEF PermitInv, PermitsConserved, Holders
<1>3. TypeOK /\ PermitInv /\ [Next]_vars => PermitInv'
  BY PermitInvInductive
<1>. QED  BY <1>1, <1>2, <1>3, GovernorTypes, PTL DEF Spec

=============================================================================
