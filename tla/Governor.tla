------------------------------ MODULE Governor ------------------------------
(***************************************************************************)
(* The model-pressure governor (src/src/governor.rs) and the callers that  *)
(* poll it (admit_model in src/src/proxy.rs), for one model: models share  *)
(* nothing.  Rebuffs of one model on distinct keys within EvidenceWindow   *)
(* put a cap on its concurrency; silence raises the cap and lifts it.      *)
(*                                                                         *)
(* admit reads the cap in one lock section and claims a slot in another,   *)
(* so they are two steps here.                                             *)
(***************************************************************************)
EXTENDS Naturals, FiniteSets

CONSTANTS
  Callers,         \* requests for the model
  Lanes,           \* keys that can serve it
  EvidenceWindow, KeysToIndict, DissolveAfter, AdjustCooldown, MinLimit,
  GrowInterval,    \* the module's constants, in ticks and permits
  NONE,            \* no instant (Option::None)
  MaxLimit,        \* bound on growth: above the number of callers no cap binds
  MaxTime          \* horizon of the clock

ASSUME GovernorAssumption ==
  /\ IsFiniteSet(Callers) /\ IsFiniteSet(Lanes)
  /\ NONE \notin Nat
  /\ KeysToIndict \in Nat \ {0}
  /\ MinLimit \in Nat \ {0}
  /\ EvidenceWindow \in Nat \ {0}
  /\ GrowInterval \in Nat
  /\ DissolveAfter \in Nat
  /\ AdjustCooldown \in Nat
  /\ AdjustCooldown <= GrowInterval
  /\ GrowInterval <= DissolveAfter
  /\ MaxLimit \in Nat
  /\ MaxTime \in Nat

VARIABLES
  now,            \* the monotonic clock
  limit,          \* concurrency cap; 0 for ungoverned
  inflight,       \* permits held
  rebuffs,        \* recent rebuffs: when, on which lane
  lastRebuff,     \* instant of the latest one
  lastAdjusted,   \* instant the cap last moved
  phase,          \* [Callers -> where the caller is]
  seen,           \* [Callers -> cap it read, between the two sections of admit]
  lastCut,        \* observer: instant of the latest cut
  lastBy          \* observer: [Lanes -> instant of its latest rebuff]

cap == <<limit, lastAdjusted>>
evidence == <<rebuffs, lastRebuff>>
callers == <<inflight, phase, seen>>
observers == <<lastCut, lastBy>>
vars == <<now, cap, evidence, callers, observers>>

Instants == Nat \cup {NONE}
Phases == {"idle", "waiting", "checking", "holding", "rebuffed"}

TypeOK ==
  /\ now \in Nat
  /\ limit \in Nat
  /\ inflight \in Nat
  /\ rebuffs \in SUBSET [at : Nat, lane : Lanes]
  /\ lastRebuff \in Instants
  /\ lastAdjusted \in Instants
  /\ phase \in [Callers -> Phases]
  /\ seen \in [Callers -> Nat]
  /\ lastCut \in Instants
  /\ lastBy \in [Lanes -> Instants]

Init ==
  /\ now = 0
  /\ limit = 0
  /\ inflight = 0
  /\ rebuffs = {}
  /\ lastRebuff = NONE
  /\ lastAdjusted = NONE
  /\ phase = [r \in Callers |-> "idle"]
  /\ seen = [r \in Callers |-> 0]
  /\ lastCut = NONE
  /\ lastBy = [l \in Lanes |-> NONE]

-----------------------------------------------------------------------------
\* At least d has passed since t, if t ever was.
Passed(t, d) == t # NONE /\ t + d <= now

Current(rs) == {b \in rs : now < b.at + EvidenceWindow}

\* Mutant of Implicated: rebuffs are counted, not the keys they came from.
ImplicatedRebuffs(rs) == rs

Implicated(rs) == {b.lane : b \in rs}

\* Half of what was in flight, but not below the floor.
BackedOff ==
  LET half == (IF inflight = 0 THEN 1 ELSE inflight) \div 2
  IN  IF half < MinLimit THEN MinLimit ELSE half

\* Mutant of Cut: the instant of the cut is not remembered.
CutUndated(to) ==
  /\ limit' = to
  /\ lastCut' = now
  /\ UNCHANGED lastAdjusted

Cut(to) ==
  /\ limit' = to
  /\ lastAdjusted' = now
  /\ lastCut' = now

-----------------------------------------------------------------------------
Ask(r) ==
  /\ phase[r] = "idle"
  /\ phase' = [phase EXCEPT ![r] = "waiting"]
  /\ UNCHANGED <<now, cap, evidence, inflight, seen, observers>>

\* Mutants of ReadCap: the cap dissolves without a silence; and it is for ever.
ReadCapDissolved(r) ==
  /\ phase[r] = "waiting"
  /\ limit' = 0 /\ lastAdjusted' = NONE
  /\ rebuffs' = {} /\ lastRebuff' = NONE
  /\ seen' = [seen EXCEPT ![r] = 0]
  /\ phase' = [phase EXCEPT ![r] = "checking"]
  /\ UNCHANGED <<now, inflight, observers>>

ReadFixedCap(r) ==
  /\ phase[r] = "waiting"
  /\ seen' = [seen EXCEPT ![r] = limit]
  /\ phase' = [phase EXCEPT ![r] = "checking"]
  /\ UNCHANGED <<now, cap, evidence, inflight, observers>>

\* First section of admit: the cap dissolves after a long silence, or grows
\* by one after a short one.
ReadCap(r) ==
  /\ phase[r] = "waiting"
  /\ \/ /\ Passed(lastRebuff, DissolveAfter)
        /\ limit' = 0
        /\ rebuffs' = {}
        /\ lastRebuff' = NONE
        /\ lastAdjusted' = NONE
     \/ /\ ~Passed(lastRebuff, DissolveAfter)
        /\ UNCHANGED evidence
        /\ IF /\ limit > 0
              /\ Passed(IF lastAdjusted # NONE THEN lastAdjusted ELSE lastRebuff, GrowInterval)
           THEN /\ limit' = IF limit < MaxLimit THEN limit + 1 ELSE limit
                /\ lastAdjusted' = now
           ELSE UNCHANGED cap
  /\ seen' = [seen EXCEPT ![r] = limit']
  /\ phase' = [phase EXCEPT ![r] = "checking"]
  /\ UNCHANGED <<now, inflight, observers>>

\* Second section, with the cap the first one returned.
Admit(r) ==
  /\ phase[r] = "checking"
  /\ seen[r] = 0 \/ inflight < seen[r]
  /\ inflight' = inflight + 1
  /\ phase' = [phase EXCEPT ![r] = "holding"]
  /\ seen' = [seen EXCEPT ![r] = 0]
  /\ UNCHANGED <<now, cap, evidence, observers>>

Refuse(r) ==
  /\ phase[r] = "checking"
  /\ seen[r] > 0
  /\ inflight >= seen[r]
  /\ phase' = [phase EXCEPT ![r] = "waiting"]
  /\ seen' = [seen EXCEPT ![r] = 0]
  /\ UNCHANGED <<now, cap, evidence, inflight, observers>>

\* Its deadline would pass during the next poll, or its client is gone.
GiveUp(r) ==
  /\ phase[r] = "waiting"
  /\ phase' = [phase EXCEPT ![r] = "idle"]
  /\ UNCHANGED <<now, cap, evidence, inflight, seen, observers>>

\* note_rebuff, while the caller's permit is still held.  A cut needs enough
\* keys implicated, no recent move of the cap, and a cap that was binding.
NoteRebuff(r, l) ==
  /\ phase[r] = "holding"
  /\ rebuffs' = Current(rebuffs) \cup {[at |-> now, lane |-> l]}
  /\ lastRebuff' = now
  /\ LET to == IF limit = 0 \/ BackedOff < limit THEN BackedOff ELSE limit
     IN  IF /\ Cardinality(Implicated(rebuffs')) >= KeysToIndict
            /\ lastAdjusted = NONE \/ Passed(lastAdjusted, AdjustCooldown)
            /\ limit = 0 \/ inflight >= limit
            /\ to # limit
         THEN Cut(to)
         ELSE UNCHANGED <<cap, lastCut>>
  /\ phase' = [phase EXCEPT ![r] = "rebuffed"]
  /\ lastBy' = [lastBy EXCEPT ![l] = now]
  /\ UNCHANGED <<now, inflight, seen>>

\* Mutant of Release: the permit of a rebuffed request is not returned.
ReleaseUnlessRebuffed(r) ==
  /\ phase[r] \in {"holding", "rebuffed"}
  /\ inflight' = IF phase[r] = "rebuffed" THEN inflight ELSE inflight - 1
  /\ phase' = [phase EXCEPT ![r] = "idle"]
  /\ UNCHANGED <<now, cap, evidence, seen, observers>>

\* The permit is dropped, however the request ends.
Release(r) ==
  /\ phase[r] \in {"holding", "rebuffed"}
  /\ inflight' = IF inflight = 0 THEN 0 ELSE inflight - 1
  /\ phase' = [phase EXCEPT ![r] = "idle"]
  /\ UNCHANGED <<now, cap, evidence, seen, observers>>

\* The operator's view dissolves a silent cap too, but keeps lastAdjusted.
Pressured ==
  /\ Passed(lastRebuff, DissolveAfter)
  /\ limit' = 0
  /\ rebuffs' = {}
  /\ lastRebuff' = NONE
  /\ UNCHANGED <<now, lastAdjusted, callers, observers>>

Tick ==
  /\ now < MaxTime
  /\ now' = now + 1
  /\ UNCHANGED <<cap, evidence, callers, observers>>

-----------------------------------------------------------------------------
Poll(r) == ReadCap(r) \/ Admit(r) \/ Refuse(r)

Next ==
  \/ Tick
  \/ Pressured
  \/ \E r \in Callers : \/ Ask(r)
                        \/ Poll(r)
                        \/ GiveUp(r)
                        \/ \E l \in Lanes : NoteRebuff(r, l)
                        \/ Release(r)

\* Time passes and the timer of a polling caller fires; upstreams may never answer.
Fairness == WF_vars(Tick) /\ \A r \in Callers : WF_vars(Poll(r))

Spec == Init /\ [][Next]_vars /\ Fairness

-----------------------------------------------------------------------------
(***************************************************************************)
(* Properties                                                              *)
(***************************************************************************)

\* The count in flight is the number of permits out: no path leaks or frees one
\* twice, and the saturating decrement never saturates.
PermitsConserved ==
  inflight = Cardinality({r \in Callers : phase[r] \in {"holding", "rebuffed"}})

\* A cap is never below the floor, however many episodes follow one another, and it
\* always remembers the rebuff whose age will lift it.
CapCanLift == limit # 0 => limit >= MinLimit /\ lastRebuff # NONE

IsCut == limit' # 0 /\ (limit = 0 \/ limit' < limit)

\* One episode, one cut: two cuts are AdjustCooldown apart, also when the cap was
\* dissolved in between by a caller or by the operator's view.
OneCutPerEpisode ==
  [][IsCut => lastCut = NONE \/ Passed(lastCut, AdjustCooldown)]_vars

\* A model is cut on the word of KeysToIndict distinct keys that were all rebuffed
\* within the evidence window: one bad key alone never governs it.
OneKeyNeverIndicts ==
  [][IsCut => Cardinality({l \in Lanes : lastBy'[l] # NONE /\ now < lastBy'[l] + EvidenceWindow})
                >= KeysToIndict]_vars

\* Climbing back is slow: the cap does not grow within GrowInterval of a cut.
NoGrowthAfterCut ==
  [][limit # 0 /\ limit' > limit => Passed(lastCut, GrowInterval)]_vars

\* Once the rebuffs stop, every caller at the cap is admitted or gives up, even if
\* no permit is ever returned.
QuietEndsWaiting ==
  \A r \in Callers :
    \/ []<><<\E q \in Callers, l \in Lanes : NoteRebuff(q, l)>>_vars
    \/ phase[r] = "waiting" ~> phase[r] \notin {"waiting", "checking"}

-----------------------------------------------------------------------------
(***************************************************************************)
(* Promises of the documentation that Spec does not keep; README.md says   *)
(* on which instance TLC shows it.                                         *)
(***************************************************************************)

\* "Claim a concurrency slot on model, or None when it is at its cap."
\* (src/src/governor.rs, admit)
NoneAtItsCap ==
  [][inflight' > inflight /\ limit > 0 => inflight < limit]_vars

\* "Once two distinct keys are implicated the model is governed."
\* (src/src/governor.rs, note_rebuff)
GovernedOnceImplicated ==
  [][\A r \in Callers, l \in Lanes :
       NoteRebuff(r, l) /\ Cardinality(Implicated(rebuffs')) >= KeysToIndict => limit' > 0]_vars

=============================================================================
