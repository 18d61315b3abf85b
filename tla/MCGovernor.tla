----------------------------- MODULE MCGovernor -----------------------------
(***************************************************************************)
(* One model, two keys, and the order of the intervals in the code:        *)
(* AdjustCooldown < EvidenceWindow <= GrowInterval < DissolveAfter.        *)
(***************************************************************************)
EXTENDS Governor

(***************************************************************************)
(* Unbounded time: at MaxTime = DissolveAfter + 1 every instant moves one  *)
(* tick back.  An instant at 0 is then DissolveAfter old or older, which   *)
(* no guard can tell apart.  Evidence out of its window is dropped on the  *)
(* way, as the next note_rebuff would, and so is its record in lastBy.     *)
(***************************************************************************)
Back(t) == IF t = NONE THEN NONE ELSE IF t > 0 THEN t - 1 ELSE 0

Rebase ==
  /\ now = MaxTime
  /\ now' = now - 1
  /\ lastAdjusted' = Back(lastAdjusted)
  /\ rebuffs' = {[b EXCEPT !.at = Back(@)] : b \in Current(rebuffs)}
  /\ lastRebuff' = Back(lastRebuff)
  /\ lastCut' = Back(lastCut)
  /\ lastBy' = [l \in Lanes |-> IF Passed(lastBy[l], EvidenceWindow) THEN NONE
                               ELSE Back(lastBy[l])]
  /\ UNCHANGED <<limit, callers>>

UnboundedSpec ==
  /\ Init /\ [][Next \/ Rebase]_vars
  /\ Fairness /\ WF_vars(Rebase)

=============================================================================
