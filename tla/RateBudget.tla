----------------------------- MODULE RateBudget -----------------------------
(***************************************************************************)
(* What the proxy promises about every key, with no queue, no scan and no  *)
(* pruning: slots are handed out at instants that never go back, and each  *)
(* only while fewer than Rpm slots of that lane lie in the window that     *)
(* ends with it (README of the repository: "Each key is held to its own    *)
(* limit").                                                                *)
(***************************************************************************)
EXTENDS Naturals, Sequences, FiniteSets

CONSTANTS Lanes, Rpm, Window

VARIABLES now, granted    \* the clock; [Lanes -> instants of the slots granted]

bvars == <<now, granted>>

InWindow(l, t) == {i \in 1..Len(granted[l]) : t < granted[l][i] + Window}

Init ==
  /\ now = 0
  /\ granted = [l \in Lanes |-> << >>]

\* A slot on l dated t, which may be a little before the clock.
Slot(l, t) ==
  /\ \A i \in 1..Len(granted[l]) : granted[l][i] <= t
  /\ Cardinality(InWindow(l, t)) < Rpm[l]
  /\ granted' = [granted EXCEPT ![l] = Append(@, t)]
  /\ UNCHANGED now

Tick ==
  /\ now' = now + 1
  /\ UNCHANGED granted

Next == Tick \/ \E l \in Lanes : \E t \in 0..now : Slot(l, t)

Spec == Init /\ [][Next]_bvars

=============================================================================
