----------------------------- MODULE MCLivePool -----------------------------
(***************************************************************************)
(* Two secrets, one of them in use at the start with two slots per window. *)
(* Whatever an operator enters has one: a limit may be lowered while its   *)
(* window holds more.                                                      *)
(***************************************************************************)
EXTENDS LivePool, TLC

CONSTANTS k1, k2

MCKeys == {k1, k2}
MCRpms == [k \in MCKeys |-> {1}]
MCFirstStore == << [key |-> k1, enabled |-> TRUE, rpm |-> 2] >>

MCSymmetry == Permutations(Callers) \cup Permutations(Slots)

=============================================================================
