----------------------------- MODULE Admission -----------------------------
(***************************************************************************)
(* The count of requests in flight (try_admit and InflightGuard in         *)
(* src/src/proxy.rs).  A request reads the cap from the settings, raises   *)
(* the counter and compares what it held before with that cap; one that    *)
(* is refused lowers the counter again in a step of its own, and one that  *)
(* is admitted lowers it when its guard is dropped, however it ends.       *)
(***************************************************************************)
EXTENDS Integers, FiniteSets

CONSTANTS
  Requests,    \* the requests alive at once
  Caps         \* what max_inflight may be set to

ASSUME AdmissionAssumption == IsFiniteSet(Requests) /\ Caps \subseteq Nat \ {0}

VARIABLES
  max,         \* settings.max_inflight
  inflight,    \* AppState.inflight
  pc,          \* [Requests -> where the request is]
  cap          \* [Requests -> the cap it has read]

vars == <<max, inflight, pc, cap>>

In(phase) == {r \in Requests : pc[r] = phase}

TypeOK ==
  /\ max \in Caps
  /\ inflight \in Nat
  /\ pc \in [Requests -> {"idle", "asking", "refused", "held"}]
  /\ cap \in [Requests -> Caps \cup {0}]

Init ==
  /\ max \in Caps
  /\ inflight = 0
  /\ pc = [r \in Requests |-> "idle"]
  /\ cap = [r \in Requests |-> 0]

ReadCap(r) ==
  /\ pc[r] = "idle"
  /\ pc' = [pc EXCEPT ![r] = "asking"]
  /\ cap' = [cap EXCEPT ![r] = max]
  /\ UNCHANGED <<max, inflight>>

\* Mutant of Fits: one more than the cap fits.
FitsOneMore(r) == inflight <= cap[r]

Fits(r) == inflight < cap[r]

\* fetch_add, compared with the value it returned.
Claim(r) ==
  /\ pc[r] = "asking"
  /\ inflight' = inflight + 1
  /\ pc' = [pc EXCEPT ![r] = IF Fits(r) THEN "held" ELSE "refused"]
  /\ cap' = [cap EXCEPT ![r] = 0]
  /\ UNCHANGED max

\* Mutant of GiveBack: a refusal leaks its slot.
GiveBackNothing(r) ==
  /\ pc[r] = "refused"
  /\ pc' = [pc EXCEPT ![r] = "idle"]
  /\ UNCHANGED <<max, inflight, cap>>

GiveBack(r) ==
  /\ pc[r] = "refused"
  /\ inflight' = inflight - 1
  /\ pc' = [pc EXCEPT ![r] = "idle"]
  /\ UNCHANGED <<max, cap>>

\* The guard is dropped: the answer is out, the stream is over, the client is gone.
End(r) ==
  /\ pc[r] = "held"
  /\ inflight' = inflight - 1
  /\ pc' = [pc EXCEPT ![r] = "idle"]
  /\ UNCHANGED <<max, cap>>

SetMax ==
  /\ max' \in Caps \ {max}
  /\ UNCHANGED <<inflight, pc, cap>>

Next ==
  \/ SetMax
  \/ \E r \in Requests : ReadCap(r) \/ Claim(r) \/ GiveBack(r) \/ End(r)

Spec == Init /\ [][Next]_vars

-----------------------------------------------------------------------------
(***************************************************************************)
(* Properties                                                              *)
(***************************************************************************)

\* The counter is the requests admitted and the refusals not yet undone: no end
\* of a request leaks a slot or returns one it never had ("otherwise every shed
\* permanently shrinks the pool by one").
SlotsConserved == inflight = Cardinality(In("held")) + Cardinality(In("refused"))

\* A request is admitted only below the cap it was told, however claims, refusals
\* and changes of the cap interleave ("concurrent callers can never both observe
\* room and overshoot the cap").
NoOvershoot ==
  [][\A r \in Requests :
       pc[r] = "asking" /\ pc'[r] = "held" => Cardinality(In("held")) < cap[r]]_vars

-----------------------------------------------------------------------------
(***************************************************************************)
(* A promise of the documentation that Spec does not keep; README.md says  *)
(* on which instance TLC shows it.                                         *)
(***************************************************************************)

\* A request is refused only "when the proxy is already at max" (try_admit).
RefusedOnlyWhenFull ==
  [][\A r \in Requests :
       pc[r] = "asking" /\ pc'[r] = "refused" => Cardinality(In("held")) >= cap[r]]_vars

=============================================================================
