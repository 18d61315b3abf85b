---------------------------- MODULE MCDispatcher ----------------------------
(***************************************************************************)
(* A pool of two keys: lane 1 is provider "a" speaking one protocol, lane  *)
(* 2 is provider "b" speaking the other.                                   *)
(***************************************************************************)
EXTENDS Dispatcher

MCLanes == {1, 2}
MCProvider == [l \in MCLanes |-> IF l = 1 THEN "a" ELSE "b"]
MCProtocol == [l \in MCLanes |-> IF l = 1 THEN "openai" ELSE "anthropic"]
MCRpm == [l \in MCLanes |-> 1]
MCWeight == [s \in {"s"} |-> [l \in MCLanes |-> 3 - l]]

MCWants == {NoWant, [NoWant EXCEPT !.provider = "b", !.session = "s"]}

MCBackoffs == {2}

(***************************************************************************)
(* Unbounded time in a finite state space.  Every guard compares instants, *)
(* so moving all of them back by one tick changes nothing as long as what  *)
(* is past stays past: a hit at 0 has left the window of any clock that    *)
(* reads Window or later.  MaxTime is Window + 1, so the clock alternates  *)
(* between the two and no behaviour ends at a horizon, which would excuse  *)
(* any starvation.  The clock cannot move back under a scan that has not   *)
(* been acted upon, so the model has at most one tick between the two.     *)
(***************************************************************************)
Back(t) == IF t > 0 THEN t - 1 ELSE 0

Rebase ==
  /\ now = MaxTime
  /\ \A r \in Requests : phase[r] # "chosen"
  /\ now' = now - 1
  /\ hits' = [l \in Lanes |-> [i \in DOMAIN hits[l] |-> Back(hits[l][i])]]
  /\ cooldown' = [l \in Lanes |-> Back(cooldown[l])]
  /\ scan' = [at |-> Back(scan.at), wake |-> Back(scan.wake)]
  /\ UNCHANGED <<queue, phase, want, tried, lane>>

UnboundedSpec ==
  /\ Init /\ [][Next \/ Rebase]_vars
  /\ Fairness /\ WF_vars(Rebase)

=============================================================================
