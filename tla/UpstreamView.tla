---------------------------- MODULE UpstreamView ----------------------------
(***************************************************************************)
(* The dispatcher with the record of what it caused: the slots it granted, *)
(* the requests the upstream received on them, and the rests the upstream  *)
(* asked for.  These variables only observe; the one thing added to the    *)
(* behaviour is the forwarding delay, and the assumption JITTER_MARGIN     *)
(* (src/src/pool.rs) is made of: a request reaches the upstream within     *)
(* Margin of the instant its slot is dated.                                *)
(***************************************************************************)
EXTENDS Dispatcher

CONSTANTS
  ProviderWindow,   \* the provider's own rate window
  Margin            \* slack added to it by the lanes

ASSUME MarginAssumption ==
  /\ ProviderWindow \in Nat
  /\ Margin \in Nat
  /\ Window = ProviderWindow + Margin

VARIABLES
  granted,   \* [Lanes -> instants of all slots ever granted]
  slot,      \* [Requests -> number of its slot while it is on its way; else 0]
  arrived,   \* [Lanes -> arrivals at the upstream: which slot, when]
  rests      \* [Lanes -> rests asked for by rebuffs: when, until when]

view == <<granted, slot, arrived, rests>>
allvars == <<vars, view>>

ViewInit ==
  /\ Init
  /\ granted = [l \in Lanes |-> << >>]
  /\ slot = [r \in Requests |-> 0]
  /\ arrived = [l \in Lanes |-> {}]
  /\ rests = [l \in Lanes |-> {}]

-----------------------------------------------------------------------------
OnItsWay(r) == slot[r] # 0

DatedAt(r) == granted[lane[r]][slot[r]]

GrantSlot(r) ==
  /\ Take(r)
  /\ IF phase'[r] = "granted"
     THEN /\ granted' = [granted EXCEPT ![lane[r]] = Append(@, scan.at)]
          /\ slot' = [slot EXCEPT ![r] = Len(granted[lane[r]]) + 1]
     ELSE UNCHANGED <<granted, slot>>
  /\ UNCHANGED <<arrived, rests>>

\* The request reaches the upstream on the slot it was granted.
Send(r) ==
  /\ OnItsWay(r)
  /\ arrived' = [arrived EXCEPT ![lane[r]] = @ \cup {[slot |-> slot[r], at |-> now]}]
  /\ slot' = [slot EXCEPT ![r] = 0]
  /\ UNCHANGED <<vars, granted, rests>>

\* The upstream rebuffs a request that reached it.
SeeRebuff(r, backoff) ==
  /\ ~OnItsWay(r)
  /\ Rebuff(r, backoff)
  /\ rests' = [rests EXCEPT ![lane[r]] = @ \cup {[from |-> now, until |-> now + backoff]}]
  /\ UNCHANGED <<granted, slot, arrived>>

\* Any other end, which the request may meet on its way.
EndOnLane(r) ==
  /\ Answered(r) \/ SendFails(r)
  /\ slot' = [slot EXCEPT ![r] = 0]
  /\ UNCHANGED <<granted, arrived, rests>>

\* Steps that neither grant nor use a slot.
Unseen(r) ==
  /\ \/ \E w \in Wants : Arrive(r, w)
     \/ ScanChooses(r)
     \/ ScanRefuses(r)
     \/ ScanWaits(r)
     \/ Drop(r)
     \/ PlanExhausted(r)
  /\ UNCHANGED view

\* Forwarding takes less than the margin, counted from the date of the slot.
TickInTime ==
  /\ Tick
  /\ \A r \in Requests : /\ phase[r] = "chosen" => now < scan.at + Margin
                         /\ OnItsWay(r) => now < DatedAt(r) + Margin
  /\ UNCHANGED view

ViewNext ==
  \/ TickInTime
  \/ \E r \in Requests : \/ GrantSlot(r)
                         \/ Send(r)
                         \/ \E b \in Backoffs : SeeRebuff(r, b)
                         \/ EndOnLane(r)
                         \/ Unseen(r)

ViewSpec == ViewInit /\ [][ViewNext]_allvars

-----------------------------------------------------------------------------
(***************************************************************************)
(* Properties                                                              *)
(***************************************************************************)

\* Any Rpm + 1 consecutive slots of a lane span at least the enforcement window,
\* however requests queue, are dropped, fail over, bench lanes or are slow.
WithinBudget ==
  \A l \in Lanes : \A i \in 1..Len(granted[l]) :
    i + Rpm[l] <= Len(granted[l]) => granted[l][i] + Window <= granted[l][i + Rpm[l]]

\* The upstream never sees a violation: no arrival finds Rpm others of its key in
\* the provider's rolling window, although each was delayed on its own.
UpstreamNeverViolated ==
  \A l \in Lanes : \A a \in arrived[l] :
    Cardinality({b \in arrived[l] : b.at <= a.at /\ a.at < b.at + ProviderWindow}) <= Rpm[l]

\* Once the upstream asked for a rest, no slot of that key is dated inside it, a
\* shorter rest asked for later notwithstanding.
RestHonoured ==
  \A l \in Lanes : \A rest \in rests[l] : \A i \in 1..Len(granted[l]) :
    ~(rest.from < granted[l][i] /\ granted[l][i] < rest.until)

\* The dispatcher implements the abstract budget.
Budget == INSTANCE RateBudget WITH now <- now, granted <- granted
ImplementsRateBudget == Budget!Spec

=============================================================================
