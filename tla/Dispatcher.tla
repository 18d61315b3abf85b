----------------------------- MODULE Dispatcher -----------------------------
(***************************************************************************)
(* The global FIFO dispatcher (src/src/dispatch.rs) over the lanes of one  *)
(* pool (src/src/pool.rs), and what the proxy does to the lanes with the   *)
(* answers it gets (src/src/proxy.rs).                                     *)
(*                                                                         *)
(* A request calls acquire_for once for every step of its routing plan. It *)
(* joins the queue of the fairness gate; the request at its head holds the *)
(* gate, scans the lanes, and takes a slot, is told that no lane is        *)
(* eligible, or sleeps with the gate still held.  The scan and the grant   *)
(* are two steps, because another task may bench a lane between them, and  *)
(* both use the instant read at the scan.                                  *)
(***************************************************************************)
EXTENDS SlidingWindow, FiniteSets

CONSTANTS
  Requests,    \* the requests alive at once
  Lanes,       \* lane indices of the pool
  Provider,    \* [Lanes -> provider]
  Protocol,    \* [Lanes -> wire protocol]
  Rpm,         \* [Lanes -> requests per window]
  Weight,      \* [Sessions -> [Lanes -> Nat]], the rendezvous hash
  Wants,       \* what a plan step may ask for: [provider, protocol, session]
  ANY,         \* "no preference" for a field of a want
  Backoffs,    \* cooldowns a rebuff may impose (Retry-After, or the default)
  Poll,        \* the wait when no lane named an instant (100 ms in the code)
  MaxTime      \* horizon of the clock

ASSUME DispatcherAssumption ==
  /\ Lanes \subseteq Nat
  /\ Rpm \in [Lanes -> Nat \ {0}]
  /\ Backoffs \subseteq Nat
  /\ Poll \in Nat
  /\ MaxTime \in Nat

VARIABLES
  now,         \* the monotonic clock
  hits,        \* [Lanes -> hits of the lane's limiter]
  cooldown,    \* [Lanes -> instant its bench ends; 0 for never benched]
  queue,       \* requests in acquire_for, in arrival order; the head has the gate
  phase,       \* [Requests -> where the request is]
  want,        \* [Requests -> its plan step]
  tried,       \* [Requests -> lanes that already failed this request]
  lane,        \* [Requests -> lane of its scan's choice, then of its permit]
  scan         \* the gate holder's scan: when it read the clock, when to wake

lanes == <<hits, cooldown>>
vars == <<now, hits, cooldown, queue, phase, want, tried, lane, scan>>

Phases == {"idle", "queued", "chosen", "asleep", "granted"}

NoWant == [provider |-> ANY, protocol |-> ANY, session |-> ANY]
NoScan == [at |-> 0, wake |-> 0]

TypeOK ==
  /\ now \in Nat
  /\ hits \in [Lanes -> Seq(Nat)]
  /\ cooldown \in [Lanes -> Nat]
  /\ queue \in Seq(Requests)
  /\ phase \in [Requests -> Phases]
  /\ want \in [Requests -> Wants \cup {NoWant}]
  /\ tried \in [Requests -> SUBSET Lanes]
  /\ lane \in [Requests -> Lanes \cup {ANY}]
  /\ scan \in [at : Nat, wake : Nat]

Init ==
  /\ now = 0
  /\ hits = [l \in Lanes |-> << >>]
  /\ cooldown = [l \in Lanes |-> 0]
  /\ queue = << >>
  /\ phase = [r \in Requests |-> "idle"]
  /\ want = [r \in Requests |-> NoWant]
  /\ tried = [r \in Requests |-> {}]
  /\ lane = [r \in Requests |-> ANY]
  /\ scan = NoScan

-----------------------------------------------------------------------------
(***************************************************************************)
(* What a scan sees.                                                       *)
(***************************************************************************)
Matches(wanted, actual) == wanted \in {ANY, actual}

Eligible(r) ==
  {l \in Lanes : /\ Matches(want[r].provider, Provider[l])
                 /\ Matches(want[r].protocol, Protocol[l])
                 /\ l \notin tried[r]}

Benched(l) == cooldown[l] > now

Open(r) == {l \in Eligible(r) : ~Benched(l)}

WithRoom(r) == {l \in Open(r) : HasRoom(hits[l], Rpm[l], now)}

\* When each eligible lane that cannot serve now said it might.
Reopenings(r) ==
  {cooldown[l] : l \in Eligible(r) \ Open(r)}
    \cup {RetryAt(hits[l], now) : l \in Open(r) \ WithRoom(r)}

\* A conversation keeps its highest-weight lane among those with room; any
\* other request takes the emptiest, the lower index on a tie.
Preferred(r, l) ==
  IF want[r].session # ANY
  THEN \A k \in WithRoom(r) : Weight[want[r].session][k] <= Weight[want[r].session][l]
  ELSE \A k \in WithRoom(r) : \/ Load(hits[l], now) < Load(hits[k], now)
                              \/ Load(hits[l], now) = Load(hits[k], now) /\ l <= k

\* Mutant of Wakes: the sleep lasts to the latest reopening.
WakesLast(r) ==
  IF Reopenings(r) = {} THEN {now + Poll}
  ELSE {t \in Reopenings(r) : \A u \in Reopenings(r) : u <= t}

\* The instant a caller without a slot sleeps to: the soonest reopening.
Wakes(r) ==
  IF Reopenings(r) = {} THEN {now + Poll}
  ELSE {t \in Reopenings(r) : \A u \in Reopenings(r) : t <= u}

\* Mutant of HoldsGate: whoever is in acquire_for may scan.
ScansUngated(r) == \E i \in 1..Len(queue) : queue[i] = r

HoldsGate(r) == queue # << >> /\ Head(queue) = r

-----------------------------------------------------------------------------
(***************************************************************************)
(* acquire_for.  Its locals (want, scan) and the permit (lane) are reset   *)
(* where they go out of scope.                                             *)
(***************************************************************************)
Leave(r, to) ==
  /\ phase' = [phase EXCEPT ![r] = to]
  /\ want' = [want EXCEPT ![r] = NoWant]

Arrive(r, w) ==
  /\ phase[r] = "idle"
  /\ phase' = [phase EXCEPT ![r] = "queued"]
  /\ want' = [want EXCEPT ![r] = w]
  /\ queue' = Append(queue, r)
  /\ UNCHANGED <<now, lanes, tried, lane, scan>>

\* One pass over the lanes: it prunes the hits of every lane it weighs.
Scan(r) ==
  /\ HoldsGate(r)
  /\ \/ phase[r] = "queued"
     \/ phase[r] = "asleep" /\ scan.wake <= now
  /\ hits' = [l \in Lanes |-> IF l \in Open(r) THEN Prune(hits[l], now) ELSE hits[l]]
  /\ UNCHANGED <<now, cooldown, tried>>

ScanChooses(r) ==
  /\ Scan(r)
  /\ \E l \in WithRoom(r) : /\ Preferred(r, l)
                            /\ lane' = [lane EXCEPT ![r] = l]
  /\ \E t \in Wakes(r) : scan' = [at |-> now, wake |-> t]
  /\ phase' = [phase EXCEPT ![r] = "chosen"]
  /\ UNCHANGED <<queue, want>>

ScanRefuses(r) ==
  /\ Scan(r)
  /\ Eligible(r) = {}
  /\ Leave(r, "idle")
  /\ queue' = Tail(queue)
  /\ scan' = NoScan
  /\ UNCHANGED lane

ScanWaits(r) ==
  /\ Scan(r)
  /\ Eligible(r) # {}
  /\ WithRoom(r) = {}
  /\ \E t \in Wakes(r) : scan' = [at |-> now, wake |-> t]
  /\ phase' = [phase EXCEPT ![r] = "asleep"]
  /\ UNCHANGED <<queue, want, lane>>

\* try_acquire on the chosen lane, at the instant the scan read: a permit, or, if
\* the lane turned out full, the sleep of a caller that had chosen none.
Take(r) ==
  /\ HoldsGate(r)
  /\ phase[r] = "chosen"
  /\ IF HasRoom(hits[lane[r]], Rpm[lane[r]], scan.at)
     THEN /\ hits' = [hits EXCEPT ![lane[r]] = Hit(@, scan.at)]
          /\ Leave(r, "granted")
          /\ queue' = Tail(queue)
          /\ scan' = NoScan
     ELSE /\ hits' = [hits EXCEPT ![lane[r]] = Prune(@, scan.at)]
          /\ phase' = [phase EXCEPT ![r] = "asleep"]
          /\ UNCHANGED <<queue, want, scan>>
  /\ UNCHANGED <<now, cooldown, tried, lane>>

\* Mutant of Drop: a caller that is gone keeps its place in the queue.
DropKeepsPlace(r) ==
  /\ phase[r] \in {"queued", "asleep"}
  /\ Leave(r, "idle")
  /\ tried' = [tried EXCEPT ![r] = {}]
  /\ scan' = IF phase[r] = "asleep" THEN NoScan ELSE scan
  /\ UNCHANGED <<now, lanes, queue, lane>>

(***************************************************************************)
(* The caller is dropped at one of its awaits: its client is gone or its   *)
(* deadline passed.  It leaves the queue from any place, and the gate if   *)
(* it had it.                                                              *)
(***************************************************************************)
Drop(r) ==
  /\ phase[r] \in {"queued", "asleep"}
  /\ Leave(r, "idle")
  /\ tried' = [tried EXCEPT ![r] = {}]
  /\ \E i \in 1..Len(queue) :
       /\ queue[i] = r
       /\ queue' = SubSeq(queue, 1, i - 1) \o SubSeq(queue, i + 1, Len(queue))
  /\ scan' = IF phase[r] = "asleep" THEN NoScan ELSE scan
  /\ UNCHANGED <<now, lanes, lane>>

-----------------------------------------------------------------------------
(***************************************************************************)
(* The proxy's side: the request is sent on its permit and answered.       *)
(***************************************************************************)
GiveBack(r) ==
  /\ phase[r] = "granted"
  /\ phase' = [phase EXCEPT ![r] = "idle"]
  /\ lane' = [lane EXCEPT ![r] = ANY]
  /\ UNCHANGED <<now, hits, queue, want, scan>>

\* Answered for good, or its deadline passed while upstream.
Answered(r) ==
  /\ GiveBack(r)
  /\ tried' = [tried EXCEPT ![r] = {}]
  /\ UNCHANGED cooldown

\* Mutant of Rebuff: a later, shorter rest replaces a longer one.
RebuffShortens(r, backoff) ==
  /\ GiveBack(r)
  /\ cooldown' = [cooldown EXCEPT ![lane[r]] = now + backoff]
  /\ tried' = [tried EXCEPT ![r] = @ \cup {lane[r]}]

\* A retryable status: the lane is benched and the request moves on without it.
Rebuff(r, backoff) ==
  /\ GiveBack(r)
  /\ cooldown' = [cooldown EXCEPT ![lane[r]] =
                    IF @ > now + backoff THEN @ ELSE now + backoff]
  /\ tried' = [tried EXCEPT ![r] = @ \cup {lane[r]}]

\* The connection failed: the request moves on, the lane is not benched.
SendFails(r) ==
  /\ GiveBack(r)
  /\ tried' = [tried EXCEPT ![r] = @ \cup {lane[r]}]
  /\ UNCHANGED cooldown

\* The last step of the plan was the one that failed.
PlanExhausted(r) ==
  /\ phase[r] = "idle"
  /\ tried[r] # {}
  /\ tried' = [tried EXCEPT ![r] = {}]
  /\ UNCHANGED <<now, lanes, queue, phase, want, lane, scan>>

Tick ==
  /\ now < MaxTime
  /\ now' = now + 1
  /\ UNCHANGED <<lanes, queue, phase, want, tried, lane, scan>>

-----------------------------------------------------------------------------
GateStep(r) == ScanChooses(r) \/ ScanRefuses(r) \/ ScanWaits(r) \/ Take(r)

ProxyStep(r) ==
  Answered(r) \/ SendFails(r) \/ PlanExhausted(r) \/ \E b \in Backoffs : Rebuff(r, b)

Next ==
  \/ Tick
  \/ \E r \in Requests : \/ \E w \in Wants : Arrive(r, w)
                         \/ GateStep(r)
                         \/ Drop(r)
                         \/ ProxyStep(r)

\* The runtime polls a woken task eventually and time passes; nothing makes a
\* client go away or an upstream answer.
Fairness == WF_vars(Tick) /\ WF_vars(\E r \in Requests : GateStep(r))

Spec == Init /\ [][Next]_vars /\ Fairness

-----------------------------------------------------------------------------
(***************************************************************************)
(* Properties                                                              *)
(***************************************************************************)

\* A lane that a scan found with room still has room when the grant reaches it:
\* only the holder of the gate spends budget (the dispatcher's retry after a
\* failed try_acquire and its 100 ms poll are never needed on a fixed pool).
ChosenStillFree ==
  \A r \in Requests :
    phase[r] = "chosen" => HasRoom(hits[lane[r]], Rpm[lane[r]], scan.at)

\* The gate holder never sleeps through an opening: until it wakes, every lane
\* it may use is benched or has a full window (the wait is the soonest of the
\* reopenings, and benches only lengthen).
NoOversleep ==
  \A r \in Requests : phase[r] = "asleep" =>
    \A l \in Eligible(r) : \A t \in now .. scan.wake - 1 :
      cooldown[l] > t \/ ~HasRoom(hits[l], Rpm[l], t)

\* Callers inside acquire_for and the queue of the gate are the same thing: each
\* stands there once, and only the head is past the gate, whatever drops out.
GateHeldByHead ==
  /\ \A i, j \in 1..Len(queue) : queue[i] = queue[j] => i = j
  /\ \A r \in Requests :
       /\ phase[r] \in {"queued", "chosen", "asleep"} <=> \E i \in 1..Len(queue) : queue[i] = r
       /\ phase[r] \in {"chosen", "asleep"} => HoldsGate(r)

\* Every call of acquire_for ends, by a permit, a refusal or a drop, although
\* lanes keep being rebuffed: while a caller is at the head no new permit can be
\* handed out, so only the permits already out can prolong a bench.
EveryCallEnds ==
  \A r \in Requests : phase[r] = "queued" ~> phase[r] \in {"idle", "granted"}

=============================================================================
