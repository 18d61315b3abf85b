---------------------------- MODULE RequestPlan ----------------------------
(***************************************************************************)
(* One request on its way through the proxy (handle and stream_proxy in    *)
(* src/src/proxy.rs): the routing plan it walks, the lanes it gives up on, *)
(* the plain re-send of a stream, the deadline, and the answer its client  *)
(* gets in the end.                                                        *)
(*                                                                         *)
(* A stream is written to its client through a channel of a few places.    *)
(* While the client does not read, the stream stands at a send; the        *)
(* deadline is not around that.  The first heartbeat finds the channel     *)
(* empty.                                                                  *)
(*                                                                         *)
(* The dispatcher is seen from outside: a lane the step may use is granted *)
(* some time, or the request is told that there is none.  The live pool    *)
(* may be swapped while the request is under way, and everything the       *)
(* request remembers of a lane is its index.                               *)
(***************************************************************************)
EXTENDS Naturals, Sequences

CONSTANTS
  Keys,        \* the upstream keys
  ProviderOf,  \* [Keys -> provider]
  Pools,       \* the lane orders the live pool may have
  Aliases,     \* target lists of the configured aliases
  Offerings,   \* what the catalog may know of a model: providers in name order
  ANY,         \* a step without a provider, or without a model of its own
  MaxSwaps     \* how often the live pool is swapped at most

Distinct(s) == \A i, j \in DOMAIN s : s[i] = s[j] => i = j

ASSUME PlanAssumption ==
  /\ Pools \subseteq {p \in Seq(Keys) : Distinct(p)}
  \* The catalog has one entry for a provider.
  /\ \A o \in Offerings : LET names == {o[i] : i \in DOMAIN o}
                          IN  o \in Seq(names) /\ Distinct(o) /\ ANY \notin names
  /\ MaxSwaps \in Nat

VARIABLES
  pool,        \* the live pool: the key of each lane
  swaps,       \* how often it was swapped
  dislikes,    \* what each provider answers 400 to: nothing, the field, the body
  learned,     \* no_inject: the requested names stream_options is not added for
  pc,          \* where the request is
  rq,          \* what it is: its alias (or ANY), a stream, its plan
  step,        \* the step of the plan it is at
  tried,       \* excluded: the lane indices that failed it
  permit,      \* the lane it was granted, by index, and the key behind it then
  extended,    \* its body still carries the stream_options the proxy added
  retried,     \* retried_plain: the addition was undone
  late,        \* its deadline, when it has one, has passed
  answer,      \* what its client got
  sent,        \* history: the keys it was sent to, and the model asked for
  failed       \* history: the keys that failed it

request == <<pc, rq, step, tried, permit, extended, retried, late, answer>>
history == <<sent, failed>>
vars == <<pool, swaps, dislikes, learned, request, history>>

Providers == {ProviderOf[k] : k \in Keys}
Models == {ANY} \cup UNION {{a[i].model : i \in DOMAIN a} : a \in Aliases}
Waiting == {"step", "queued", "beating", "upstream"}
\* Where a stream stands when its client does not read: at a heartbeat, at a chunk
\* of the answer, at the error it ends with.
AtClient == {"beating", "sending", "telling"}
Refusals == {"429", "5xx", "502", "503"}
NoPermit == [lane |-> 0, key |-> ANY]
NoRequest == [alias |-> ANY, stream |-> FALSE, plan |-> << >>]

Init ==
  /\ pool \in Pools
  /\ swaps = 0
  /\ dislikes \in [Providers -> {"nothing", "field", "body"}]
  /\ learned = {}
  /\ pc = "idle"
  /\ rq = NoRequest
  /\ step = 1
  /\ tried = {}
  /\ permit = NoPermit
  /\ extended = FALSE /\ retried = FALSE /\ late = FALSE
  /\ answer = "none"
  /\ sent = {} /\ failed = {}

-----------------------------------------------------------------------------
(***************************************************************************)
(* The routing plan.                                                       *)
(***************************************************************************)
Clamped(n) == IF n < 1 THEN 1 ELSE IF n > 4 THEN 4 ELSE n

\* Mutants of Anywhere: no unrestricted step is owed beside the catalog's; and one
\* is enough however many keys there are.
AnywhereLeft(n, known) == IF Clamped(n) > known THEN Clamped(n) - known ELSE 0
AnywhereOnce(n, known) == 1

\* Unrestricted steps after the catalog's: up to four steps in all, one at least.
Anywhere(n, known) == IF Clamped(n) > known THEN Clamped(n) - known ELSE 1

Plan(alias, n, offering) ==
  IF alias # ANY THEN alias
  ELSE [i \in 1 .. Len(offering) + Anywhere(n, Len(offering)) |->
          [provider |-> IF i <= Len(offering) THEN offering[i] ELSE ANY, model |-> ANY]]

\* The lanes acquire_for may grant to the step.
Eligible ==
  {l \in DOMAIN pool : /\ rq.plan[step].provider \in {ANY, ProviderOf[pool[l]]}
                       /\ l \notin tried}

IsLast == step = Len(rq.plan)

\* A request is read and planned.  Only a stream's body is extended, and not when
\* its client has set stream_options or the model is known to reject them.
Begin ==
  /\ pc = "idle"
  /\ \E alias \in Aliases \cup {ANY}, offering \in Offerings, stream \in BOOLEAN :
       /\ rq' = [alias |-> alias, stream |-> stream,
                 plan |-> Plan(alias, Len(pool), offering)]
       /\ extended' \in {FALSE, stream /\ alias \notin learned}
  /\ pc' = IF pool = << >> THEN "ended" ELSE "step"
  /\ answer' = IF pool = << >> THEN "no_keys" ELSE "none"
  /\ UNCHANGED <<pool, swaps, dislikes, learned, step, tried, permit, retried, late, history>>

\* The handler has returned: nothing of the request is left.
Return ==
  /\ pc = "ended"
  /\ pc' = "idle"
  /\ rq' = NoRequest
  /\ step' = 1
  /\ tried' = {}
  /\ permit' = NoPermit
  /\ extended' = FALSE /\ retried' = FALSE /\ late' = FALSE
  /\ answer' = "none"
  /\ sent' = {} /\ failed' = {}
  /\ UNCHANGED <<pool, swaps, dislikes, learned>>

-----------------------------------------------------------------------------
(***************************************************************************)
(* A step of the plan: the governor's permit, then the lane's.             *)
(***************************************************************************)
AdmitModel ==
  /\ pc = "step"
  /\ step <= Len(rq.plan)
  /\ pc' = "queued"
  /\ UNCHANGED <<pool, swaps, dislikes, learned, rq, step, tried, permit, extended,
                 retried, late, answer, history>>

Granted(l) ==
  /\ pc = "queued"
  /\ l \in Eligible
  /\ permit' = [lane |-> l, key |-> pool[l]]
  /\ sent' = sent \cup {[key |-> pool[l], model |-> rq.plan[step].model]}
  /\ pc' = "upstream"
  /\ UNCHANGED <<pool, swaps, dislikes, learned, rq, step, tried, extended, retried,
                 late, answer, failed>>

MoveOn ==
  /\ pc' = "step"
  /\ step' = step + 1
  /\ permit' = NoPermit

\* A heartbeat finds the channel full.  The queue is not polled meanwhile.
Beats ==
  /\ pc = "queued"
  /\ rq.stream
  /\ pc' = "beating"
  /\ UNCHANGED <<pool, swaps, dislikes, learned, rq, step, tried, permit, extended,
                 retried, late, answer, history>>

NoLane ==
  /\ pc = "queued"
  /\ Eligible = {}
  /\ MoveOn
  /\ UNCHANGED <<pool, swaps, dislikes, learned, rq, tried, extended, retried, late,
                 answer, history>>

\* A buffered request is answered.  A stream is sent an error, for which there may
\* be no room in the channel; it holds its permit as long.
End(with) ==
  /\ answer' = with
  /\ \/ pc' = "ended" /\ permit' = NoPermit
     \/ rq.stream /\ pc' = "telling" /\ UNCHANGED permit

PlanEnds ==
  /\ pc = "step"
  /\ step > Len(rq.plan)
  /\ End("503")
  /\ UNCHANGED <<pool, swaps, dislikes, learned, rq, step, tried, extended, retried,
                 late, history>>

-----------------------------------------------------------------------------
(***************************************************************************)
(* What the upstream answers, and what becomes of it.                      *)
(***************************************************************************)
Relay(status) ==
  /\ pc' = "relaying"
  /\ answer' = status
  /\ UNCHANGED <<step, permit>>

\* Mutant of Exclude: only the lane that failed last is remembered.
ExcludeLast == tried' = {permit.lane}

Exclude == tried' = tried \cup {permit.lane}

\* A retryable status: the last step's is relayed, any other moves the request on.
Rebuffed(status) ==
  /\ pc = "upstream"
  /\ failed' = failed \cup {permit.key}
  /\ \/ IsLast /\ Relay(status) /\ UNCHANGED tried
     \/ ~IsLast /\ MoveOn /\ Exclude /\ UNCHANGED answer
  /\ UNCHANGED <<pool, swaps, dislikes, learned, rq, extended, retried, late, sent>>

SendFails ==
  /\ pc = "upstream"
  /\ failed' = failed \cup {permit.key}
  /\ \/ IsLast /\ End("502") /\ UNCHANGED <<step, tried>>
     \/ ~IsLast /\ MoveOn /\ Exclude /\ UNCHANGED answer
  /\ UNCHANGED <<pool, swaps, dislikes, learned, rq, extended, retried, late, sent>>

Rejects ==
  \/ dislikes[ProviderOf[permit.key]] = "body"
  \/ dislikes[ProviderOf[permit.key]] = "field" /\ extended

\* A 400 to a body the proxy has extended: the client's own is sent instead, on
\* the same permit.
SendPlain ==
  /\ pc = "upstream"
  /\ Rejects
  /\ extended
  /\ extended' = FALSE
  /\ retried' = TRUE
  /\ UNCHANGED <<pool, swaps, dislikes, learned, pc, rq, step, tried, permit, late,
                 answer, history>>

\* Any other 400 is the client's.
Rejected ==
  /\ pc = "upstream"
  /\ Rejects
  /\ ~extended
  /\ Relay("400")
  /\ UNCHANGED <<pool, swaps, dislikes, learned, rq, tried, extended, retried, late,
                 history>>

Accepted ==
  /\ pc = "upstream"
  /\ ~Rejects
  /\ Relay("200")
  /\ learned' = IF retried THEN learned \cup {rq.alias} ELSE learned
  /\ UNCHANGED <<pool, swaps, dislikes, rq, tried, extended, retried, late, history>>

\* A chunk of the answer finds the channel full.
Sends ==
  /\ pc = "relaying"
  /\ rq.stream
  /\ pc' = "sending"
  /\ UNCHANGED <<pool, swaps, dislikes, learned, rq, step, tried, permit, extended,
                 retried, late, answer, history>>

\* The client reads on: the send goes through.
ClientReads ==
  /\ \/ pc = "beating" /\ pc' = "queued" /\ UNCHANGED permit
     \/ pc = "sending" /\ pc' = "relaying" /\ UNCHANGED permit
     \/ pc = "telling" /\ pc' = "ended" /\ permit' = NoPermit
  /\ UNCHANGED <<pool, swaps, dislikes, learned, rq, step, tried, extended, retried,
                 late, answer, history>>

\* The upstream's body has come to its end, in one piece or not.
BodyEnds ==
  /\ pc = "relaying"
  /\ End(answer)
  /\ UNCHANGED <<pool, swaps, dislikes, learned, rq, step, tried, extended, retried,
                 late, history>>

-----------------------------------------------------------------------------
\* admit_model gives up up to one poll before it.
DeadlinePasses ==
  /\ pc \in Waiting \cup AtClient \cup {"relaying"}
  /\ ~late
  /\ late' = TRUE
  /\ UNCHANGED <<pool, swaps, dislikes, learned, pc, rq, step, tried, permit, extended,
                 retried, answer, history>>

\* Mutant of OnTheClock: the exchange with the upstream is not.
ClockStopsUpstream ==
  \/ pc = "step" /\ step <= Len(rq.plan)
  \/ pc = "queued"
  \/ pc = "relaying" /\ rq.stream

\* The awaits the deadline is put around: for the governor, for a lane, for the
\* upstream, for the next chunk of a stream.  Not the read of a buffered answer's
\* body, and not a stream's sends to its client.
OnTheClock ==
  \/ pc = "step" /\ step <= Len(rq.plan)
  \/ pc \in {"queued", "upstream"}
  \/ pc = "relaying" /\ rq.stream

GiveUp ==
  /\ late
  /\ OnTheClock
  /\ End("504")
  /\ UNCHANGED <<pool, swaps, dislikes, learned, rq, step, tried, extended, retried,
                 late, history>>

\* The client hangs up.  A stream learns of it when it sends.
Gone ==
  /\ pc \in Waiting \cup AtClient \cup {"relaying"}
  /\ ~(pc = "upstream" /\ rq.stream)
  /\ pc' = "ended"
  /\ answer' = "gone"
  /\ permit' = NoPermit
  /\ UNCHANGED <<pool, swaps, dislikes, learned, rq, step, tried, extended, retried,
                 late, history>>

\* A settings request swaps the pool.
Swap ==
  /\ swaps < MaxSwaps
  /\ pool' \in Pools \ {pool}
  /\ swaps' = swaps + 1
  /\ UNCHANGED <<dislikes, learned, request, history>>

Next ==
  \/ Begin \/ Return \/ AdmitModel \/ Beats \/ NoLane \/ PlanEnds
  \/ \E l \in DOMAIN pool : Granted(l)
  \/ \E status \in {"429", "5xx"} : Rebuffed(status)
  \/ SendFails \/ SendPlain \/ Rejected \/ Accepted
  \/ Sends \/ ClientReads \/ BodyEnds
  \/ DeadlinePasses \/ GiveUp \/ Gone \/ Swap

\* The timers of the runtime fire, and a request whose plan is used up has nothing
\* to wait for.  Nothing makes an upstream answer, a lane come free, or a client read
\* or leave.  A stream comes back to the clock after each chunk it had to stand at,
\* and its body is finite.
Spec == Init /\ [][Next]_vars /\ SF_vars(GiveUp) /\ WF_vars(PlanEnds)

-----------------------------------------------------------------------------
(***************************************************************************)
(* Properties                                                              *)
(***************************************************************************)
TypeOK ==
  /\ pool \in Pools
  /\ swaps \in 0 .. MaxSwaps
  /\ dislikes \in [Providers -> {"nothing", "field", "body"}]
  /\ pc \in Waiting \cup AtClient \cup {"idle", "relaying", "ended"}
  /\ step \in 1 .. Len(rq.plan) + 1
  /\ tried \subseteq Nat
  /\ permit \in [lane : Nat, key : Keys \cup {ANY}]
  /\ learned \subseteq Aliases \cup {ANY}
  /\ {extended, retried, late} \subseteq BOOLEAN
  /\ answer \in Refusals \cup {"none", "200", "400", "504", "no_keys", "gone"}
  /\ sent \subseteq [key : Keys, model : Models]
  /\ failed \subseteq Keys

\* As long as the pool has not been swapped, a request that a key has failed is
\* not sent to that key again: a retryable status is "worth another attempt on a
\* different key" (is_retryable).
AnotherKeyEachTime == swaps = 0 /\ pc = "upstream" => permit.key \notin failed

\* A request without an alias that ends in a failure has been tried on every key
\* of a pool of up to four lanes that was not swapped, provided the catalog named
\* no provider that has none (README: automatic failover across keys and across
\* providers).
FailoverTriesEveryKey ==
  /\ swaps = 0
  /\ pc = "ended" /\ answer \in Refusals
  /\ rq.alias = ANY
  /\ Len(pool) <= 4
  /\ \A i \in DOMAIN rq.plan :
       rq.plan[i].provider \in {ANY} \cup {ProviderOf[pool[l]] : l \in DOMAIN pool}
  => failed = {pool[l] : l \in DOMAIN pool}

\* However wrong the catalog is about a model, a request without an alias is not
\* refused for want of a lane before it was sent to one, unless a swap took the
\* lanes away (resolve_plan keeps one unrestricted attempt so that a stale catalog
\* "must not strand a request").
NotStranded ==
  swaps = 0 /\ pc = "ended" /\ answer = "503" /\ rq.alias = ANY => sent # {}

\* Once its deadline has passed a request ends, on whatever step and after however
\* many failures, unless it is a buffered one whose answer has begun, or a stream
\* whose client never reads again.
DeadlineEndsTheWait ==
  late ~> \/ pc = "ended"
          \/ pc = "relaying" /\ ~rq.stream
          \/ [](pc \in AtClient)

-----------------------------------------------------------------------------
(***************************************************************************)
(* Promises of the documentation that Spec does not keep; README.md says   *)
(* on which instance TLC shows it.                                         *)
(***************************************************************************)

\* The deadline is an "absolute wall-clock budget for the whole request (queue +
\* retries + upstream)" (DEADLINE_HEADER).
DeadlineIsForTheWhole == late ~> (pc = "ended")

\* On hitting a limit the proxy "queues and paces; client never sees 429" (README).
ClientNeverSees429 == answer # "429"

\* An alias resolves to targets "tried in turn (fallback chain)" (Alias): when one
\* ends in a failure every target whose provider has a key was tried.
AliasTargetsTried ==
  pc = "ended" /\ answer \in Refusals /\ rq.alias # ANY =>
    \A i \in DOMAIN rq.alias :
      rq.alias[i].provider \in {ProviderOf[pool[l]] : l \in DOMAIN pool}
      => \E s \in sent : s.model = rq.alias[i].model

\* The model is written off for stream_options only where they were what an
\* upstream rejected (stream_proxy: "Only learn from a retry that actually worked").
LearnsFromTheField ==
  learned # {} => \E p \in Providers : dislikes[p] = "field"

=============================================================================
