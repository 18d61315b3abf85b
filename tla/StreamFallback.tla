--------------------------- MODULE StreamFallback ---------------------------
(***************************************************************************)
(* What stream_proxy (src/src/proxy.rs) does besides: the body of a stream *)
(* may carry stream_options added by the proxy, and when the upstream      *)
(* answers 400 to it the client's own body is sent at once, on the permit  *)
(* it already has.  No slot is taken for that second request.              *)
(***************************************************************************)
EXTENDS UpstreamView

VARIABLE fallback    \* requests that still have the client's original body

fallbackVars == <<allvars, fallback>>

\* The number of a request sent on no slot: slots count from one.
NoSlot == 0

FallbackInit == ViewInit /\ fallback = {}

\* A new stream's body is extended, unless its model is known to refuse that.
\* (A body left from the request before stands for one extended again.)
Inject(r) ==
  /\ phase[r] = "idle"
  /\ tried[r] = {}
  /\ fallback' = fallback \cup {r}
  /\ UNCHANGED allvars

\* 400 on the extended body: sent again, plain, on the same key.
Resend(r) ==
  /\ phase[r] = "granted"
  /\ ~OnItsWay(r)
  /\ r \in fallback
  /\ fallback' = fallback \ {r}
  /\ arrived' = [arrived EXCEPT ![lane[r]] = @ \cup {[slot |-> NoSlot, at |-> now]}]
  /\ UNCHANGED <<vars, granted, slot, rests>>

FallbackNext ==
  \/ ViewNext /\ UNCHANGED fallback
  \/ \E r \in Requests : Inject(r) \/ Resend(r)

FallbackSpec == FallbackInit /\ [][FallbackNext]_fallbackVars

=============================================================================
