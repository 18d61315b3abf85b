------------------------------- MODULE Setup -------------------------------
(***************************************************************************)
(* The first-run wizard (src/src/setup.rs): visitors race to claim the     *)
(* proxy, one of them becomes its superuser, and the data plane opens.     *)
(* The save of the store is one step here, ConfigStore opens it up.        *)
(***************************************************************************)
EXTENDS Naturals, FiniteSets

CONSTANTS
  Visitors,    \* the claims that may be under way at once
  NOBODY,      \* no superuser
  MaxCrashes   \* bound on restarts

ASSUME SetupAssumption == NOBODY \notin Visitors /\ MaxCrashes \in Nat

VARIABLES
  required,    \* setup_required
  store,       \* the superuser in memory
  disk,        \* the superuser in config.json
  lanes,       \* the live pool has lanes
  pc,          \* [Visitors -> where its claim is]
  claimed,     \* history: the visitors told that their claim was accepted
  crashes      \* restarts so far

vars == <<required, store, disk, lanes, pc, claimed, crashes>>

TypeOK ==
  /\ {required, lanes} \subseteq BOOLEAN
  /\ {store, disk} \subseteq Visitors \cup {NOBODY}
  /\ pc \in [Visitors -> {"idle", "filling", "saved", "opened"}]
  /\ claimed \subseteq Visitors
  /\ crashes \in 0 .. MaxCrashes

Init ==
  /\ required = TRUE
  /\ store = NOBODY /\ disk = NOBODY
  /\ lanes = FALSE
  /\ pc = [v \in Visitors |-> "idle"]
  /\ claimed = {}
  /\ crashes = 0

Goes(v, to) == pc' = [pc EXCEPT ![v] = to]

\* A visitor posts the form while setup is required.
Post(v) ==
  /\ pc[v] = "idle"
  /\ required
  /\ Goes(v, "filling")
  /\ UNCHANGED <<required, store, disk, lanes, claimed, crashes>>

\* Mutant of Unclaimed: the store is not asked again under its lock.
UnclaimedUnlocked == TRUE

Unclaimed == store = NOBODY

\* Under the store's lock: somebody else's claim has been entered.
Conflict(v) ==
  /\ pc[v] = "filling"
  /\ ~Unclaimed
  /\ Goes(v, "idle")
  /\ UNCHANGED <<required, store, disk, lanes, claimed, crashes>>

\* Under the store's lock: the superuser, provider and client are entered and saved.
Enter(v) ==
  /\ pc[v] = "filling"
  /\ Unclaimed
  /\ store' = v
  /\ disk' = v
  /\ Goes(v, "saved")
  /\ UNCHANGED <<required, lanes, claimed, crashes>>

\* The same with a save that fails: what was entered stays in memory.
EnterFails(v) ==
  /\ pc[v] = "filling"
  /\ Unclaimed
  /\ store' = v
  /\ Goes(v, "idle")
  /\ UNCHANGED <<required, disk, lanes, claimed, crashes>>

OpenGate(v) ==
  /\ pc[v] = "saved"
  /\ required' = FALSE
  /\ Goes(v, "opened")
  /\ UNCHANGED <<store, disk, lanes, claimed, crashes>>

\* Mutant of SwapPool: the pool is built of the lanes there were before the claim.
SwapPoolStale(v) ==
  /\ pc[v] = "opened"
  /\ claimed' = claimed \cup {v}
  /\ Goes(v, "idle")
  /\ UNCHANGED <<required, store, disk, lanes, crashes>>

\* The pool with the new provider's key is swapped in and the claim answered.
SwapPool(v) ==
  /\ pc[v] = "opened"
  /\ lanes' = TRUE
  /\ claimed' = claimed \cup {v}
  /\ Goes(v, "idle")
  /\ UNCHANGED <<required, store, disk, crashes>>

\* Killed anywhere and started again from config.json.
Restart ==
  /\ crashes < MaxCrashes
  /\ crashes' = crashes + 1
  /\ store' = disk
  /\ required' = (disk = NOBODY)
  /\ lanes' = (disk # NOBODY)
  /\ pc' = [v \in Visitors |-> "idle"]
  /\ UNCHANGED <<disk, claimed>>

Next ==
  \/ Restart
  \/ \E v \in Visitors : \/ Post(v) \/ Conflict(v) \/ Enter(v) \/ EnterFails(v)
                         \/ OpenGate(v) \/ SwapPool(v)

\* A form that was posted is handled to its end, unless the process is killed.
Spec ==
  /\ Init /\ [][Next]_vars
  /\ \A v \in Visitors :
       WF_vars(Conflict(v) \/ Enter(v) \/ EnterFails(v) \/ OpenGate(v) \/ SwapPool(v))

-----------------------------------------------------------------------------
(***************************************************************************)
(* Properties                                                              *)
(***************************************************************************)

\* The proxy is claimed once: of all the visitors that ever post the form, before
\* a restart or after, one is told it succeeded and stays the superuser ("only the
\* first, one-time claim is honored").
OneClaimOnly ==
  /\ Cardinality(claimed) <= 1
  /\ claimed # {} => claimed = {store} /\ claimed = {disk}

\* Once the gate is open the pool gets its lanes: the data plane is not left
\* answering that there are no keys.
OpenGetsLanes == ~required ~> lanes

-----------------------------------------------------------------------------
(***************************************************************************)
(* A promise of the documentation that Spec does not keep; README.md says  *)
(* on which instance TLC shows it.                                         *)
(***************************************************************************)

\* Until the proxy is claimed browsers are sent to the wizard, to claim it: while
\* setup is required and no claim is under way, the next claim would be accepted.
ClaimableWhileRequired ==
  required /\ (\A v \in Visitors : pc[v] \in {"idle", "filling"}) => Unclaimed

=============================================================================
