------------------------------ MODULE LivePool ------------------------------
(***************************************************************************)
(* Settings edited while requests are served: the store and apply          *)
(* (src/src/settings.rs), the pool rebuilt and swapped behind its pointer  *)
(* (src/src/pool.rs), and what still uses the old pool or an index into    *)
(* it: the holder of the dispatcher's gate (src/src/dispatch.rs) and       *)
(* bench_lane (src/src/proxy.rs).                                          *)
(*                                                                         *)
(* One provider; the queue in front of the gate, and which of the lanes    *)
(* with room is taken, are Dispatcher's subject.  A pool lives in a slot   *)
(* as long as something refers to it.                                      *)
(***************************************************************************)
EXTENDS SlidingWindow, FiniteSets

CONSTANTS
  Keys,        \* secrets an operator may enter
  Rpms,        \* [Keys -> limits an operator may give the key]
  FirstStore,  \* the keys the proxy starts with
  Admins,      \* settings requests that may be under way at once
  Callers,     \* requests being served
  Backoffs,    \* cooldowns a rebuff may impose
  Slots,       \* places of pools in memory
  NONE,        \* no permit, no pool
  MaxTime      \* horizon of the clock

ASSUME LivePoolAssumption ==
  /\ Rpms \in [Keys -> SUBSET (Nat \ {0})]
  /\ Backoffs \subseteq Nat
  /\ MaxTime \in Nat
  \* One pool is live, the gate may hold another, each apply may have built one.
  /\ Cardinality(Slots) >= Cardinality(Admins) + 2
  /\ NONE \notin Slots
  /\ FirstStore \in Seq([key : Keys, enabled : BOOLEAN, rpm : Nat])

VARIABLES
  now,
  store,     \* the provider's keys: [key, enabled, rpm]
  pools,     \* [Slots -> pool]; a pool is a sequence of lanes
  current,   \* slot of the live pool
  admin,     \* [Admins -> how far its settings request is, and with what]
  gate,      \* what the holder of the gate is about to do
  permit,    \* [Callers -> its permit, or NONE]
  spent,     \* observer: [Keys -> instants of the slots granted on the key]
  overrun    \* observer: keys granted more than their limit in a window

vars == <<now, store, pools, current, admin, gate, permit, spent, overrun>>

Lane == [key : Keys, rpm : Nat, hits : Seq(Nat), cooldown : Nat]
KeySpecs == Seq([key : Keys, rpm : Nat])

NoGate == [step |-> "free", pool |-> NONE, lane |-> 0, until |-> 0]
Resting == [step |-> "idle", specs |-> << >>, pool |-> NONE]

TypeOK ==
  /\ now \in Nat
  /\ store \in Seq([key : Keys, enabled : BOOLEAN, rpm : Nat])
  /\ pools \in [Slots -> Seq(Lane)]
  /\ current \in Slots
  /\ admin \in [Admins -> [step : {"idle", "edited", "saving", "built", "applied"},
                           specs : KeySpecs, pool : Slots \cup {NONE}]]
  /\ gate \in [step : {"free", "chosen", "asleep"}, pool : Slots \cup {NONE}, lane : Nat, until : Nat]
  /\ permit \in [Callers -> [lane : Nat, key : Keys] \cup {NONE}]
  /\ spent \in [Keys -> Seq(Nat)]
  /\ overrun \in SUBSET Keys

-----------------------------------------------------------------------------
LaneSpec(e) == [key |-> e.key, rpm |-> e.rpm]

\* lane_specs: what the store wants the pool to be.
LaneSpecs(entries) ==
  LET upTo[n \in 0..Len(entries)] ==
        IF n = 0 THEN << >>
        ELSE IF entries[n].enabled /\ entries[n].rpm > 0
             THEN Append(upTo[n - 1], LaneSpec(entries[n]))
             ELSE upTo[n - 1]
  IN  upTo[Len(entries)]

Fresh(spec) == [key |-> spec.key, rpm |-> spec.rpm, hits |-> << >>, cooldown |-> 0]

\* Mutant of Rebuilt: every key starts clean.
RebuiltClean(old, specs) == [i \in DOMAIN specs |-> Fresh(specs[i])]

\* rebuild: a kept key carries its hits and its cooldown, not its limit.
Rebuilt(old, specs) ==
  [i \in DOMAIN specs |->
     LET same == {j \in DOMAIN old : old[j].key = specs[i].key}
     IN  IF same = {} THEN Fresh(specs[i])
         ELSE LET was == old[CHOOSE j \in same : \A k \in same : j <= k]
              IN  [Fresh(specs[i]) EXCEPT !.hits = was.hits, !.cooldown = was.cooldown]]

\* The pools that are kept alive by a reference.
Held(ps, refs) == [s \in Slots |-> IF s \in refs THEN ps[s] ELSE << >>]
BuiltBy(admins) == {admins[a].pool : a \in Admins}

\* What one settings request may do to the keys: add one, remove one, change one.
Entries(k) == [key : {k}, enabled : BOOLEAN, rpm : Rpms[k]]

Edited(entries) ==
  {Append(entries, e) :
     e \in {e \in UNION {Entries(k) : k \in Keys} :
              e.enabled /\ \A i \in DOMAIN entries : entries[i].key # e.key}}
  \cup {SubSeq(entries, 1, i - 1) \o SubSeq(entries, i + 1, Len(entries)) : i \in DOMAIN entries}
  \cup UNION {{[entries EXCEPT ![i] = e] : e \in Entries(entries[i].key)} : i \in DOMAIN entries}

Init ==
  /\ now = 0
  /\ store = FirstStore
  /\ current \in Slots
  /\ pools = [s \in Slots |-> IF s = current THEN Rebuilt(<< >>, LaneSpecs(FirstStore)) ELSE << >>]
  /\ admin = [a \in Admins |-> Resting]
  /\ gate = NoGate
  /\ permit = [c \in Callers |-> NONE]
  /\ spent = [k \in Keys |-> << >>]
  /\ overrun = {}

-----------------------------------------------------------------------------
(***************************************************************************)
(* A settings request.  The edit is made under the store's lock; the lock  *)
(* is taken again for the snapshot, released, and never held for the rest. *)
(***************************************************************************)
Between(a) == admin[a].step \in {"idle", "applied"}

\* Editing the keys.  A change that leaves nothing enabled is answered with an
\* error; what it did to the store stays.
EditKeys(a) ==
  /\ Between(a)
  /\ store' \in Edited(store)
  /\ admin' = [admin EXCEPT ![a] = IF LaneSpecs(store') = << >> THEN Resting
                                   ELSE [Resting EXCEPT !.step = "edited"]]
  /\ UNCHANGED <<now, pools, current, gate, permit, spent, overrun>>

\* Editing the aliases goes through the same apply.
EditAliases(a) ==
  /\ Between(a)
  /\ admin' = [admin EXCEPT ![a] = [Resting EXCEPT !.step = "edited"]]
  /\ UNCHANGED <<now, store, pools, current, gate, permit, spent, overrun>>

\* Mutant of Snapshot: disabled keys are in it.
SnapshotUnfiltered(a) ==
  /\ admin[a].step = "edited"
  /\ admin' = [admin EXCEPT ![a].step = "saving",
                 ![a].specs = [i \in DOMAIN store |-> LaneSpec(store[i])]]
  /\ UNCHANGED <<now, store, pools, current, gate, permit, spent, overrun>>

Snapshot(a) ==
  /\ admin[a].step = "edited"
  /\ admin' = [admin EXCEPT ![a].step = "saving", ![a].specs = LaneSpecs(store)]
  /\ UNCHANGED <<now, store, pools, current, gate, permit, spent, overrun>>

SaveFails(a) ==
  /\ admin[a].step = "saving"
  /\ admin' = [admin EXCEPT ![a] = Resting]
  /\ UNCHANGED <<now, store, pools, current, gate, permit, spent, overrun>>

\* Saved: the pool that is live now is rebuilt to the snapshot.
Rebuild(a) ==
  /\ admin[a].step = "saving"
  /\ \E s \in Slots :
       /\ s \notin {current, gate.pool} \cup BuiltBy(admin)
       /\ pools' = [pools EXCEPT ![s] = Rebuilt(pools[current], admin[a].specs)]
       /\ admin' = [admin EXCEPT ![a] = [step |-> "built", specs |-> << >>, pool |-> s]]
  /\ UNCHANGED <<now, store, current, gate, permit, spent, overrun>>

Swap(a) ==
  /\ admin[a].step = "built"
  /\ current' = admin[a].pool
  /\ admin' = [admin EXCEPT ![a] = [Resting EXCEPT !.step = "applied"]]
  /\ pools' = Held(pools, {current', gate.pool} \cup BuiltBy(admin'))
  /\ UNCHANGED <<now, store, gate, permit, spent, overrun>>

-----------------------------------------------------------------------------
(***************************************************************************)
(* The holder of the gate.                                                 *)
(***************************************************************************)
Open(p) == {i \in DOMAIN pools[p] : pools[p][i].cooldown <= now}
WithRoom(p) == {i \in Open(p) : HasRoom(pools[p][i].hits, pools[p][i].rpm, now)}
Reopenings(p) ==
  {pools[p][i].cooldown : i \in DOMAIN pools[p] \ Open(p)}
    \cup {RetryAt(pools[p][i].hits, now) : i \in Open(p) \ WithRoom(p)}

\* The limiters that are asked prune their hits.
Scanned(p) ==
  [i \in DOMAIN pools[p] |-> IF i \in Open(p) THEN [pools[p][i] EXCEPT !.hits = Prune(@, now)]
                             ELSE pools[p][i]]

\* A scan reads the pointer; from here on it has that pool, whatever is swapped.
Scan ==
  /\ \/ gate.step = "free"
     \/ gate.step = "asleep" /\ gate.until <= now
  /\ pools[current] # << >>
  /\ IF WithRoom(current) # {}
     THEN \E i \in WithRoom(current) :
            gate' = [step |-> "chosen", pool |-> current, lane |-> i, until |-> now]
     ELSE \E t \in Reopenings(current) :
            /\ \A u \in Reopenings(current) : t <= u
            /\ gate' = [step |-> "asleep", pool |-> current, lane |-> 0, until |-> t]
  /\ pools' = Held([pools EXCEPT ![current] = Scanned(current)], {current} \cup BuiltBy(admin))
  /\ UNCHANGED <<now, store, current, admin, permit, spent, overrun>>

\* The slot is dated with the instant the scan read the clock.
Grant(c) ==
  /\ gate.step = "chosen"
  /\ permit[c] = NONE
  /\ LET l == pools[gate.pool][gate.lane]
     IN  /\ HasRoom(l.hits, l.rpm, gate.until)
         /\ permit' = [permit EXCEPT ![c] = [lane |-> gate.lane, key |-> l.key]]
         /\ spent' = [spent EXCEPT ![l.key] = Hit(@, gate.until)]
         /\ overrun' = IF HasRoom(spent[l.key], l.rpm, gate.until) THEN overrun
                       ELSE overrun \cup {l.key}
  /\ pools' = Held([pools EXCEPT ![gate.pool][gate.lane].hits = Hit(@, gate.until)],
                   {current} \cup BuiltBy(admin))
  /\ gate' = NoGate
  /\ UNCHANGED <<now, store, current, admin>>

\* The sleeping holder is dropped.
Dropped ==
  /\ gate.step = "asleep"
  /\ gate' = NoGate
  /\ pools' = Held(pools, {current} \cup BuiltBy(admin))
  /\ UNCHANGED <<now, store, current, admin, permit, spent, overrun>>

Answered(c) ==
  /\ permit[c] # NONE
  /\ permit' = [permit EXCEPT ![c] = NONE]
  /\ UNCHANGED <<now, store, pools, current, admin, gate, spent, overrun>>

\* bench_lane finds the lane by the permit's index in the pool that is live now.
Rebuff(c, backoff) ==
  /\ permit[c] # NONE
  /\ permit' = [permit EXCEPT ![c] = NONE]
  /\ pools' = IF permit[c].lane \in DOMAIN pools[current]
              THEN [pools EXCEPT ![current][permit[c].lane].cooldown =
                      IF @ > now + backoff THEN @ ELSE now + backoff]
              ELSE pools
  /\ UNCHANGED <<now, store, current, admin, gate, spent, overrun>>

Tick ==
  /\ now < MaxTime
  /\ now' = now + 1
  /\ UNCHANGED <<store, pools, current, admin, gate, permit, spent, overrun>>

-----------------------------------------------------------------------------
AdminStep(a) ==
  EditKeys(a) \/ EditAliases(a) \/ Snapshot(a) \/ SaveFails(a) \/ Rebuild(a) \/ Swap(a)

ServeStep ==
  Scan \/ Dropped \/ \E c \in Callers : \/ Grant(c)
                                        \/ Answered(c)
                                        \/ \E b \in Backoffs : Rebuff(c, b)

Next == Tick \/ ServeStep \/ \E a \in Admins : AdminStep(a)

Spec == Init /\ [][Next]_vars

(***************************************************************************)
(* Two conditions under which rate state is carried exactly.  Kept: every  *)
(* key of the live pool is in the pool that replaces it.  Calm: nothing    *)
(* happens between the rebuild and the swap, and the gate's holder is not  *)
(* on its way to a grant at the rebuild.                                   *)
(***************************************************************************)
Kept ==
  \A a \in Admins : Rebuild(a) =>
    \A i \in DOMAIN pools[current] : \E j \in DOMAIN admin[a].specs :
      admin[a].specs[j].key = pools[current][i].key

Calm ==
  /\ \A a \in Admins : admin[a].step = "built" => Swap(a)
  /\ \A a \in Admins : Rebuild(a) => gate.step # "chosen"

KeptSpec == Init /\ [][Next /\ Kept]_vars
CalmSpec == Init /\ [][Next /\ Calm]_vars
KeptCalmSpec == Init /\ [][Next /\ Kept /\ Calm]_vars

-----------------------------------------------------------------------------
(***************************************************************************)
(* Properties                                                              *)
(***************************************************************************)

\* No key is granted more than its limit in a window, across any number of swaps
\* ("The rebuild carries rate state so this is safe to call while requests are in
\* flight", src/src/settings.rs, apply).
KeyHeldToItsLimit == overrun = {}

\* A swap never cuts short the rest of a key.
RestSurvivesSwap ==
  [][current' # current =>
       \A i \in DOMAIN pools[current] : \A j \in DOMAIN pools'[current'] :
         pools[current][i].key = pools'[current'][j].key
           => pools[current][i].cooldown <= pools'[current'][j].cooldown]_vars

\* When every settings request that was made has been applied, the live pool is what
\* the store says: edits that were refused or not saved are made up for by the next.
AppliedIsLive ==
  (\A a \in Admins : admin[a].step = "applied") =>
    LaneSpecs(store) = [i \in DOMAIN pools[current] |-> LaneSpec(pools[current][i])]

-----------------------------------------------------------------------------
(***************************************************************************)
(* Promises of the documentation that Spec does not keep; README.md says   *)
(* on which instance TLC shows it.                                         *)
(***************************************************************************)

\* "Refuse to leave the proxy with nothing to serve on" (src/src/settings.rs,
\* provider_keys): the live pool never becomes empty.
AlwaysSomethingToServeOn == pools[current] # << >>

\* "Take the rebuffed lane out of rotation" (src/src/proxy.rs, bench_lane): a bench
\* lands on the key that was rebuffed.
BenchesTheRebuffedKey ==
  [][\A c \in Callers : \A b \in Backoffs : Rebuff(c, b) =>
       \A i \in DOMAIN pools[current] :
         pools'[current][i].cooldown # pools[current][i].cooldown
           => pools[current][i].key = permit[c].key]_vars

\* "Settings apply live" (CONTRIBUTING.md): nobody sleeps at the gate while the live
\* pool has room.
NobodySleepsBesideRoom ==
  gate.step = "asleep" /\ now < gate.until => WithRoom(current) = {}

=============================================================================
