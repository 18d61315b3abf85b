# A verification of llm-rate-limit-proxy

TLA+ modules, TLC configurations and TLAPS proofs for
`llm-rate-limit-proxy`, a proxy that pools a team's upstream LLM keys, queues
requests instead of letting them fail, and promises that *the upstream never
sees a violation* of a key's rate limit (`CONTRIBUTING.md`). Paths below are
relative to the repository.

Run a check with `tlc -config <run>.cfg <module>.tla`, a proof with
`tlapm <module>_proofs.tla`. `PROJECT.json` lists the runs, what each
definition translates (`map`), what every property is broken by (`mutants`),
and the disagreements between the code and what it says of itself (`findings`).

## 1. The system

### Components

| Component | State | Operations | Correct when |
|---|---|---|---|
| Rate limiter, pool (`src/pool.rs`) | per lane: hits of a sliding window, bench instant; the pool behind a swappable pointer | `try_acquire`, `load`, `bench`, `lane_specs`, `rebuild` | no key is granted more than its limit in a window, and a key rests as long as it was told to |
| Dispatcher (`src/dispatch.rs`) | a fair gate | `acquire_for`: queue, scan, grant, refuse, sleep, be dropped | grants in arrival order; nobody sleeps past a free slot; every call ends |
| Governor (`src/governor.rs`) | per model: cap, count in flight, rebuffs per key, when last cut and rebuffed | `note_rebuff`, `limit`, `admit`, `pressured`, drop of a permit | permits are conserved; one episode cuts once; one key alone never indicts; a cap lifts again |
| Request path (`src/proxy.rs`) | per request: plan, step, excluded lanes, permits, deadline; `no_inject`, `inflight` | `handle`, `stream_proxy`, `relay`, `try_admit`, the catalog endpoint | failover reaches every key and no key twice; a deadline ends the request; no slot leaks |
| Settings (`src/settings.rs`) | the store, shared with everything | providers, keys, aliases, clients, users, limits, `apply` | settings apply live, budgets survive it, something is left to serve on |
| Store (`src/config.rs`) | `config.json` and its temporary file | `load`, `save` | whole, private, and never behind what was acknowledged |
| Setup (`src/setup.rs`) | `setup_required` | the one-time claim | claimed once, opened only when saved |
| Ledger (`src/ledger.rs`) | baseline and live totals, `usage.json` | `load`, `absorb`, `savings` | nothing is counted twice or lost |
| History (`src/history.rs`) | snapshots, retention, `history.jsonl` | `load`, `append`, `range`, `set_retention_days` | what is shown is in order, as far as it was kept, and bounded |
| Catalog, context limits (`src/models.rs`) | per provider list with TTL; learned ceilings | `fresh`, `stale`, `put`, `merge`; `learn` | an answer is the union of the lists, and no provider once seen is missing |
| Auth (`src/auth.rs`) | signing key, login throttle | login, sessions, guards | a session ends with its password, its account and its process; attempts are throttled |
| Metrics (`src/metrics.rs`) | capped tables of counters | `record_*`, `total` | no table grows without end and no request is lost by that |
| Address rules (`src/net.rs`) | none | `parse_rule`, `matches`, `permitted` | the filter lets in whom the list names |
| Router, boot (`src/lib.rs`) | all of the above, shared | `run`, the sampler task, `source_allowlist` | everything is built from what was loaded |

### How they interact

A request (`handle`) is counted in, planned, and for every step of its plan
waits for a permit of the **governor** (a poll), then for a slot of the
**dispatcher** (a fair mutex held through the scan *and* the sleep). The
dispatcher reads the pool pointer at each scan and keeps that pool until the
next. What the upstream answers goes back into the lanes (`bench_lane`, by lane
index in the pool that is live *then*) and into the governor (`note_rebuff`, by
the same index). **Settings** handlers edit the store under its mutex, release
it, save a snapshot, and swap in a pool rebuilt from the one that is live at
that moment. Callers are dropped at an await: their client hangs up, or their
deadline passes. A stream is a task of its own, which writes to its client through
a channel of sixteen places, waits there for as long as the client does not
read, and learns only there that it has left.

### What is hard here

The tasks are tokio tasks on a multi-threaded runtime: any two of them
interleave at every await *and* between any two lock sections. The code's hard
spots, each listed under `hazards` with its line: the gap between scan and
grant; a grant dated earlier than it is sent; drops in the queue and in the
gate; a cap read in one lock section and used in another; late rebuffs of an
episode already handled; rate state copied while it is being spent; lane
indices that outlive the pool they index; snapshots saved out of order; one
temporary file for all saves; a process killed inside a write; a settings
request refused when half of it is already stored; a throttle asked in one lock
section and fed in another; a session carried across resets, removals and
restarts; a stream that stands at a send to its client when its deadline passes; a list
of models collected while the cache it fills is filled by
others.

## 2. Modules

| Module | Models | Uses |
|---|---|---|
| `SlidingWindow` | the limiter of a lane, as operators on its hits | |
| `Dispatcher` | `acquire_for`, benches, the requests that call it | `SlidingWindow` |
| `RateBudget` | *abstract*: what one key promises its upstream | |
| `UpstreamView` | the dispatcher with its upstream: what was granted, sent, and arrived late | `Dispatcher`, `RateBudget` |
| `StreamFallback` | the same with the plain re-send of streams | `UpstreamView` |
| `Governor` | the cap of one model | |
| `RequestPlan` | one request's walk through its plan, its deadline and its answer | |
| `Admission` | the count of requests in flight | |
| `LivePool` | edits, saves, rebuilds and swaps against scans, grants and benches | `SlidingWindow` |
| `ConfigStore` | `save` and `load`, system call by system call | |
| `AtomicFile` | *abstract*: a file replaced as a whole or not at all | |
| `AddressRules` | CIDR rules and the filter, as operators on short words | |
| `Settings` | every other handler that edits the store, and what pool, catalog and filter have of it | `ConfigStore`, `AddressRules`, `AtomicFile` |
| `Setup` | the first-run claim | |
| `Accounts` | logins, sessions, guards, and the handler of accounts | `Setup` |
| `Catalog` | the cache of model lists and the requests for the list | `Admission` |
| `Ledger` | the persisted totals | |
| `Sampler` | the sampler task: metrics, history, ledger | `Ledger` |

`Settings`, `Accounts`, `Catalog` and `Sampler` are superpositions: every step of
theirs is a step of the module they extend, or leaves its variables alone. Most
of their actions are written as one of its actions and something more. So
the runs check the properties of both modules at once, and what is proved of the
module extended holds in the larger one.

`MC*` modules give the constants values; `OneKey` holds the smallest pool, for
several of them; `*_proofs` hold theorems. A definition called a *mutant* in its
comment is a plausible bug of the definition it stands before. No model uses it:
it replaces that definition to show that a property can be broken.

### How state and actions correspond to the code

**SlidingWindow.** `hits` is the `VecDeque<Instant>`, `Prune`, `Load`, `Hit`
and `RetryAt` are the methods; an instant is a natural number.

**Dispatcher.** `queue` is the FIFO of `tokio::sync::Mutex`, its head holds the
gate. `phase` says where a request is: waiting for the gate (`queued`), with a
lane chosen and not yet taken (`chosen`), sleeping with the gate (`asleep`), or
holding a permit (`granted`). The scan and the grant are two actions, because
`bench` needs no gate; both use `scan.at`, the `now` the code reads once per
loop. `Scan` prunes what the code's scan prunes. `Drop` stands for every way
the future is dropped while it waits. The rendezvous hash is a constant
`Weight`: nothing depends on what it is. `tried` is `excluded`.

**UpstreamView** adds history variables, which no guard reads: the slots granted on
each lane (dated as the code dates them), the requests on the way, the requests
that arrived, and the rests that were asked for. A request is sent at or after
its grant and arrives later, by a delay of its own. The assumption `TickInTime`
makes explicit is the one `JITTER_MARGIN` stands for: between the instant the
slot is dated and the arrival pass at most `Margin`. The code cannot guarantee
this, and nothing else in the model depends on it.

**Governor.** `limit`, `inflight`, `rebuffs`, `lastAdjusted`, `lastRebuff` are
the fields of `ModelState`. A caller that polls `admit_model` reads the cap in
one step (`ReadCap`, with all that `limit` does on the way: dissolving, growing)
and claims a slot or not in another (`Admit`, `Refuse`), as `admit` does. `Pressured` is the
operator's view, which dissolves and prunes too. The clock is read together with the lock being
taken. `lastCut` and `lastBy` are history.

**RequestPlan.** One request; `step`, `tried` (`excluded`), `extended`
(`fallback.is_some()`), `retried` (`retried_plain`) and `learned` (`no_inject`)
are the code's locals and set. The dispatcher is any grant of an eligible lane,
the governor any permit, the upstream any answer a provider's dislikes allow.
Both paths, buffered and streamed, are the same actions, except for the re-send,
for what the deadline covers, and for the sends of a stream to its client: a
heartbeat while it is queued (`Beats`), a chunk (`Sends`) and the error it ends with
(`End`) may find the channel full, and the stream then stands in `AtClient` until the
client reads or leaves. What finds room is no step of its own; the first heartbeat
always does, and the beats of the governor's poll do not wait (`try_send`). A request
without a deadline is one for which it never passes. All lanes speak the request's protocol.
`sent` and `failed` are history.

**Admission.** `fetch_add` and the comparison with its result are one step, the
`fetch_sub` of a refusal another, the read of `max_inflight` a third.

**Catalog.** A request for the list is one of `Admission`'s, and keeps its slot
while `walk` says how far the loop of `serve_catalog` has come: at the next
provider (`next`), in front of a lane (`waiting`), with its fetch under way
(`sent`). What a provider answers is any list; every way to get none (no lane,
deadline, error, a body that does not parse) is `NotFetched`. An entry has an age,
which says no more than the TTL can tell. `Merge` is the code's loop with its set
of names seen. The request may be dropped anywhere (`Ends`).

**LivePool.** A pool is a sequence of lanes in a slot of memory that lives as
long as something refers to it (`Arc`). A settings request goes through `edited`,
`saving`, `built`, `applied`, a step for every point where the code holds no lock. The
dispatcher is reduced to the holder of its gate. `spent` and `overrun` are
history, by key. One provider; a provider's name and URL never enter the rate
state.

**ConfigStore.** The temporary file and the target are what a reader would find
(content and mode), opened, truncated, written, made private and renamed one
system call at a time, any of which may fail, with a crash between any two. A
content is the number of the last edit in it. Edit and snapshot are one step,
as they are under one lock in the `limits` handler.

**Settings** says with `conf` what is in the configuration of each number, and
gives every handler an action that computes the new one from the one in memory:
`ProviderKeys`, `AddProvider`, `RemoveProvider` (with the aliases it trims),
`UpsertAlias`, `RemoveAlias`, `Mint`, `Revoke`, `Limits`. `SavesIfItServes` and
`Tuned` are the two places where a request is refused *after* the store was
changed; refusals before that change nothing and are no step. `served` is the
configuration the live pool was built from, swapped when the save is done
(`finish`) and not at all after a bare save. A provider's keys are only enabled or
not, which is what `lane_specs` looks at; `LivePool` has the keys themselves.

**AddressRules.** A v4 address has `Width4` bits, a v6 address one more, whose
top value marks a mapped v4 address. `Mask` shifts modulo the width of the
word, as a release build does, `TwoTo[n]` is a bit shifted by `n`, and `Matches`
tries the families in the code's order.

**Setup, Accounts.** One action per lock section, guard or handler; a handler and
its save are one step, which `ConfigStore` opens up. `mem` and `file` are the users in the store
and in `config.json`. A hash is a number given once, as hashes are salted; a
cookie holds what its signature covers, and the number of the process whose key
signed it. `LoginStep`s follow the three lock sections of `login_submit`, and
`RequireSession`, `RequireAdmin` and the handlers the layers a console request passes.
`epoch` is history.

**Ledger, Sampler.** One action per lock section or file operation. `Ledger`
follows a single model's total: models do not meet, and the file is written
whole. In `Sampler` its counter is the requests of all models, as the metrics
count them: `requests` and `tokens` are maps over every key, where 0 means that
there is no row. `snapshots` and `lines` are the times of the snapshots in
memory and in the file, which a kill cuts short anywhere. `past`, `covered` and `forgotten` are
history: they follow what was read of the counters for each write that was completed, and not
what the ledger made of it.

## 3. Runs

All bounds are constants of the cfg.

| Run | Shows |
|---|---|
| `dispatcher` | two keys of different providers, two kinds of request: a chosen lane still has room when it is taken (the code's retry loop is never needed on a fixed pool), a sleeping holder oversleeps no opening, queue and callers agree, and every call of `acquire_for` ends, whatever is benched or dropped meanwhile |
| `upstream_view` | the budget holds where it is granted and, with delays up to the margin, where it arrives; rests are honoured; the dispatcher implements `RateBudget` |
| `stream_fallback` (violation) | a stream's plain re-send takes no slot: one request above the limit |
| `governor` | permits conserved; cuts are spaced, indicted by two keys, followed by a slow climb; after rebuffs stop nobody waits for ever, even if a permit never returns |
| `request_plan` | before the pool is swapped: no key twice, every key of a small pool reached, nobody stranded by a stale catalog; swapped or not: a passed deadline ends the request, but for a buffered answer that has begun and a stream whose client never reads again |
| `admission` (`MCCatalog`) | slots conserved, and nobody admitted above the cap it read, by requests that keep their slot through a walk of the providers; an answer has every provider seen before, and is the union of its lists in their order |
| `live_pool` | with nothing between rebuild and swap, and no swap that drops a key, budgets and rests are carried exactly; a lone operator's pool is what the store says after every applied edit, whatever was refused or failed before |
| `live_pool_race` (violation) | without the first of these conditions a slot granted between rebuild and swap is forgotten |
| `config_store` (`MCSettings`) | with one settings request at a time, of any kind, accepted or refused: the file is whole, private, not behind, and an implementation of `AtomicFile`; aliases name providers that exist, in memory and on disk; the pool is never ahead of the file; the components hold what the store says; the filter lets in whom the list names |
| `config_torn` (violation) | two saves meet in the temporary file |
| `setup` (`MCAccounts`) | one claim, opened only when saved, and then served; its superuser stays the only one, in memory and on disk; logins overshoot the throttle by no more than there are under way; no session is honoured for an account that has changed since |
| `ledger` (`MCSampler`) | nothing counted twice; what was written survives restarts, unless the file was cut short; full tables lose no request; the history in order and thinned |

Type invariants are in no run. They are written in every component's module,
hold when they are added to the cfg of its run, and are proved for `Dispatcher`, `Governor`,
`ConfigStore`, `Ledger`, `Admission`, `LivePool` and `Accounts`, whose other proofs rest on them.

The three violations are findings in `PROJECT.json`, with the line of the
repository that says otherwise.

### Promises not kept

More of what comments and documents say is stated in the modules and refuted
by TLC in seconds. These properties are in no run; to see a counterexample,
give the cfg named here the property alone, with the change named.

| Property | With | Counterexample | What it contradicts |
|---|---|---|---|
| `NoneAtItsCap` | `Governor.cfg` | `admit` reads the cap in one lock section (`governor.rs:223`) and claims the slot in another: after a cut in between the caller is admitted above the cap | `governor.rs:220`, "or `None` when it is at its cap" |
| `GovernedOnceImplicated` | `Governor.cfg`, four callers, intervals 3, 2, 4, 5 (evidence, cooldown, growth, dissolving), `MaxLimit = 5`, `MaxTime = 6` | `pressured` dissolves a cap but leaves `last_adjusted` (`governor.rs:191`): the next episode passes for the last one | `governor.rs:102` |
| `KeyHeldToItsLimit` | `LivePool.cfg`, `CalmSpec`, `MaxTime = 3` | a key disabled and enabled again within a window starts afresh | `pool.rs:196` |
| `AppliedIsLive` | `LivePool.cfg`, `Spec`, two admins, four slots | two settings requests swap in the wrong order | `CONTRIBUTING.md:55`, "Settings apply live" |
| `AlwaysSomethingToServeOn` | `LivePool.cfg`, `Spec` | an edit refused because it leaves no key stays in the store, and the next request applies it | `settings.rs:196` |
| `BenchesTheRebuffedKey` | `LivePool.cfg`, `Spec` | a rebuff after a swap benches whatever key has the permit's index now | `proxy.rs:234` |
| `NobodySleepsBesideRoom` | `LivePool.cfg`, `Spec` | the gate sleeps on a pool that was replaced, beside a new key with room | `CONTRIBUTING.md:55` |
| `AcknowledgedIsKept` | `ConfigStoreTorn.cfg` | an older snapshot is written after a newer one | `lib.rs:27`, "doubles as the save-mutex" |
| `DeadlineIsForTheWhole` | `RequestPlan.cfg` | a buffered answer's body is read without the deadline (`proxy.rs:855`); and a stream whose client stops reading waits in a send that the deadline is not around, with its slot and permits (`proxy.rs:1246`, the heartbeats at 1004 and 1011, the final errors) | `proxy.rs:23` |
| `ClientNeverSees429` | `RequestPlan.cfg` | the last step relays the 429 | `README.md:174` |
| `AliasTargetsTried` | `RequestPlan.cfg` | the second model of an alias is never tried when the provider has one key: the first failure excludes the lane | `config.rs:33`, "tried in turn" |
| `LearnsFromTheField` | `RequestPlan.cfg` | a success of a later step on another provider writes the model off for `stream_options` | `proxy.rs:1145` |
| `AnotherKeyEachTime` without `swaps = 0` | `RequestPlan.cfg`, pools `<<a1, b1>>` and `<<b1, a1>>` | after a swap an excluded index is another key, and the failed key is tried again; `note_rebuff` counts one key as two in the same way | `proxy.rs:100` |
| `RefusedOnlyWhenFull` | `Catalog.cfg` | a refusal not yet undone makes the next one | `proxy.rs:160` |
| `FetchedOnlyWhenOld` | `Catalog.cfg` | two requests find the copy old, and both fetch it: the second costs a slot of a fresh list | `models.rs:2`, "costs no rate budget" |
| `ClaimableWhileRequired` | `Accounts.cfg` | a failed first save leaves the proxy neither claimed nor claimable until a restart | `setup.rs:2` |
| `FamiliesNeverCross` | `Settings.cfg` | a mapped v4 address is compared with the v6 rules too, and first | `net.rs:54`, "A v4 rule never authorises a v6 caller, or the reverse" |
| `RefusedChangesNothing` | `Settings.cfg` | a request that leaves no key, or whose list does not parse, is refused when the store (and the TTL) has changed | `settings.rs:4`, "validate, persist, then swap" |
| `OnlyAdminsRetireOthers` | `Settings.cfg` | keys are named by their last four characters: the first match must be one's own, all matches go | `settings.rs:426` |
| `AtMostMax` | `Sampler.cfg` | three snapshots asked down to two are three: the stride is rounded down | `history.rs:87`, "at most `max` points" |
| `TokensAreReported` | `Sampler.cfg`, `Statuses = {ok, failed}`, `MAX_SERIES = 2`, `MaxServed = 3` | failures fill the table of requests, whose rows say which models' tokens are reported: a model's tokens are kept and never shown | `ledger.rs:4`, "a per-model running total" |
| `FigureIsCurrent` | `Sampler.cfg` | an older reading overwrites a newer one | `lib.rs:88` |
| `TotalSurvivesRestart` | `Sampler.cfg` | a kill between the truncation of `usage.json` and its write loses all totals | `ledger.rs:6` |

### Bounds, and why they are enough

*Time.* Every guard compares two instants. In `dispatcher` and `governor` time is unbounded: when the clock reaches
`MaxTime` every instant is moved one tick back (`Rebase` in the MC module). With
`MaxTime = Window + 1` (or `DissolveAfter + 1`) an instant at 0 is already as
old as any guard can tell, so the move changes no behaviour, and no liveness
property is excused by a horizon. `Rebase` waits while a scan has not been
acted upon, so the clock moves at most one tick between a scan and its
grant there; in `upstream_view` it may move as far as the margin lets it. `upstream_view` and the runs of `LivePool` keep dates in
their history and stop at a horizon: past one full window, so that an expired
window is refilled (`MaxTime = 5` with a window of 3 and a provider window of
2), and in `LivePool` as long as the window, which a swap must span. They
check safety only.

*Windows.* Where budgets are counted (`upstream_view`, `live_pool`) two or three
ticks tell "just inside", "at" and "just outside" apart; `dispatcher` is about the
gate, and one tick tells a lane that reopens from one that does not, with
a backoff of two to tell a full lane from a benched one.
The intervals of `Governor` keep the order of the code's (`AdjustCooldown` <
`EvidenceWindow` <= `GrowInterval` < `DissolveAfter`).

*Actors.* Two requests suffice for every pairwise interleaving at the gate: its
holder and one behind it. The governor's three callers let a cap be cut to two,
climb to three and be cut again, with one caller waiting. `LivePool` and
`Settings` have one operator at a time where two break the claim, as shown above;
who signs in (two people, one an administrator) is another matter. `Catalog` has
three requests, of which two may walk, so that one fetches what the other
has just cached while a third is refused. `Accounts` has two accounts and two
callers: two logins, or a login and a console request, across each other.
`Sampler` has the task and one view.

*Data.* `Settings`: two providers, one alias, two endings of client keys. The nine
allow lists have every prefix length of both families, overlapping rules, a list
with an entry that does not parse and one of nothing else; `Width4 = 2` makes
all eight v6 and four v4 addresses peers, mapped and not. `Catalog`: two orders of providers (one lacks
the first), lists that share a name and differ in order, an alias
named like a model, an age of one tick told from none. `Sampler`: two models for
one row, so that the second folds.

*View.* `config_store` identifies states that differ only in configurations
nothing refers to any more (`MCView`): no guard or property reads them.

*Counters.* `MaxLimit` bounds the growth of a cap (the code grows it without
bound, one at a time); `MaxEdits`, `MaxSwaps`, `MaxServed`, `MaxCrashes`,
`MaxHashes`, `MaxCookies`, `MaxClients`, `MaxWalks` bound how often a thing
happens or how many there are. Three edits are an addition, something that refers to it, and its
removal; three passwords the claim's, a second account's and a reset.

*Symmetry* is used in safety runs only.

*Deadlock* is checked in every run.

### Fairness

`Dispatcher`: time passes, and the step of the gate's holder is taken
(tokio wakes a sleeper and a fair mutex hands over). A streamed request polls its
place in the queue from a loop that also sends heartbeats into a bounded
channel, so this asks of a streaming client that it goes on reading: sixteen
unread heartbeats and full socket buffers would stop the loop with the gate held.
`Governor`: time passes and every waiting caller polls. `RequestPlan`: timers
fire, and a plan that is used up is answered. The fairness of `GiveUp` is strong, because a
stream leaves the clock whenever it stands at a chunk its client has not taken; it holds since
a body is finite, after whose last chunk a stream stays at the clock, or ends. (A timeout looks
at what it waits for first, so a late stream is cut when its upstream pauses, not in the middle
of chunks that are ready.) A client is not assumed to read. `Accounts`: a setup form is handled to its end, which has no await, unless the process is killed. Nowhere is an
upstream assumed to answer, a client to leave or a permit to come back.

## 4. Proofs

TLAPS proves these for every value of the constants, from the named assumptions
of the modules and the hypotheses each theorem states. `Setup`, `Ledger`,
`Admission`, `ConfigStore` and `Dispatcher` are proved about together with the
module that extends them, in the larger one's proof module; that every step of
the larger one is a step of the smaller (`SettingsUseConfigStore`,
`CatalogKeepsAdmission`, `SamplerKeepsLedger`, and `StepOfSetup`) takes the results along.

**Dispatcher** (`UpstreamView_proofs`): `DispatcherTypes`, and `GateDiscipline`:
callers and queue agree and only the head is past the gate (`GateHeldByHead` is
inductive with the types; the work is in lemmas on sequences without
repetition). From it follow `ScanAndGrantAgree` and `GateHolderWakesInTime`: only the
holder of the gate adds a hit, and a bench makes a lane open later, so what the scan
saw (a lane with room, the earliest instant one reopens) is never too optimistic
when it is acted on.

**Budget** (`UpstreamView_proofs`): `LanesStayWithinBudget`. The inductive `BudgetInv` says
that a lane's hits are the tail of its history of slots, that the history is
ordered, that what was pruned is a window older than the clock, and that any
`Rpm + 1` consecutive slots span a window. It needs the gate: a slot is dated
with the holder's scan, and only one request has one. On it rest
`DispatcherImplementsRateBudget` (every step is a step of the abstract budget
or a stutter), `RestsAreHonoured` (with `RestInv`: a bench never shortens and a
chosen lane's slot is dated before any bench that overtook it), and
`UpstreamSeesNoViolation`: no rolling provider window of arrivals holds more
than the limit. `ArrivalInv` ties an arrival to a slot at most `Margin`
earlier, two arrivals in a provider window are then slots less than
`ProviderWindow + Margin` apart, and the budget says how many of those there are.
The assumption is that delays stay within the margin.

**Governor** (`Governor_proofs`): `GovernorTypes`, `CapsCanLift`, `EpisodesCutOnce`,
`ClimbingIsSlow`, `KeysIndictTogether`, `PermitsAreConserved`. `CutInv` relates the history of cuts to the fields a
cut leaves behind, `EvidenceInv` the rebuffs to who sent them, `PermitInv`
counts the holders. Assumed: the order of the intervals.

**LivePool** (`LivePool_proofs`): `LivePoolTypes`, `KeyHeldAcrossSwaps`,
`RestIsCarried`, `AppliedStaysLive`. `TrackInv` says that every lane's hits are
those its key was granted from the instant at which the next grant would be
dated, that every key spent on is in the pool, and that a pool built and not
yet swapped in knows as much as the live one; a rebuild copies it by key, so the limit
goes on holding on the other side of the swap. `RestInv` and `LiveInv` follow rests and
lane specifications the same way. Hypotheses:

* The configuration file names no key twice (`DistinctKeys(FirstStore)`).
  `Add` refuses a second one (settings.rs:156); nothing checks the file, and two
  lanes on one key have a budget each.
* `KeyHeldAcrossSwaps` is of `KeptCalmSpec`: no rebuild drops a key of the live
  pool, and nothing happens between a rebuild and its swap. Without either the
  code does not keep it (`live_pool_race`, and section 3). `RestIsCarried`
  needs only the second.
* `AppliedStaysLive` is of a single settings request at a time: of two, the older
  snapshot may be put in place last.

**RequestPlan** (`RequestPlan_proofs`): `NeverTheSameKeyTwice`, by `LanesInv`: the
lanes excluded are those of the keys that failed. `CatalogStrandsNobody`:
`PlannedInv` says what is true of every plan `Plan` makes (its last step goes anywhere),
and `StrandInv` that a request not sent yet has excluded nothing, so that step is
open to it. `FailureMeansEveryKey`: `TriesInv` counts that as many lanes are
excluded as steps have gone by, until all are (in a pool of at most four
lanes, the number of steps a plan is filled up to). As in the properties, the pool is not
swapped meanwhile, and the catalog has one list for each provider (`PlanAssumption`).

**Settings** (`Settings_proofs`): of the store, `ConfigStoreTypes`, `SoleSaverIsAtomic`,
`SoleSaverKeepsAcknowledged` and `SoleSaverImplementsAtomicFile`, assuming a
single saver. `SoleInv` says what a lone request has made of the temporary file at
each of its system calls. A rename then puts into place what is in memory, and
that is the only step that changes what a reader finds, so each step is an
`Edit`, a `Save` or a `Reload` of the abstract file, or a stutter. With two savers
TLC refutes `TargetWholeAndPrivate` and `AcknowledgedIsKept`.
Of the handlers, `AliasesNeverDangle` and `PoolFollowsFile` (a single saver again) and, however
requests overlap, `ComponentsStayWithStore` and `FilterMeansTheList`. `ConfInv` is of all configurations at
once, since an old one may be read back: each is whole, names
no absent provider in an alias, and has an allow list of rules only. Every handler makes
such a configuration of such a one (`HandlerEdits`), saved or refused.
`FilterMeansTheList` rests on `CoversIsDivision`: a comparison under the code's mask is
one of blocks, for addresses of any width.

**Accounts** (`Accounts_proofs`): `ClaimedOnce`, `AccountsTypes`, `SuperuserStays`,
`SessionsEndWithTheirAccount`, `ThrottleOvershootBounded`. `SetupInv`: what is on disk is
in memory, and there is one claim. `RolesInv`: the superuser in memory and on disk is
the one who claimed. `SessionInv` with `HashesMade`: no hash is newer than the last one made, so
a session whose hash is its account's was minted for the account as it is.
`ThrottleInv`: an attempt let through and not counted yet has its place below the bound.

**Catalog** (`Catalog_proofs`): `AdmissionConservesSlots` (with lemmas on how a request's
phase changes the number of requests in that phase) and
`AdmissionNeverOvershoots`, for any finite set of requests. `AnswersNeverBlank`:
`WalkInv` says that the providers known at the start are still to come or
have been got. `MergeIsTheUnion`: `FoldIsUpto` gives what adding entries one by one leaves, each
name once and first come first served; `FlattenStrings` that an earlier list
comes before a later one.

**Sampler** (`Sampler_proofs`): `LedgerNeverOvercounts` and `RestartsEraseNothing`. `LedgerInv` bounds `baseline` plus the
counter by what was served, and every reading by the counter: a fold in any
order is below what was served, and a restart may only take less from the disk. `WrittenInv`
says that one absorber at a time has the lock, that what it writes is its reading on top of the
baseline, and that the baseline is all that earlier processes had written (`past`), until a
start finds the file cut short.
`NamesNeverGrowTables` and `FoldedIsCounted`: a request without a row of its own adds to
"other", and the sum over all rows goes up by one with the counter (`SumInv`; of finitely many names
and statuses). `HistoryIsInOrder`: with `OrderInv`, time goes forward in memory and in
the file, through pruning and lines cut short; with `ThinForAnyHistory`, about a sequence
of any length, every stretch of it is thinned.

What these theorems are about is written as the prover needs it: `LaneSpecs`
(`LivePool`), `Among` (`Sampler`) and `TwoTo` (`AddressRules`) are
recursive functions, where a recursive operator, `SelectSeq` or an exponent could not
be reasoned about. Where a theorem is about what such a function or a
fold computes (`SumFolds`, `FoldAdds`, `FlattenStrings`, `TwoToDoubles`, ...), its
proof looks at the least place that would be an exception.

Only model-checked: liveness (`EveryCallEnds`, `QuietEndsWaiting`,
`DeadlineEndsTheWait`, `OpenGetsLanes`), which is beyond the prover. Every other property of a
passing run is stated by a theorem.

## 5. Not modelled, and the plan

Done, in this order: the limiter and the dispatcher with their proofs; the
governor; the live pool; the store; the request's plan; admission, setup and
ledger; the settings handlers and the address rules over the store; the catalog over
admission; accounts and sessions over setup; the sampler, metrics and history
over the ledger; the store as an atomic file.

What is left for proofs: the half of `AliasTargetsExist` that is about memory
does not need a sole saver, and the theorem has it with one.

Not modelled, with the reason:

* Learned context ceilings (`Limits` in `models.rs`): a minimum kept under one
  mutex, with nothing else that depends on it in between.
* The check of client keys in `handle`: a lookup in one lock section.
* The guard of `/metrics`: it looks up a session as `RequireSession` does, or, failing that,
  compares the name and password of HTTP Basic with the accounts in one lock section,
  without asking or feeding the login throttle, so `ThrottleHolds` is about logins only.
* The metrics other than requests and tokens: they are capped by the same
  `capped`, and nothing reads them for control.
* Rewriting of bodies (`stream_options`, the model's name), headers, the router's table,
  the health probe, shutdown, rendering, and the dashboard (it displays what the API
  returns): data and layout, with no state.
* The binary's `main`, hashing and signing (libraries), the wording of answers and logs.
* The plan composed with the dispatcher in one state space: `RequestPlan` takes
  any eligible lane, of which the dispatcher's choice is one, and
  `Dispatcher` takes any sequence of requests with any exclusions. The product
  is out of TLC's reach at bounds where both do something.

Simplifications to keep in mind: `SlidingWindow` works on naturals (the code's clock is
monotonic and does not overflow in practice). The wall clock of `Sampler` is not
set back; the code sorts nothing, so it would keep what it is given. A configuration
edited by hand is not: the filter's list always went through `limits`, and a
file of nothing but entries that do not parse would be an open door at boot
(`Permitted` says so).
