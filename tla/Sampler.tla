------------------------------ MODULE Sampler ------------------------------
(***************************************************************************)
(* The sampler task (src/src/lib.rs): at every tick it appends the request *)
(* total to the history (src/src/history.rs) and then absorbs the usage    *)
(* into the ledger (Ledger).  What it reads are the tables of the metrics  *)
(* (src/src/metrics.rs), whose rows are named by what clients send.        *)
(*                                                                         *)
(* Ledger's counter is the requests of all models.  The client of a row is *)
(* left out: it is never folded.  The wall clock is not set back.          *)
(***************************************************************************)
EXTENDS Ledger, SequencesExt, FiniteSets

CONSTANTS
  Sampler,       \* that one of Absorbers which is the task
  Models,        \* names sent by clients
  Statuses,
  Reporting,     \* the statuses that come with a usage
  REST,          \* "other", the row what finds no room is folded into
  MAX_SERIES,
  Retentions,    \* what history_days may be set to; 0 is forever
  MaxTime        \* bound on the clock

ASSUME SamplerAssumption ==
  /\ Sampler \in Absorbers
  /\ REST \notin Models
  /\ {MAX_SERIES, MaxTime} \subseteq Nat
  /\ Retentions \subseteq Nat

VARIABLES
  requests,      \* Metrics.requests: [<<model, status>> -> count], 0 where there is no row
  tokens,        \* Metrics.tokens, likewise by model
  now,
  retention,
  snapshots,     \* History.snapshots: when they were taken
  lines,         \* history.jsonl
  tick           \* where the sampler is before it absorbs

samplerVars == <<vars, requests, tokens, now, retention, snapshots, lines, tick>>

Rows == (Models \cup {REST}) \X Statuses

SamplerTypeOK ==
  /\ TypeOK
  /\ requests \in [Rows -> Nat]
  /\ tokens \in [Models \cup {REST} -> Nat]
  /\ now \in 0..MaxTime
  /\ retention \in Retentions
  /\ {snapshots, lines} \subseteq Seq(0..MaxTime)
  /\ tick \in {"due", "kept", "asleep"}

NoRows(keys) == [k \in keys |-> 0]

SamplerInit ==
  /\ Init
  /\ requests = NoRows(Rows) /\ tokens = NoRows(Models \cup {REST})
  /\ now = 0
  /\ retention \in Retentions
  /\ snapshots = <<>> /\ lines = <<>>
  /\ tick = "due"

-----------------------------------------------------------------------------
(***************************************************************************)
(* Metrics                                                                 *)
(***************************************************************************)
Size(table) == Cardinality({k \in DOMAIN table : table[k] > 0})
HasRoom(table, key) == table[key] > 0 \/ Size(table) < MAX_SERIES

Counted(table, key) == [table EXCEPT ![key] = @ + 1]

\* Mutant of RecordRequest: what finds no room is dropped.
RecordOrDrop(model, status) ==
  requests' = IF HasRoom(requests, <<model, status>>)
              THEN Counted(requests, <<model, status>>) ELSE requests

RecordRequest(model, status) ==
  requests' = Counted(requests, IF HasRoom(requests, <<model, status>>)
                                THEN <<model, status>> ELSE <<REST, status>>)

RecordTokens(model) ==
  tokens' = Counted(tokens, IF HasRoom(tokens, model) THEN model ELSE REST)

\* A request ends; what succeeds reports its usage.
Records ==
  /\ Serve
  /\ \E model \in Models, status \in Statuses :
       /\ RecordRequest(model, status)
       /\ IF status \in Reporting THEN RecordTokens(model) ELSE UNCHANGED tokens
  /\ UNCHANGED <<now, retention, snapshots, lines, tick>>

Sum(table) == FoldFunction(+, 0, table)

-----------------------------------------------------------------------------
(***************************************************************************)
(* History                                                                 *)
(***************************************************************************)
Cutoff == IF retention = 0 \/ retention > now THEN 0 ELSE now - retention

\* The elements of s that are in times, in their order.
Among(s, times) ==
  LET upTo[n \in 0..Len(s)] ==
        IF n = 0 THEN <<>>
        ELSE IF s[n] \in times THEN Append(upTo[n - 1], s[n]) ELSE upTo[n - 1]
  IN  upTo[Len(s)]

\* retain, of the history with the new snapshot.
Pruned == Among(Append(snapshots, now), Cutoff..MaxTime)

\* Mutant of Persisted: the file is not truncated first.
PersistedOver(new) == lines' = new \o SubSeq(lines, Len(new) + 1, Len(lines))

\* The file stays as it is when it cannot be opened; otherwise it is truncated and
\* holds as many lines as come to the disk, also when the process is killed meanwhile.
Persisted(new) == lines' \in {lines} \cup {SubSeq(new, 1, n) : n \in 0..Len(new)}

\* append, which drops the error.
Sample ==
  /\ tick = "due" /\ pc[Sampler] = "idle"
  /\ snapshots' = Pruned
  /\ Persisted(Pruned)
  /\ tick' = "kept"
  /\ UNCHANGED <<vars, requests, tokens, now, retention>>

\* Mutant of Stride: every max-th is taken.
StrideOfMax(len, max) == max

\* v.len() / max, rounded down.
Stride(len, max) == len \div max

\* Every Stride-th snapshot, from the first on; all of them when max is 0.
Downsample(v, max) ==
  IF max = 0 \/ Len(v) <= max THEN v
  ELSE LET step == Stride(Len(v), max)
       IN [i \in 1 .. (Len(v) - 1) \div step + 1 |-> v[(i - 1) * step + 1]]

Within(from, to, max) ==
  Downsample(Among(snapshots, from..to), max)

-----------------------------------------------------------------------------
\* The sampler absorbs when it has appended, and then sleeps.
Absorbs ==
  /\ \E a \in Absorbers :
       \/ a # Sampler /\ (ReadCounter(a) \/ Finish(a)) /\ UNCHANGED tick
       \/ a = Sampler /\ tick = "kept" /\ ReadCounter(a) /\ UNCHANGED tick
       \/ a = Sampler /\ Finish(a) /\ tick' = "asleep"
       \/ (Absorb(a) \/ Truncate(a) \/ Write(a) \/ WriteFails(a) \/ Show(a)) /\ UNCHANGED tick
  /\ UNCHANGED <<requests, tokens, now, retention, snapshots, lines>>

SetRetention ==
  /\ retention' \in Retentions \ {retention}
  /\ UNCHANGED <<vars, requests, tokens, now, snapshots, lines, tick>>

\* The sampler sleeps for a second at least.
Elapse ==
  /\ now < MaxTime
  /\ now' = now + 1
  /\ tick' = IF tick = "asleep" THEN "due" ELSE tick
  /\ UNCHANGED <<vars, requests, tokens, retention, snapshots, lines>>

\* The metrics start from zero; a line half written does not parse and is left out.
RestartSampler ==
  /\ Restart
  /\ requests' = NoRows(Rows) /\ tokens' = NoRows(Models \cup {REST})
  /\ snapshots' = lines
  /\ tick' = "due"
  /\ UNCHANGED <<now, retention, lines>>

SamplerNext ==
  \/ Records \/ Sample
  \/ Absorbs \/ SetRetention \/ Elapse \/ RestartSampler

SamplerSpec == SamplerInit /\ [][SamplerNext]_samplerVars

-----------------------------------------------------------------------------
(***************************************************************************)
(* Properties                                                              *)
(***************************************************************************)

SeriesCapped ==
  /\ Cardinality({row \in Models \X Statuses : requests[row] > 0}) <= MAX_SERIES
  /\ Cardinality({m \in Models : tokens[m] > 0}) <= MAX_SERIES

\* A name that clients made up can neither grow a table without end ("an untrusted
\* `model` can't explode the registry", head of src/src/metrics.rs) nor cost a count
\* ("Cumulative count of all requests recorded so far", Metrics::total): they name no
\* more rows than the cap, and all rows add up to what this process served.
FoldedNotLost ==
  /\ SeriesCapped
  /\ Sum(requests) = counter

\* "downsampled to at most `max` points" (range), as far as the code keeps it: less
\* than twice as many, from the first one on.  What is there, and what the next process
\* would load, is in the order of time, on which the console's request rate relies,
\* wherever the write of the file was cut short and whatever the retention became.
RangeIsThin ==
  /\ \A h \in {snapshots, lines} : \A i, j \in DOMAIN h : i < j => h[i] <= h[j]
  /\ \A from, to \in 0..MaxTime :
       LET all == Within(from, to, 0) IN
       \A max \in 1..4 :
         LET thin == Downsample(all, max)
         IN /\ Len(thin) <= 2 * max - 1
            /\ all # <<>> => thin # <<>> /\ Head(thin) = Head(all)

-----------------------------------------------------------------------------
(***************************************************************************)
(* Promises the code does not keep; no run checks them.                    *)
(***************************************************************************)

\* "downsampled to at most `max` points": the stride is rounded down.
AtMostMax ==
  \A from, to \in 0..MaxTime, max \in 1..4 : Len(Within(from, to, max)) <= max

\* "a per-model running total" (head of src/src/ledger.rs): stats reports the tokens
\* of the models that have a row among the requests, and that table is full first.
TokensAreReported ==
  Sum([m \in Models \cup {REST} |->
        IF \E status \in Statuses : requests[<<m, status>>] > 0 THEN tokens[m] ELSE 0])
    = Sum(tokens)

=============================================================================
