------------------------------- MODULE Ledger -------------------------------
(***************************************************************************)
(* The lifetime totals (src/src/ledger.rs), folded and persisted by the    *)
(* sampler task and by every view of the savings (src/src/lib.rs).  A      *)
(* single model's total stands for all: the models do not meet, and the    *)
(* file is written whole.                                                  *)
(*                                                                         *)
(* An absorber reads the process's counters, then folds what it read onto  *)
(* the baseline under the lock and rewrites the file before it lets go.    *)
(* The file is written in place: it is truncated first, and a file that    *)
(* does not parse is read back as no totals at all.                        *)
(***************************************************************************)
EXTENDS Naturals

CONSTANTS
  Absorbers,   \* the sampler and the views under way
  TORN,        \* a file that does not parse
  MaxServed,   \* bound on the usage ever recorded
  MaxCrashes   \* bound on restarts

ASSUME LedgerAssumption ==
  /\ TORN \notin Nat
  /\ MaxServed \in Nat /\ MaxCrashes \in Nat

VARIABLES
  served,      \* history: usage recorded by all processes so far
  past,        \* history: the usage of earlier processes that each had read for the
               \* last write it completed
  covered,     \* history: this process's usage read for the last write completed
  forgotten,   \* history: a start found a file that does not parse
  crashes,     \* restarts so far
  counter,     \* this process's usage, as the metrics count it
  baseline,    \* the totals as of process start
  live,        \* the published totals
  disk,        \* usage.json
  pc,          \* [Absorbers -> where it is]
  read         \* [Absorbers -> what it read of the counter, and then of live]

written == <<past, covered, forgotten>>
process == <<counter, baseline, live, pc, read>>
vars == <<served, written, crashes, process, disk>>

Phases == {"idle", "read", "truncating", "writing", "absorbed", "shown"}

TypeOK ==
  /\ {served, past, covered, crashes, counter, baseline, live} \subseteq Nat
  /\ forgotten \in BOOLEAN
  /\ disk \in Nat \cup {TORN}
  /\ pc \in [Absorbers -> Phases]
  /\ read \in [Absorbers -> Nat]

Init ==
  /\ served = 0 /\ crashes = 0
  /\ past = 0 /\ covered = 0 /\ forgotten = FALSE
  /\ counter = 0 /\ baseline = 0 /\ live = 0
  /\ disk = 0
  /\ pc = [a \in Absorbers |-> "idle"]
  /\ read = [a \in Absorbers |-> 0]

Goes(a, to) == pc' = [pc EXCEPT ![a] = to]

\* A request is recorded in the metrics.
Serve ==
  /\ served < MaxServed
  /\ served' = served + 1
  /\ counter' = counter + 1
  /\ UNCHANGED <<written, crashes, baseline, live, disk, pc, read>>

ReadCounter(a) ==
  /\ pc[a] = "idle"
  /\ read' = [read EXCEPT ![a] = counter]
  /\ Goes(a, "read")
  /\ UNCHANGED <<served, written, crashes, counter, baseline, live, disk>>

Unlocked == \A a \in Absorbers : pc[a] \notin {"truncating", "writing"}

\* Mutant of Folded: what was read is added to the total it is already part of.
FoldedOntoLive(a) == live + read[a]

\* Mutant of Folded: what was there at process start is left out.
FoldedOntoNothing(a) == read[a]

\* A model that has no row yet is not folded; here it is folded as none.
Folded(a) == baseline + read[a]

Absorb(a) ==
  /\ pc[a] = "read"
  /\ Unlocked
  /\ live' = Folded(a)
  /\ Goes(a, "truncating")
  /\ UNCHANGED <<served, written, crashes, counter, baseline, disk, read>>

Truncate(a) ==
  /\ pc[a] = "truncating"
  /\ disk' = TORN
  /\ Goes(a, "writing")
  /\ UNCHANGED <<served, written, crashes, counter, baseline, live, read>>

Write(a) ==
  /\ pc[a] = "writing"
  /\ disk' = live
  /\ covered' = read[a]
  /\ Goes(a, "absorbed")
  /\ UNCHANGED <<served, past, forgotten, crashes, counter, baseline, live, read>>

\* The write fails, before the file is opened or after: the error is dropped.
WriteFails(a) ==
  /\ pc[a] \in {"truncating", "writing"}
  /\ Goes(a, "absorbed")
  /\ UNCHANGED <<served, written, crashes, counter, baseline, live, disk, read>>

\* The view is priced from the totals as they are now; the sampler goes to sleep.
Show(a) ==
  /\ pc[a] = "absorbed"
  /\ Unlocked
  /\ Goes(a, "shown")
  /\ UNCHANGED <<served, written, crashes, counter, baseline, live, disk, read>>

Finish(a) ==
  /\ pc[a] = "shown"
  /\ read' = [read EXCEPT ![a] = 0]
  /\ Goes(a, "idle")
  /\ UNCHANGED <<served, written, crashes, counter, baseline, live, disk>>

Stored == IF disk = TORN THEN 0 ELSE disk

\* The process is killed and started again.
Restart ==
  /\ crashes < MaxCrashes
  /\ crashes' = crashes + 1
  /\ past' = past + covered
  /\ covered' = 0
  /\ forgotten' = (forgotten \/ disk = TORN)
  /\ counter' = 0
  /\ baseline' = Stored
  /\ live' = Stored
  /\ pc' = [a \in Absorbers |-> "idle"]
  /\ read' = [a \in Absorbers |-> 0]
  /\ UNCHANGED <<served, disk>>

Next ==
  \/ Serve \/ Restart
  \/ \E a \in Absorbers : \/ ReadCounter(a) \/ Absorb(a) \/ Truncate(a) \/ Write(a)
                          \/ WriteFails(a) \/ Show(a) \/ Finish(a)

Spec == Init /\ [][Next]_vars

-----------------------------------------------------------------------------
(***************************************************************************)
(* Properties                                                              *)
(***************************************************************************)

\* No usage is counted twice, however often it is absorbed, by whom, and wherever
\* the process was killed (absorb is "idempotent": it folds absolute values).
NeverOvercounts ==
  /\ live <= served
  /\ disk # TORN => disk <= served

\* What earlier processes had written of their usage stays in the published total and
\* in the file, over any number of restarts, with absorbers that overlap and whose
\* readings are old, and with writes that fail: a restart must not "appear to erase the
\* history" (baseline).  The exception is a file cut short that a start has come upon.
EarlierUsageStays ==
  ~forgotten =>
    /\ live >= past
    /\ disk # TORN => disk = past + covered

-----------------------------------------------------------------------------
(***************************************************************************)
(* Promises of the documentation that Spec does not keep; README.md says   *)
(* on which instance TLC shows it.                                         *)
(***************************************************************************)

\* A view absorbs before it reads "so the figure includes the current tick": what
\* it shows is not less than what it read of the counters itself.
FigureIsCurrent ==
  [][\A a \in Absorbers : pc[a] = "absorbed" /\ pc'[a] = "shown" =>
       live >= baseline + read[a]]_vars

\* The running total is on disk, "so the figure is a property of the installation
\* rather than of the current process": a start goes on from what was written.
TotalSurvivesRestart == [][crashes' # crashes => live' >= past']_vars

=============================================================================
