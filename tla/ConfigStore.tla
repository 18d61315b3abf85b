---------------------------- MODULE ConfigStore ----------------------------
(***************************************************************************)
(* The persisted configuration (save and load in src/src/config.rs) under  *)
(* the settings requests that write it (src/src/settings.rs) and a process *)
(* that may be killed at any point and started again (src/src/lib.rs).     *)
(*                                                                         *)
(* A configuration is the number of edits it contains.  save is the system *)
(* calls it makes: the temporary file is opened and truncated, written,    *)
(* made private and renamed over the target.  A file is an inode, because  *)
(* a rename moves the name and not what another writer has open.           *)
(***************************************************************************)
EXTENDS Naturals, FiniteSets

CONSTANTS
  Savers,      \* settings requests that may be under way at once
  EMPTY,       \* contents of a file that is not wholly written
  MaxEdits     \* bound on the edits made in a behaviour

ASSUME ConfigStoreAssumption ==
  /\ IsFiniteSet(Savers)
  /\ EMPTY \notin Nat
  /\ MaxEdits \in Nat

VARIABLES
  up,        \* the process is running
  store,     \* AppState.store
  inodes,    \* [Inodes -> contents and mode of a file]
  tmp,       \* inode of config.json.tmp, or NoFile
  target,    \* inode of config.json
  saver,     \* [Savers -> where its request is, its snapshot, its open file]
  latest     \* observer: the last configuration whose save was acknowledged

vars == <<up, store, inodes, tmp, target, saver, latest>>

Inodes == 1 .. (Cardinality(Savers) + 2)
NoFile == 0

Contents == 0..MaxEdits \cup {EMPTY}

Idle == [step |-> "idle", snapshot |-> 0, file |-> NoFile]

TypeOK ==
  /\ up \in BOOLEAN
  /\ store \in 0..MaxEdits
  /\ inodes \in [Inodes -> [data : Contents, private : BOOLEAN]]
  /\ tmp \in Inodes \cup {NoFile}
  /\ target \in Inodes
  /\ saver \in [Savers -> [step : {"idle", "edited", "open", "written", "private"},
                           snapshot : 0..MaxEdits, file : Inodes \cup {NoFile}]]
  /\ latest \in 0..MaxEdits

\* A configured proxy: what is on disk is what is in memory.
Init ==
  /\ up = TRUE
  /\ store = 0
  /\ inodes = [i \in Inodes |-> [data |-> 0, private |-> TRUE]]
  /\ tmp = NoFile
  /\ target = 1
  /\ saver = [s \in Savers |-> Idle]
  /\ latest = 0

-----------------------------------------------------------------------------
At(s, step) == up /\ saver[s].step = step

InUse == {tmp, target} \cup {saver[s].file : s \in Savers}

\* A handler changes the store under its lock and takes its snapshot; where that is
\* a second lock section (apply), an edit in between only makes the snapshot newer.
Edit(s) ==
  /\ At(s, "idle")
  /\ store < MaxEdits
  /\ store' = store + 1
  /\ saver' = [saver EXCEPT ![s] = [Idle EXCEPT !.step = "edited", !.snapshot = store']]
  /\ UNCHANGED <<up, inodes, tmp, target, latest>>

\* A request that has edited the store and is then refused leaves it edited.
Refused(s) ==
  /\ At(s, "idle")
  /\ store < MaxEdits
  /\ store' = store + 1
  /\ UNCHANGED <<up, inodes, tmp, target, saver, latest>>

\* Mutant of OpenTmp: the target itself is opened and truncated.
OpenTarget(s) ==
  /\ At(s, "edited")
  /\ inodes' = [inodes EXCEPT ![target] = [data |-> EMPTY, private |-> FALSE]]
  /\ tmp' = target
  /\ saver' = [saver EXCEPT ![s].step = "open", ![s].file = target]
  /\ UNCHANGED <<up, store, target, latest>>

\* std::fs::write, first half: an existing temporary file is truncated and keeps
\* its mode, otherwise a new one is created readable by others.
OpenTmp(s) ==
  /\ At(s, "edited")
  /\ \E i \in Inodes :
       /\ IF tmp # NoFile THEN i = tmp
          ELSE i \notin InUse /\ \A j \in Inodes : j \notin InUse => i <= j
       /\ inodes' = [inodes EXCEPT ![i] = [data |-> EMPTY, private |-> tmp # NoFile /\ @.private]]
       /\ tmp' = i
       /\ saver' = [saver EXCEPT ![s].step = "open", ![s].file = i]
  /\ UNCHANGED <<up, store, target, latest>>

\* Second half, through the open file.
Write(s) ==
  /\ At(s, "open")
  /\ inodes' = [inodes EXCEPT ![saver[s].file].data = saver[s].snapshot]
  /\ saver' = [saver EXCEPT ![s].step = "written", ![s].file = NoFile]
  /\ UNCHANGED <<up, store, tmp, target, latest>>

\* chmod, of whatever the temporary name means now.
MakePrivate(s) ==
  /\ At(s, "written")
  /\ tmp # NoFile
  /\ inodes' = [inodes EXCEPT ![tmp].private = TRUE]
  /\ saver' = [saver EXCEPT ![s].step = "private"]
  /\ UNCHANGED <<up, store, tmp, target, latest>>

\* rename, likewise; the request is answered with success.
Rename(s) ==
  /\ At(s, "private")
  /\ tmp # NoFile
  /\ target' = tmp
  /\ tmp' = NoFile
  /\ saver' = [saver EXCEPT ![s] = Idle]
  /\ latest' = IF saver[s].snapshot > latest THEN saver[s].snapshot ELSE latest
  /\ UNCHANGED <<up, store, inodes>>

\* Mutant of SaveFails: the error is dropped and success is answered.
SaveFailsSilently(s) ==
  /\ \/ At(s, "edited") \/ At(s, "open")
     \/ At(s, "written") \/ At(s, "private")
  /\ saver' = [saver EXCEPT ![s] = Idle]
  /\ latest' = IF saver[s].snapshot > latest THEN saver[s].snapshot ELSE latest
  /\ UNCHANGED <<up, store, inodes, tmp, target>>

\* The request is answered with an error: a system call failed (the disk is full,
\* or the temporary name is gone).
SaveFails(s) ==
  /\ \/ At(s, "edited") \/ At(s, "open")
     \/ At(s, "written") \/ At(s, "private")
  /\ saver' = [saver EXCEPT ![s] = Idle]
  /\ UNCHANGED <<up, store, inodes, tmp, target, latest>>

\* The process is killed: the files stay.
Crash ==
  /\ up
  /\ up' = FALSE
  /\ saver' = [s \in Savers |-> Idle]
  /\ UNCHANGED <<store, inodes, tmp, target, latest>>

\* load: a configuration that cannot be parsed is a hard boot error.
Boot ==
  /\ ~up
  /\ inodes[target].data # EMPTY
  /\ up' = TRUE
  /\ store' = inodes[target].data
  /\ UNCHANGED <<inodes, tmp, target, saver, latest>>

-----------------------------------------------------------------------------
Next ==
  \/ Crash
  \/ Boot
  \/ \E s \in Savers : \/ Edit(s) \/ Refused(s) \/ OpenTmp(s) \/ Write(s)
                       \/ MakePrivate(s) \/ Rename(s) \/ SaveFails(s)

Spec == Init /\ [][Next]_vars

-----------------------------------------------------------------------------
(***************************************************************************)
(* Properties                                                              *)
(***************************************************************************)

\* "A crash mid-write can never leave a half-written or world-readable credential
\* file" (src/src/config.rs, save): at no point is the target anything else than a
\* whole, private configuration.
TargetWholeAndPrivate == inodes[target].data # EMPTY /\ inodes[target].private

\* What was acknowledged is there after a restart, and nothing newer is lost to
\* something older: the file is never behind the last acknowledged save.
AcknowledgedIsKept ==
  inodes[target].data # EMPTY => inodes[target].data >= latest

\* Through temporary file and rename, failures and kills, save is one atomic step to
\* whoever reads the file.
File == INSTANCE AtomicFile WITH mem <- store, disk <- inodes[target].data
ImplementsAtomicFile == File!Spec

=============================================================================
