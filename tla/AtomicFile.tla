----------------------------- MODULE AtomicFile -----------------------------
(***************************************************************************)
(* What save and load promise of the configuration (src/src/config.rs): a  *)
(* file that is replaced as a whole by what is in memory, or not at all.   *)
(* Configurations are numbered in the order they are made.                 *)
(***************************************************************************)
EXTENDS Naturals

VARIABLES mem, disk

fvars == <<mem, disk>>

Init == mem = 0 /\ disk = 0

Edit == mem' = mem + 1 /\ UNCHANGED disk

Save == disk' = mem /\ UNCHANGED mem

\* A start after the process was killed at any moment.
Reload == mem' = disk /\ UNCHANGED disk

Next == Edit \/ Save \/ Reload

Spec == Init /\ [][Next]_fvars

=============================================================================
