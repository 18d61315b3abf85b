--------------------------- MODULE SlidingWindow ---------------------------
(***************************************************************************)
(* The exact "N requests per rolling window" limiter of src/src/pool.rs.   *)
(* A limiter is its queue of hits: the instants of the slots it granted,   *)
(* oldest first.  Instants are natural numbers of an arbitrary unit; the   *)
(* limit is a parameter because settings can change it while the hits are  *)
(* kept.                                                                   *)
(***************************************************************************)
EXTENDS Naturals, Sequences

CONSTANT Window    \* the enforcement window (provider window plus margin)

ASSUME WindowAssumption == Window \in Nat \ {0}

\* Mutant of Prune: a hit leaves the window one tick early.
PruneEarly(hits, now) ==
  LET live == {i \in 1..Len(hits) : now + 1 < hits[i] + Window}
  IN  IF live = {} THEN << >>
      ELSE SubSeq(hits, CHOOSE i \in live : \A j \in live : i <= j, Len(hits))

(***************************************************************************)
(* Hits are popped from the front while the front one has left the window. *)
(* A hit behind a live one stays, whatever its own age; before the clock   *)
(* reaches Window nothing is popped (checked_sub yields no cutoff).        *)
(***************************************************************************)
Prune(hits, now) ==
  LET live == {i \in 1..Len(hits) : now < hits[i] + Window}
  IN  IF live = {} THEN << >>
      ELSE SubSeq(hits, CHOOSE i \in live : \A j \in live : i <= j, Len(hits))

\* Budget spent in the window that ends now.
Load(hits, now) == Len(Prune(hits, now))

HasRoom(hits, limit, now) == Load(hits, now) < limit

\* The limiter after it granted a slot at now.
Hit(hits, now) == Append(Prune(hits, now), now)

\* When a saturated limiter says to come back: the oldest live hit leaves the
\* window then.  A limiter with no hit at all is saturated only by limit 0.
RetryAt(hits, now) ==
  LET live == Prune(hits, now)
  IN  (IF live = << >> THEN now ELSE live[1]) + Window

=============================================================================
