--------------------------- MODULE MCUpstreamView ---------------------------
(***************************************************************************)
(* One key with two slots per window, up to the end of its third window.   *)
(***************************************************************************)
EXTENDS UpstreamView, OneKey, TLC

MCSymmetry == Permutations(Requests)

=============================================================================
