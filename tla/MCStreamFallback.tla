-------------------------- MODULE MCStreamFallback --------------------------
EXTENDS StreamFallback, OneKey, TLC

MCSymmetry == Permutations(Requests)

=============================================================================
