----------------------------- MODULE MCSampler -----------------------------
EXTENDS Sampler

CONSTANT view

MCSymmetry == Permutations(Models) \cup Permutations(Statuses)

=============================================================================
