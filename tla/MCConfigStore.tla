--------------------------- MODULE MCConfigStore ---------------------------
EXTENDS ConfigStore, TLC

MCSymmetry == Permutations(Savers)

=============================================================================
