SPECIFICATION KeptCalmSpec
CONSTANTS
  Window = 2
  k1 = k1
  k2 = k2
  Keys <- MCKeys
  Rpms <- MCRpms
  FirstStore <- MCFirstStore
  Admins = {a1}
  Callers = {c1}
  Backoffs = {3}
  Slots = {s1, s2, s3}
  NONE = NONE
  MaxTime = 2
INVARIANTS
  KeyHeldToItsLimit
  AppliedIsLive
PROPERTY
  RestSurvivesSwap
SYMMETRY MCSymmetry
