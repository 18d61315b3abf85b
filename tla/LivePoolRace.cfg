SPECIFICATION KeptSpec
CONSTANTS
  Window = 2
  k1 = k1
  k2 = k2
  Keys <- MCKeys
  Rpms <- MCRpms
  FirstStore <- MCFirstStore
  Admins = {a1}
  Callers = {c1, c2}
  Backoffs = {1, 3}
  Slots = {s1, s2, s3}
  NONE = NONE
  MaxTime = 3
INVARIANT
  KeyHeldToItsLimit
SYMMETRY MCSymmetry
