SPECIFICATION Spec
CONSTANTS
  Savers = {s1, s2}
  MaxEdits = 3
  EMPTY = EMPTY
INVARIANTS
  TargetWholeAndPrivate
SYMMETRY MCSymmetry
