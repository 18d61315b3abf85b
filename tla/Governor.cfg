SPECIFICATION UnboundedSpec
CONSTANTS
  Callers = {c1, c2, c3}
  Lanes = {k1, k2}
  EvidenceWindow = 2
  KeysToIndict = 2
  DissolveAfter = 3
  AdjustCooldown = 1
  MinLimit = 2
  GrowInterval = 2
  NONE = NONE
  MaxLimit = 3
  MaxTime = 4
INVARIANTS
  PermitsConserved
PROPERTIES
  OneCutPerEpisode
  OneKeyNeverIndicts
  NoGrowthAfterCut
  QuietEndsWaiting
