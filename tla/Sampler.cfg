SPECIFICATION SamplerSpec
CONSTANTS
  Sampler = sampler
  view = view
  Absorbers = {sampler, view}
  TORN = TORN
  MaxServed = 2
  MaxCrashes = 1
  Models = {m, n}
  Statuses = {ok}
  Reporting = {ok}
  REST = REST
  MAX_SERIES = 1
  Retentions = {0, 1}
  MaxTime = 2
SYMMETRY MCSymmetry
INVARIANTS
  NeverOvercounts
  FoldedNotLost
  RangeIsThin
  EarlierUsageStays
