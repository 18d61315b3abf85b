SPECIFICATION Spec
CONSTANTS
  a1 = a1
  a2 = a2
  b1 = b1
  p = p
  q = q
  gone = gone
  m1 = m1
  m2 = m2
  ANY = ANY
  Keys <- ThreeKeys
  ProviderOf <- TheirProvider
  Pools <- MCPools
  Aliases <- MCAliases
  Offerings <- MCOfferings
  MaxSwaps = 1
INVARIANTS
  AnotherKeyEachTime
  FailoverTriesEveryKey
  NotStranded
PROPERTY
  DeadlineEndsTheWait
