SPECIFICATION SettingsSpec
CONSTANTS
  Savers = {s1}
  MaxEdits = 3
  EMPTY = EMPTY
  Width4 = 2
  Providers = {p, q}
  Aliases = {a}
  Operators = {root, ann}
  Admins = {root}
  Tails = {x, y}
  MaxClients = 2
  Ttls = {short, long}
  AllowLists <- MCAllowLists
SYMMETRY MCSymmetry
VIEW MCView
INVARIANTS
  TargetWholeAndPrivate
  AcknowledgedIsKept
  AliasTargetsExist
  ComponentsFollowStore
  PoolNotAheadOfFile
  FilterIsAsConfigured
PROPERTIES
  ImplementsAtomicFile
