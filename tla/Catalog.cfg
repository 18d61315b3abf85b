SPECIFICATION CatalogSpec
CONSTANTS
  Requests = {r1, r2, r3}
  Caps = {1, 2}
  Orders <- MCOrders
  Lists <- MCLists
  Aliases <- MCAliases
  Ttls = {0, 1}
  MaxAge = 1
  MaxWalks = 2
  NONE = NONE
INVARIANTS
  SlotsConserved
  NeverBlank
  MergeIsUnion
PROPERTIES
  NoOvershoot
SYMMETRY MCSymmetry
