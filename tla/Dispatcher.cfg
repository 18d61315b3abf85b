SPECIFICATION UnboundedSpec
CONSTANTS
  Window = 1
  Requests = {r1, r2}
  Lanes <- MCLanes
  Provider <- MCProvider
  Protocol <- MCProtocol
  Rpm <- MCRpm
  Weight <- MCWeight
  Wants <- MCWants
  ANY = ANY
  Backoffs <- MCBackoffs
  Poll = 1
  MaxTime = 2
PROPERTY
  EveryCallEnds
INVARIANTS
  ChosenStillFree
  NoOversleep
  GateHeldByHead
