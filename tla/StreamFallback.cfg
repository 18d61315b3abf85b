SPECIFICATION FallbackSpec
CONSTANTS
  ProviderWindow = 2
  Margin = 1
  Window = 3
  Requests = {r1, r2}
  Lanes <- OneLane
  Provider <- OneProvider
  Protocol <- OneProtocol
  Rpm <- OneRpm
  Weight <- OneWeight
  Wants <- OneWants
  ANY = ANY
  Backoffs <- LongBackoffs
  Poll = 1
  MaxTime = 5
INVARIANT
  UpstreamNeverViolated
SYMMETRY MCSymmetry
