SPECIFICATION Spec
CONSTANTS
  Client = {c1}
  Cap = 1
  BCap = 1
  OutCap = 2
  UpCap = 1
  MaxChunk = 1
  MaxTotal = 1
  MaxEpoch = 1
  MaxOpens = 1
  AllowReset = TRUE
  AllowClose = FALSE
INVARIANTS
  NeverSilent
