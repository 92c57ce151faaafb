SPECIFICATION Spec
CONSTANTS
  Client = {c1}
  Cap = 2
  BCap = 1
  OutCap = 2
  UpCap = 1
  MaxChunk = 1
  MaxTotal = 1
  MaxEpoch = 1
  MaxOpens = 2
  AllowReset = FALSE
  AllowClose = TRUE
INVARIANTS
  Unbroken
