SPECIFICATION FairSpec
CONSTANTS
  Client = {c1}
  Cap = 1
  BCap = 1
  OutCap = 1
  UpCap = 1
  MaxChunk = 1
  MaxTotal = 1
  MaxEpoch = 1
  MaxOpens = 1
  AllowReset = FALSE
  AllowClose = FALSE
PROPERTIES
  DeathTold
