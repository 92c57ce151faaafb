SPECIFICATION Spec
CONSTANTS
  Client = {c1, c2}
  Cap = 1
  BCap = 1
  OutCap = 1
  UpCap = 1
  MaxChunk = 1
  MaxTotal = 2
  MaxEpoch = 1
  MaxOpens = 1
  AllowReset = TRUE
  AllowClose = TRUE
SYMMETRY ClientSymmetry
INVARIANT NoSpin
