SPECIFICATION FairSpec
CONSTANTS
  Client = {c1}
  Cap = 2
  BCap = 1
  OutCap = 1
  UpCap = 1
  MaxChunk = 2
  MaxTotal = 3
  MaxEpoch = 2
  MaxOpens = 2
  AllowReset = FALSE
  AllowClose = FALSE
INVARIANTS
  TypeOK
  Unbroken
  OffsetHonest
  RingIsTail
PROPERTIES
  ShellKept
  ImplementsView
  CatchUp
  OpenAnswered
