SPECIFICATION FairSpec
CONSTANTS
  QCap = 2
  MaxShell = 1
  MaxHolders = 1
  MaxSends = 2
  MaxJoins = 0
  Command = {"input"}
  MayIgnore = TRUE
PROPERTY StopEnds
CHECK_DEADLOCK FALSE
