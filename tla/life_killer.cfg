SPECIFICATION Spec
CONSTANTS
  QCap = 1
  MaxShell = 1
  MaxHolders = 1
  MaxSends = 1
  MaxJoins = 0
  Command = {"input", "resize"}
  MayIgnore = FALSE
INVARIANT KillerFresh
CHECK_DEADLOCK FALSE
