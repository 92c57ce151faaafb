SPECIFICATION ModeSpec
CONSTANTS
  AltMode = {"1049"}
  FlagMode = {"1006"}
  ModeWrites <- MCResets
  RingCap = 2
  CsiCap = 5
  MaxWrites = 3
INVARIANT CutReinstated
CHECK_DEADLOCK FALSE
