SPECIFICATION ReplaySpec
CONSTANTS
  StepLen = 2
  ReplayMemory = 3
  ReplayWindow = 6
  MaxCodeTime = 7
  MaxAccepted = 5
INVARIANT SingleUse
CHECK_DEADLOCK FALSE
