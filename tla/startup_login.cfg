SPECIFICATION BootSpec
CONSTANTS
  BootSettings <- MCSettings
  MaxBoots = 1
INVARIANT SomebodyMayLogIn
CHECK_DEADLOCK FALSE
