SPECIFICATION EndsSpec
CONSTANTS
  QCap = 2
  MaxShell = 1
  MaxHolders = 1
  MaxSends = 3
  MaxJoins = 1
  Command = {"input", "resize"}
  MayIgnore = TRUE
  User = {u1, u2}
  Viewer = {v1, v2}
  MaxGrants = 1
  MaxViewers = 1
  MaxId = 2
  MaxTtl = 1
  MaxTime = 2
  MaxBurst = 2
  MaySetBack = FALSE
INVARIANTS TypeOK LateFrames PermitsBalanced GrantCap ToldWhenGone
PROPERTIES LeftReaped ViewerEnds
CHECK_DEADLOCK FALSE
