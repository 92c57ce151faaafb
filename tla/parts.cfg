SPECIFICATION PartsSpec
CONSTANTS
  SessUser = {u1}
  SessFlow = {f1}
  SessCap = 2
  SessPreTtl = 1
  SessAuthTtl = 2
  MaxSess = 3
  MaxSessTime = 3
  SessMayFail = TRUE
  DevUser = {u1, u2}
  DevStamp = {1}
  DevCaps = {1, 2}
  DevWindow = 2
  MaxDev = 3
  MaxDevTime = 3
  DevMayFail = TRUE
  EnrUser = {u1, u2}
  EnrSub = {s1, s2}
  EnrSecret = {x1, x2}
  MaxEnrTime = 1
  EnrMayFail = TRUE
  Attempt = {a1, a2}
  Bucket = {b1}
  GuardDecay = 2
  GuardDelay = 1
  GuardDelayMax = 2
  GuardStrikes = 2
  LockBase = 4
  LockMax = 5
  StrikeMemory = 5
  MaxTries = 5
  MaxGuardTime = 11
  StepLen = 2
  ReplayMemory = 3
  ReplayWindow = 6
  MaxCodeTime = 7
  MaxAccepted = 5
  AltMode = {"1049"}
  FlagMode = {"1006"}
  ModeWrites <- MCWrites
  RingCap = 4
  CsiCap = 5
  MaxWrites = 4
  BootSettings <- MCSettings
  MaxBoots = 3
  MuxSlot = {1}
  CmdCap = 1
  MaxMuxShell = 2
  MaxFrame = 4
  QCap = 1
  MaxShell = 2
  MaxHolders = 1
  MaxSends = 1
  MaxJoins = 0
  Command = {"input", "resize"}
  MayIgnore = FALSE
INVARIANTS
  PartsTypeOK
  SessOverStaysOver SessToldOfEnd SessLifetime
  DevOverStaysOver DevMemoryWritten
  Paced GuessBudget
  RepeatIsFar
  ModesReinstated
  KeyKept ServesSoundly
  InputUnbroken RevocationSeen
  KillerRetired NoOrphan Condemned
PROPERTIES
  SessRightsKept DevMintWithinCap
CHECK_DEADLOCK FALSE
