SPECIFICATION SignSpec
CONSTANTS
  SessUser = {u1}
  SessFlow = {f1}
  SessCap = 9
  SessPreTtl = 1
  SessAuthTtl = 1
  MaxSess = 4
  MaxSessTime = 0
  SessMayFail = FALSE
  DevUser = {u1}
  DevStamp <- MCStamp
  DevCaps = {2}
  DevWindow = 1
  MaxDev = 1
  MaxDevTime = 0
  DevMayFail = FALSE
  EnrUser = {u1}
  EnrSub = {s1, s2}
  EnrSecret = {x1, x2}
  MaxEnrTime = 1
  EnrMayFail = TRUE
  Req = {r1, r2}
  MaxVisits = 1
SYMMETRY Interchangeable
INVARIANT TrustLanded
CHECK_DEADLOCK FALSE
