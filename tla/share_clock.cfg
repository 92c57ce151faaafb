SPECIFICATION Spec
CONSTANTS
  User = {u1}
  Viewer = {v1}
  MaxGrants = 1
  MaxViewers = 1
  MaxId = 1
  MaxTtl = 1
  MaxTime = 1
  MaxBurst = 1
  MaySetBack = TRUE
PROPERTY ValidityFinal
CHECK_DEADLOCK FALSE
