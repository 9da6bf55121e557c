SPECIFICATION Spec
CONSTANTS
  None = None
  nsp = nsp
  cls = cls
  aux = aux
  mth = mth
  fun = fun
  oth = oth
  ovl = ovl
  Worlds <- MCWorlds
  Edits <- MCEdits
  Rules <- MCRules
  SemanticFiles = {1, 2}
  MaxAttempts = 3
  MaxFaults = 1
INVARIANTS
  AdditionalCandidatesPass
CHECK_DEADLOCK FALSE
