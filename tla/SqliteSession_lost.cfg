SPECIFICATION Spec
CONSTANTS
  u1 = u1 u2 = u2
  Nobody = Nobody
  Users <- MCUsers
  MaxAsks = 3
  MaxRows = 2
  MaxParams = 2
  Values <- MCValues
  Again = FALSE
  StepsFail = FALSE
  Rebinds = TRUE
SYMMETRY Symmetry
INVARIANTS HandleClosed
