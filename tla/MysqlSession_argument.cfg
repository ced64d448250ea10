SPECIFICATION Spec
CONSTANTS
  u1 = u1 u2 = u2
  Nobody = Nobody
  Users <- MCUsers
  MaxAsks = 2
  MaxRows = 2
  MaxParams = 2
  Values <- MCValues
  Temporaries = TRUE
SYMMETRY Symmetry
INVARIANTS ArgumentsArrive
