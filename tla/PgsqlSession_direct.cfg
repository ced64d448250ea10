SPECIFICATION Spec
CONSTANTS
  u1 = u1 u2 = u2
  Nobody = Nobody
  Users <- MCUsers
  MaxAsks = 4
  MaxRows = 2
  Prepared = FALSE
SYMMETRY Symmetry
INVARIANTS TypeOK ResultOwned
PROPERTIES ImplementsCursor
