SPECIFICATION Spec
CONSTANTS
  u1 = u1 u2 = u2
  Nobody = Nobody
  Users <- MCUsers
  MaxAsks = 3
  MaxRows = 2
  MaxParams = 2
  Values <- MCValues
  Temporaries = FALSE
INVARIANTS TypeOK CursorExact NoResultLeak NoForeignRows StatementConsistent ArgumentsArrive
PROPERTIES ImplementsCursor
