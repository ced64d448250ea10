SPECIFICATION Spec
CONSTANTS
  p1 = p1 p2 = p2 p3 = p3
  k1 = k1 k2 = k2
  q1 = q1 q2 = q2
  Null = Null Absent = Absent Wild = Wild
  Names <- MCNames
  Pools <- MCPools
  Configs <- MCConfigs1
  Queries <- MCQueries
  DefLimits <- MCDefLimits
  Ranges <- NoRanges
  Garbage <- MCGarbage
  CtorKinds <- DefaultCtor
  UnknownNames = TRUE
SYMMETRY Symmetry
INVARIANTS CreatedIsUsable
