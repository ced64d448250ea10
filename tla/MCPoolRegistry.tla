---------------------------- MODULE MCPoolRegistry ----------------------------
(***************************************************************************)
(* Two names, two or three pool objects over time, one or two CDBPool       *)
(* objects and two CDBQuery objects for TLC.                                *)
(***************************************************************************)
EXTENDS PoolRegistry, TLC

CONSTANTS p1, p2, p3, k1, k2, q1, q2

MCNames    == {1, 2}
MCPools    == {p1, p2, p3}
MCConfigs  == {k1, k2}
MCConfigs1 == {k1}
MCQueries  == {q1, q2}

Limits(lo, hi) == [min |-> lo, max |-> hi]
MCDefLimits == Limits(3, 10)
MCRanges    == {Limits(5, 10)}
NoRanges    == {}
MCGarbage   == {Limits(0, 0), Limits(7, 1)}
BothCtors   == {"default", "full"}
DefaultCtor == {"default"}

Symmetry == Permutations({p1, p2, p3}) \cup Permutations({k1, k2})
              \cup Permutations({q1, q2})
=============================================================================
