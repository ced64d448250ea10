------------------------------ MODULE MCConnPool ------------------------------
(***************************************************************************)
(* Small pools for TLC.                                                     *)
(***************************************************************************)
EXTENDS ConnPool, TLC

CONSTANTS t1, t2, t3, c1, c2, c3

MCThreads3 == {t1, t2, t3}
MCConns3   == {c1, c2, c3}
MCConns2   == {c1, c2}

Range(lo, hi) == [min |-> lo, max |-> hi]

\* setLinkCount raises the maximum, and moves the minimum up to it and back.
MovedRanges == {Range(2, 3), Range(3, 3)}
\* setLinkCount lowers the maximum.
LoweredRanges == {Range(1, 1)}
NoRanges == {}

Symmetry == Permutations({t1, t2, t3}) \cup Permutations({c1, c2, c3})

=============================================================================
