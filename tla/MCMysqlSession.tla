---------------------------- MODULE MCMysqlSession ----------------------------
(***************************************************************************)
(* Two CDBQuery objects after each other on one MySQL connection.           *)
(***************************************************************************)
EXTENDS MysqlSession, TLC

CONSTANTS u1, u2

MCUsers  == {u1, u2}
MCValues == {1, 2}

Symmetry == Permutations({u1, u2})
=============================================================================
