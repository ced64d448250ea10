---------------------------- MODULE MCPgsqlSession -----------------------------
(***************************************************************************)
(* Two CDBQuery objects after each other on one PostgreSQL connection.      *)
(***************************************************************************)
EXTENDS PgsqlSession, TLC

CONSTANTS u1, u2

MCUsers  == {u1, u2}

Symmetry == Permutations({u1, u2})
=============================================================================
