----------------------------- MODULE PgsqlSession -----------------------------
(***************************************************************************)
(* One CDBPgsqlConnect with its CDBPgsqlResultSet, as the CDBQuery objects   *)
(* that borrow it one after another use it.                                 *)
(*                                                                          *)
(* The server and libpq are external: a statement is answered or fails, the *)
(* server drops the connection, libpq notices that only when a command      *)
(* fails and never reconnects by itself, and a server session knows the     *)
(* names of the statements it has prepared and refuses to prepare one       *)
(* twice.  A statement has no placeholders: addBindValue writes to arrays   *)
(* that nothing allocates and ends the program.                             *)
(***************************************************************************)
EXTENDS Naturals, Integers

CONSTANTS
  Users,      \* CDBQuery objects, each borrowing the connection once
  Nobody,
  MaxAsks,    \* bound: statements stored or run altogether
  MaxRows,    \* bound: rows of an answer
  Prepared    \* prepared queries, query(""), may be answered

ASSUME SessionAssumption ==
  /\ Nobody \notin Users
  /\ MaxAsks \in Nat /\ MaxRows \in Nat
  /\ Prepared \in BOOLEAN

VARIABLES
  holder,   \* the CDBQuery that has the connection, or Nobody
  past,     \* the CDBQuery objects that are gone, or were turned away
  alive,    \* the CDBPgsqlConnect exists
  handle,   \* m_pPsql: "none", "good", "cut" by the server, "bad" once noticed
  names,    \* the statement names the server session knows
  sql,      \* m_sql
  rs,       \* m_resultSet
  open,     \* PGresult objects that are not freed
  last,     \* the holder's last answer
  told,     \* what next() said of it last
  asked     \* statements so far

borrowing == <<holder, past, alive>>
link      == <<handle, names>>
results   == <<rs, open, last, told>>
vars == <<borrowing, link, sql, results, asked>>

NoRow    == [q |-> 0, k |-> 0]
NoAnswer == [q |-> 0, n |-> 0]

-----------------------------------------------------------------------------
\* CDBPgsqlResultSet.  res is m_pQuery (0: nullptr), count m_nRowCount, index
\* m_nRowIndex.  m_isSTMT is ESqlExecModeQuery exactly when res is not 0.
EmptySet == [res |-> 0, count |-> 0, index |-> -1]

-----------------------------------------------------------------------------
\* Seeded defects: a definition below with a plausible slip in the code.  None
\* is part of the specification; each shows that a property notices the slip.

\* clear() forgets m_nRowIndex.
ClearKeepsIndex == [EmptySet EXCEPT !.index = rs.index]

\* getNextRow compares before it moves.
HasNextLate(r) == r.res # 0 /\ r.index < r.count

\* A failed excuteQuery frees the result set's PGresult and not its own.
FailFreesAnswer ==
  /\ holder # Nobody /\ asked < MaxAsks
  /\ asked' = asked + 1
  /\ handle' = IF handle = "cut" THEN "bad" ELSE handle
  /\ open' = open \ {rs.res}
  /\ UNCHANGED <<borrowing, names, sql, rs, last, told>>

-----------------------------------------------------------------------------
\* The row getValue reads: m_nRowIndex of m_pQuery.
ReadRow(r) == [q |-> r.res, k |-> r.index + 1]

\* What next() returns, and the result set it leaves.  m_nRowIndex runs past
\* the end with every further call and is kept at the end here.
HasNext(r) == r.res # 0 /\ r.index + 1 < r.count
Advance(r) ==
  IF r.res = 0 THEN r
  ELSE [r EXCEPT !.index = IF HasNext(r) THEN @ + 1 ELSE r.count]

\* clear(), and what it frees.
Cleared == EmptySet
Freed   == open \ {rs.res}

-----------------------------------------------------------------------------
Init ==
  /\ holder = Nobody /\ past = {} /\ alive = TRUE
  /\ handle = "good" /\ names = {}
  /\ sql = 0
  /\ rs = EmptySet /\ open = {} /\ last = NoAnswer /\ told = "nothing"
  /\ asked = 0

\* getDBconnect: PQstatus is CONNECTION_OK, which says nothing of a server
\* that has gone since the last command.
Borrow(u) ==
  /\ alive /\ holder = Nobody /\ u \notin past
  /\ handle \in {"good", "cut"}
  /\ holder' = u
  /\ UNCHANGED <<past, alive, link, sql, results, asked>>

\* The test fails, disconnect(), connect() in a new server session.
BorrowRepaired(u) ==
  /\ alive /\ holder = Nobody /\ u \notin past
  /\ handle \in {"bad", "none"}
  /\ handle' = "good" /\ names' = {}
  /\ holder' = u
  /\ UNCHANGED <<past, alive, sql, results, asked>>

\* connect() fails and finishes its handle; the CDBQuery gets no connection.
BorrowFail(u) ==
  /\ alive /\ holder = Nobody /\ u \notin past
  /\ handle \in {"bad", "none"}
  /\ handle' = "none" /\ names' = {}
  /\ past' = past \cup {u}
  /\ UNCHANGED <<holder, alive, sql, results, asked>>

\* freeDBconnect: clearQuery().
GiveBack ==
  /\ holder # Nobody
  /\ past' = past \cup {holder}
  /\ holder' = Nobody
  /\ rs' = Cleared /\ open' = Freed
  /\ last' = NoAnswer /\ told' = "nothing"
  /\ UNCHANGED <<alive, link, sql, asked>>

\* ~CDBPgsqlConnect(): disconnect(), then the result set's clear().
Delete ==
  /\ alive /\ holder = Nobody
  /\ alive' = FALSE
  /\ handle' = "none" /\ names' = {}
  /\ rs' = Cleared /\ open' = Freed
  /\ UNCHANGED <<holder, past, sql, last, told, asked>>

Drop ==
  /\ handle = "good"
  /\ handle' = "cut" /\ names' = {}
  /\ UNCHANGED <<borrowing, sql, results, asked>>

-----------------------------------------------------------------------------
Ask == /\ holder # Nobody /\ asked < MaxAsks
       /\ asked' = asked + 1

\* A command that fails on a connection that is gone marks it.
Noticed == handle' = IF handle = "cut" THEN "bad" ELSE handle

\* reset(): clear(), then the new result with its n rows.
Shown(n) ==
  /\ rs' = [res |-> asked', count |-> n, index |-> Cleared.index]
  /\ last' = [q |-> asked', n |-> n] /\ told' = "nothing"

\* excuteQuery: the result goes to the result set.
QueryOk(n) ==
  /\ Ask /\ handle = "good"
  /\ Shown(n) /\ open' = Freed \cup {asked'}
  /\ UNCHANGED <<borrowing, link, sql>>

\* The failed result is freed and the last answer stays.
QueryFail ==
  /\ Ask
  /\ Noticed
  /\ UNCHANGED <<borrowing, names, sql, results>>

\* excuteSql, which begin(), commit() and rollback() use too: its result is
\* its own.  An INSERT that fails reads a field of a result without rows and
\* ends the program, so that no state of this model follows it.
ExecSql(insert, ok) ==
  /\ Ask
  /\ IF ok THEN handle = "good" /\ UNCHANGED handle ELSE ~insert /\ Noticed
  /\ UNCHANGED <<borrowing, names, sql, results>>

Prepare ==
  /\ Ask
  /\ sql' = asked'
  /\ UNCHANGED <<borrowing, link, results>>

\* PQprepare under a fixed name, and PQexecPrepared, which may fail by itself.
PrepareName(name, ok) ==
  IF handle = "good" /\ name \notin names
  THEN /\ names' \in {names \cup {name}} \cup (IF ok THEN {} ELSE {names})
       /\ UNCHANGED handle
  ELSE ~ok /\ Noticed /\ UNCHANGED names

\* exec(""): both results are freed.
ExecPrepared(ok) ==
  /\ Ask /\ sql # 0
  /\ PrepareName("1112", ok)
  /\ UNCHANGED <<borrowing, sql, results>>

\* query(""): the result is given to the result set and freed here as well.
QueryPrepared(n, ok) ==
  /\ Ask /\ sql # 0
  /\ ok => Prepared
  /\ PrepareName("stmtPqsql", ok)
  /\ IF ok THEN Shown(n) /\ open' = Freed ELSE UNCHANGED results
  /\ UNCHANGED <<borrowing, sql>>

NextRow ==
  /\ holder # Nobody
  /\ rs' = Advance(rs)
  /\ told' = IF HasNext(rs) THEN "row" ELSE "end"
  /\ UNCHANGED <<borrowing, link, sql, open, last, asked>>

-----------------------------------------------------------------------------
Gone == ~alive /\ UNCHANGED vars

PoolStep == \/ \E u \in Users : Borrow(u) \/ BorrowRepaired(u) \/ BorrowFail(u)
            \/ GiveBack \/ Delete
QueryStep ==
  \/ \E n \in 0..MaxRows : QueryOk(n)
  \/ \E n \in 0..MaxRows, ok \in BOOLEAN : QueryPrepared(n, ok)
  \/ QueryFail \/ NextRow
ExecStep ==
  \/ \E insert, ok \in BOOLEAN : ExecSql(insert, ok)
  \/ \E ok \in BOOLEAN : ExecPrepared(ok)
Next == PoolStep \/ Drop \/ QueryStep \/ ExecStep \/ Prepare \/ Gone

Spec == Init /\ [][Next]_vars

-----------------------------------------------------------------------------
Asks == 0..MaxAsks

\* The members of CDBPgsqlConnect and CDBPgsqlResultSet stay in their domains.
TypeOK ==
  /\ holder \in Users \cup {Nobody} /\ past \subseteq Users /\ alive \in BOOLEAN
  /\ handle \in {"none", "good", "cut", "bad"}
  /\ names \subseteq {"1112", "stmtPqsql"}
  /\ sql \in Asks /\ asked \in Asks
  /\ rs \in [res : Asks, count : 0..MaxRows, index : -1..MaxRows]
  /\ rs.index <= rs.count
  /\ open \subseteq Asks \ {0}
  /\ last \in [q : Asks, n : 0..MaxRows] /\ told \in {"nothing", "row", "end"}

\* The result the result set points at is the only PGresult not freed: the
\* getters never read freed memory, clear() frees nothing twice, and no answer
\* is left behind by a reconnection, a failure or a connection given back.
ResultOwned == open = {rs.res} \ {0}

\* What a CDBQuery sees of query() and next() is the contract RowCursor.
Position(r) == IF r.index + 1 > r.count THEN r.count ELSE r.index + 1
Cursor == INSTANCE RowCursor WITH
  user <- holder, answer <- last, pos <- Position(rs),
  row <- IF told = "row" THEN ReadRow(rs) ELSE NoRow

\* The rows a CDBQuery iterates over are those of its last direct query, each
\* once and in order, across failures, reconnections and earlier borrowers.
ImplementsCursor == Cursor!Spec
=============================================================================
