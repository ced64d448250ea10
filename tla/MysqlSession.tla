----------------------------- MODULE MysqlSession -----------------------------
(***************************************************************************)
(* One CDBMysqlConnect with its CDBMysqlResultSet, as the CDBQuery objects  *)
(* that borrow it one after another use it (ConnPool shows that they never  *)
(* overlap).  What the pool keeps open between two borrowers is the whole   *)
(* session: the handle, an open transaction, the paging flag, the prepared  *)
(* statement with its parameter array, and the result set.                  *)
(*                                                                          *)
(* The server and libmysqlclient are external: a statement succeeds or      *)
(* fails, the connection drops, the client reconnects by itself             *)
(* (MYSQL_OPT_RECONNECT), and a new handle knows neither the transaction    *)
(* nor the prepared statements of the old one.  A CDBQuery goes on with a   *)
(* prepared statement only when prepare returned 0, and binds all of its    *)
(* parameters in ascending order before it runs it, as addBindValues does.  *)
(***************************************************************************)
EXTENDS Naturals, Integers, Sequences, FiniteSets

CONSTANTS
  Users,        \* CDBQuery objects, each borrowing the connection once
  Nobody,
  MaxAsks,      \* bound: statements prepared or queried altogether
  MaxRows,      \* bound: rows of an answer
  MaxParams,    \* bound: placeholders of a prepared statement
  Values,       \* what a caller may bind
  Temporaries   \* addBindValue may be given a temporary (README.md:130)

ASSUME SessionAssumption ==
  /\ Nobody \notin Users
  /\ MaxAsks \in Nat /\ MaxRows \in Nat /\ MaxParams \in Nat
  /\ Values \subseteq Nat \ {0}
  /\ Temporaries \in BOOLEAN

VARIABLES
  holder,    \* the CDBQuery that has the connection, or Nobody
  past,      \* the CDBQuery objects that are gone, or were turned away
  alive,     \* the CDBMysqlConnect exists
  handle,    \* m_pMysql: "none", "live", or "dropped" by the server
  tx,        \* whose BEGIN the server still has open
  page,      \* m_isPage: who set it, Nobody when it is false
  sql,       \* m_sql
  stmt,      \* m_stmt
  binds,     \* m_sqlbind
  binCount,  \* m_binCount
  bound,     \* what mysql_stmt_bind_param last copied into m_stmt
  given,     \* the values the caller meant for the placeholders
  nb,        \* how many of them it has bound in this round
  rs,        \* m_resultSet
  open,      \* MYSQL_RES objects that are not freed
  seen,      \* what next() has told the holder of its last answer
  asked      \* statements so far

pageAndTx == <<page, tx>>
prepared  == <<sql, stmt, binds, binCount, bound, given, nb>>
results   == <<rs, open, seen>>
borrowing == <<holder, past, alive>>
vars == <<borrowing, handle, pageAndTx, prepared, results, asked>>

NoStmt  == [text |-> 0]
NoBinds == [null |-> TRUE, slot |-> <<>>]
BindsOf(s) == [null |-> FALSE, slot |-> s]
Unset   == 0         \* a slot as calloc left it
Dead    == -1        \* a slot that points to an object that is gone
NoRow   == [q |-> 0, k |-> 0, by |-> Nobody]
Unseen(q, n) == [q |-> q, k |-> 0, n |-> n, end |-> FALSE]
NoneSeen == Unseen(0, 0)

\* mysql_close and mysql_reconnect cut the statement off from its server.
Detach(s) ==
  IF s # NoStmt /\ s.status = "ready" THEN [s EXCEPT !.status = "cut"] ELSE s

-----------------------------------------------------------------------------
\* CDBMysqlResultSet.  mode is m_isSTMT, res is m_pQuery (0: nullptr), cur is
\* m_curRow, tmp is m_pTmp.  index is m_nRowIndex for a prepared answer and the
\* position mysql_fetch_row has reached in m_pQuery for a direct one.
EmptySet == [mode |-> "none", q |-> 0, by |-> Nobody, count |-> 0, index |-> -1,
             res |-> 0, cur |-> NoRow, tmp |-> NoRow]

Row(r, k) == [q |-> r.q, k |-> k, by |-> r.by]

-----------------------------------------------------------------------------
\* Seeded defects: a definition below with a plausible slip in the code.  None
\* is part of the specification; each shows that a property notices the slip.

\* clear() forgets m_nRowIndex.
ClearKeepsIndex(r) == [EmptySet EXCEPT !.tmp = r.tmp, !.index = r.index]

\* clear() forgets mysql_free_result.
FreedNone(r) == open

\* getNextRow does not look for the end.
AdvanceUnchecked(r) ==
  [r EXCEPT !.index = @ + 1, !.cur = Row(r, r.index + 1)]

\* freeDBconnect does not call clearQuery().
GiveBackUncleared ==
  /\ holder # Nobody
  /\ past' = past \cup {holder}
  /\ holder' = Nobody
  /\ seen' = NoneSeen
  /\ UNCHANGED <<alive, handle, pageAndTx, prepared, rs, open, asked>>

\* clearStmt() does not free m_sqlbind.
PrepareNoStmtKeepsArray ==
  /\ holder # Nobody /\ asked < MaxAsks
  /\ asked' = asked + 1
  /\ sql' = asked'
  /\ stmt' = NoStmt
  /\ given' = <<>> /\ nb' = 0 /\ bound' = <<>>
  /\ UNCHANGED <<borrowing, handle, pageAndTx, binds, binCount, results>>

\* next() of a direct answer asks one row too far.
HasNextLate(r) == IF r.mode = "query" THEN r.res # 0 /\ r.index <= r.count
                  ELSE r.index + 1 < r.count

\* The array is passed on one placeholder too late.
StmtBindParamLate(index, array) == IF index = binCount THEN array ELSE bound

-----------------------------------------------------------------------------
\* clear() leaves m_pTmp alone.
Clear(r) == [EmptySet EXCEPT !.tmp = r.tmp]

\* What clear() frees of the MYSQL_RES objects.
Freed(r) == open \ {r.res}

\* reset(MYSQL_RES*) and reset(MYSQL_STMT*) after a statement that succeeded.
ResetQuery(r, u, q, n) ==
  [mode |-> "query", q |-> q, by |-> u, count |-> n, index |-> 0, res |-> q,
   cur |-> Clear(r).cur, tmp |-> Clear(r).tmp]
ResetStmt(r, u, q, n) ==
  [mode |-> "stmt", q |-> q, by |-> u, count |-> n, index |-> Clear(r).index,
   res |-> q, cur |-> Clear(r).cur, tmp |-> Clear(r).tmp]

\* What next() returns.
HasNext(r) == IF r.mode = "query" THEN r.res # 0 /\ r.index < r.count
              ELSE r.index + 1 < r.count

\* The result set next() leaves.  m_nRowIndex runs past the end with every
\* further call and is kept at the end here.
Advance(r) ==
  IF r.mode = "query"
  THEN IF HasNext(r)
       THEN [r EXCEPT !.index = @ + 1, !.cur = Row(r, r.index + 1)]
       ELSE [r EXCEPT !.cur = NoRow]
  ELSE IF HasNext(r)
       THEN [r EXCEPT !.index = @ + 1, !.tmp = Row(r, r.index + 2)]
       ELSE [r EXCEPT !.index = r.count]

\* The row getField and getValue read.
ReadRow(r) == IF r.mode = "query" THEN r.cur ELSE r.tmp

-----------------------------------------------------------------------------
Init ==
  /\ holder = Nobody /\ past = {} /\ alive = TRUE
  /\ handle = "live"
  /\ tx = Nobody /\ page = Nobody
  /\ sql = 0 /\ stmt = NoStmt /\ binds = NoBinds /\ binCount = 0
  /\ bound = <<>> /\ given = <<>> /\ nb = 0
  /\ rs = EmptySet /\ open = {} /\ seen = NoneSeen
  /\ asked = 0

\* The pool hands the connection out: connctionTest passes at once, or with
\* the help of a reconnection, or disconnect() and connect() repair it.
Borrow(u) ==
  /\ alive /\ holder = Nobody /\ u \notin past
  /\ holder' = u
  /\ handle' = "live"
  /\ tx'   = IF handle = "live" THEN tx ELSE Nobody
  /\ stmt' = IF handle = "live" THEN stmt ELSE Detach(stmt)
  /\ seen' = NoneSeen
  /\ UNCHANGED <<past, alive, page, sql, binds, binCount, bound, given, nb,
                 rs, open, asked>>

\* The test failed, disconnect(), and connect() failed.
BorrowFail(u) ==
  /\ alive /\ holder = Nobody /\ u \notin past
  /\ handle # "live"
  /\ past' = past \cup {u}
  /\ handle' = "none"
  /\ tx' = Nobody
  /\ stmt' = Detach(stmt)
  /\ UNCHANGED <<holder, alive, page, sql, binds, binCount, bound, given, nb,
                 results, asked>>

\* freeDBconnect: clearQuery() before the connection goes back.
GiveBack ==
  /\ holder # Nobody
  /\ past' = past \cup {holder}
  /\ holder' = Nobody
  /\ rs' = Clear(rs) /\ open' = Freed(rs)
  /\ seen' = NoneSeen
  /\ UNCHANGED <<alive, handle, pageAndTx, prepared, asked>>

\* ~CDBMysqlConnect(): disconnect(), clearStmt(), and the result set's clear().
Delete ==
  /\ alive /\ holder = Nobody
  /\ alive' = FALSE
  /\ handle' = "none"
  /\ tx' = Nobody
  /\ stmt' = NoStmt /\ binds' = NoBinds
  /\ rs' = Clear(rs) /\ open' = Freed(rs)
  /\ UNCHANGED <<holder, past, page, sql, binCount, bound, given, nb, seen, asked>>

Drop ==
  /\ handle = "live"
  /\ handle' = "dropped"
  /\ tx' = Nobody
  /\ UNCHANGED <<borrowing, page, prepared, results, asked>>

\* The client finds the connection gone at its next command and makes a new one.
Reconnect ==
  /\ holder # Nobody /\ handle = "dropped"
  /\ handle' = "live"
  /\ stmt' = Detach(stmt)
  /\ UNCHANGED <<borrowing, pageAndTx, sql, binds, binCount, bound, given, nb,
                 results, asked>>

-----------------------------------------------------------------------------
\* begin(), commit() and rollback() are excuteSql of the SQL word.
Begin ==
  /\ holder # Nobody /\ handle = "live"
  /\ tx' = holder
  /\ UNCHANGED <<borrowing, handle, page, prepared, results, asked>>

Finish ==
  /\ holder # Nobody /\ handle = "live"
  /\ tx' = Nobody
  /\ UNCHANGED <<borrowing, handle, page, prepared, results, asked>>

StartPage ==
  /\ holder # Nobody
  /\ page' = holder
  /\ UNCHANGED <<borrowing, handle, tx, prepared, results, asked>>

StopPage ==
  /\ holder # Nobody
  /\ page' = Nobody
  /\ UNCHANGED <<borrowing, handle, tx, prepared, results, asked>>

-----------------------------------------------------------------------------
Ask == /\ holder # Nobody /\ asked < MaxAsks
       /\ asked' = asked + 1

\* excuteQuery: the statement succeeds and has n rows.
QueryOk(n) ==
  /\ Ask /\ handle = "live"
  /\ page' = Nobody
  /\ rs' = ResetQuery(rs, holder, asked', n)
  /\ open' = Freed(rs) \cup {asked'}
  /\ seen' = Unseen(asked', n)
  /\ UNCHANGED <<borrowing, handle, tx, prepared>>

\* It succeeds without a result set: reset(nullptr).
QueryEmpty ==
  /\ Ask /\ handle = "live"
  /\ page' = Nobody
  /\ rs' = [Clear(rs) EXCEPT !.mode = "query"] /\ open' = Freed(rs)
  /\ seen' = NoneSeen
  /\ UNCHANGED <<borrowing, handle, tx, prepared>>

\* mysql_query fails: the last answer stays.
QueryFail ==
  /\ Ask
  /\ page' = Nobody
  /\ UNCHANGED <<borrowing, handle, tx, prepared, rs, open, seen>>

\* query(""): reset(MYSQL_STMT*) runs the prepared statement.
Runnable ==
  holder # Nobody /\ stmt # NoStmt /\ stmt.by = holder /\ stmt.status # "refused"
    /\ nb = stmt.params
RunOk(n) ==
  /\ Ask /\ Runnable /\ stmt.status = "ready" /\ handle = "live"
  /\ rs' = ResetStmt(rs, holder, asked', n)
  /\ open' = Freed(rs) \cup {asked'}
  /\ seen' = Unseen(asked', n)
  /\ UNCHANGED <<borrowing, handle, pageAndTx, prepared>>

\* A mysql_stmt_... call fails: its code, 1, is what query returns.
RunFail ==
  /\ Ask /\ Runnable
  /\ rs' = [Clear(rs) EXCEPT !.mode = "stmt"] /\ open' = Freed(rs)
  /\ seen' = NoneSeen
  /\ UNCHANGED <<borrowing, handle, pageAndTx, prepared>>

NextRow ==
  /\ holder # Nobody
  /\ rs' = Advance(rs)
  /\ seen' = IF HasNext(rs) THEN [seen EXCEPT !.k = @ + 1]
             ELSE [seen EXCEPT !.end = TRUE]
  /\ UNCHANGED <<borrowing, handle, pageAndTx, prepared, open, asked>>

-----------------------------------------------------------------------------
\* prepare(): m_sql, clearStmt(), then mysql_stmt_init fails.
PrepareNoStmt ==
  /\ Ask
  /\ sql' = asked'
  /\ stmt' = NoStmt /\ binds' = NoBinds
  /\ given' = <<>> /\ nb' = 0 /\ bound' = <<>>
  /\ UNCHANGED <<borrowing, handle, pageAndTx, binCount, results>>

\* The parameter count and the array are set whether or not the server
\* accepted the statement; a refused one has no parameters.
PrepareDone(n, ok) ==
  /\ Ask
  /\ ok => handle = "live"
  /\ ~ok => n = 0
  /\ sql' = asked'
  /\ page' = Nobody
  /\ stmt' = [text |-> asked', by |-> holder, params |-> n,
              status |-> IF ok THEN "ready" ELSE "refused"]
  /\ binCount' = n
  /\ binds' = BindsOf([i \in 1..n |-> Unset])
  /\ bound' = <<>> /\ nb' = 0
  /\ given' = [i \in 1..n |-> Unset]
  /\ UNCHANGED <<borrowing, handle, tx, results>>

\* stmtBindParam passes the array on with the last placeholder.
StmtBindParam(index, array) == IF index = binCount - 1 THEN array ELSE bound

\* addBindValue stores the argument's address; a temporary is gone when the
\* call returns.
AddBindValue(v, temporary) ==
  LET index == IF nb = binCount THEN 0 ELSE nb IN
  /\ holder # Nobody /\ stmt # NoStmt /\ stmt.by = holder /\ ~binds.null
  /\ index < stmt.params
  /\ temporary => Temporaries
  /\ binds' = BindsOf([binds.slot EXCEPT ![index + 1] = IF temporary THEN Dead ELSE v])
  /\ bound' = StmtBindParam(index, binds'.slot)
  /\ given' = [given EXCEPT ![index + 1] = v]
  /\ nb' = index + 1
  /\ UNCHANGED <<borrowing, handle, pageAndTx, sql, stmt, binCount, results, asked>>

-----------------------------------------------------------------------------
Gone == ~alive /\ UNCHANGED vars

PoolStep == \/ \E u \in Users : Borrow(u) \/ BorrowFail(u)
            \/ GiveBack \/ Delete
ServerStep == Drop \/ Reconnect
QueryStep ==
  \/ \E n \in 0..MaxRows : QueryOk(n) \/ RunOk(n)
  \/ QueryEmpty \/ QueryFail \/ RunFail \/ NextRow
PrepareStep ==
  \/ PrepareNoStmt
  \/ \E n \in 0..MaxParams, ok \in BOOLEAN : PrepareDone(n, ok)
  \/ \E v \in Values, t \in BOOLEAN : AddBindValue(v, t)
Next == PoolStep \/ ServerStep \/ Begin \/ Finish \/ StartPage \/ StopPage
          \/ QueryStep \/ PrepareStep \/ Gone

Spec == Init /\ [][Next]_vars

-----------------------------------------------------------------------------
Asks == 0..MaxAsks
Rows == [q : Asks, k : 0..MaxRows, by : Users \cup {Nobody}]

LinkTyped ==
  /\ holder \in Users \cup {Nobody} /\ past \subseteq Users /\ alive \in BOOLEAN
  /\ handle \in {"none", "live", "dropped"}
  /\ tx \in Users \cup {Nobody} /\ page \in Users \cup {Nobody}
  /\ asked \in Asks

StmtTyped ==
  /\ sql \in Asks
  /\ stmt \in {NoStmt} \cup
       [text : Asks, by : Users, params : 0..MaxParams,
        status : {"ready", "refused", "cut"}]
  /\ binds \in [null : BOOLEAN, slot : Seq({Unset, Dead} \cup Values)]
  /\ binCount \in 0..MaxParams /\ nb \in 0..binCount
  /\ bound \in Seq({Unset, Dead} \cup Values)
  /\ given \in Seq({Unset} \cup Values)

ResultTyped ==
  /\ rs \in [mode : {"none", "query", "stmt"}, q : Asks, by : Users \cup {Nobody},
             count : 0..MaxRows, index : -1..MaxRows, res : Asks,
             cur : Rows, tmp : Rows]
  /\ open \subseteq Asks
  /\ seen \in [q : Asks, k : 0..MaxRows, n : 0..MaxRows, end : BOOLEAN]

\* The members of CDBMysqlConnect and CDBMysqlResultSet stay in their domains.
TypeOK == LinkTyped /\ StmtTyped /\ ResultTyped

\* A holder walks through the rows of its own last answer, each once and in
\* order, and is told the end exactly after the last one, in both modes and
\* whatever queries failed in between.
CursorExact ==
  holder # Nobody =>
    /\ seen.k > 0 /\ ~seen.end =>
         ReadRow(rs) = [q |-> seen.q, k |-> seen.k, by |-> holder]
    /\ seen.end => seen.k = seen.n
    /\ seen.k <= seen.n

\* A MYSQL_RES is freed once: the only one open is the result set's, and none
\* stays with a connection that went back to the pool or was deleted.
NoResultLeak ==
  /\ open = {rs.res} \ {0}
  /\ holder = Nobody => open = {}

\* A CDBQuery finds no answer of another one in its connection.
NoForeignRows == rs.mode # "none" => holder # Nobody /\ rs.by \in {holder, Nobody}

\* m_sql, m_stmt, m_binCount and m_sqlbind belong together after every path
\* through prepare, so that no legal index writes outside the array and exec
\* looks for INSERT in the statement it runs.
StatementConsistent ==
  /\ ~binds.null =>
       stmt # NoStmt /\ Len(binds.slot) = binCount /\ binCount = stmt.params
  /\ stmt # NoStmt => sql = stmt.text /\ ~binds.null

\* A statement whose placeholders were all bound runs with the values that
\* were bound last (CDBConnect.h:180, README.md:130).
ArgumentsArrive ==
  Runnable /\ stmt.params > 0 => bound = given

\* A CDBQuery gets a connection without a transaction, paging request,
\* prepared statement or row of an earlier one (CDBConnect.h:56).
SessionOwn ==
  holder # Nobody =>
    /\ tx \in {Nobody, holder}
    /\ page \in {Nobody, holder}
    /\ stmt # NoStmt => stmt.by = holder
    /\ rs.tmp # NoRow => rs.tmp.by = holder

\* What a CDBQuery sees of query() and next() is the contract RowCursor.
Position(r) == IF r.mode = "query" THEN IF r.res = 0 THEN 0 ELSE r.index
               ELSE IF r.index + 1 > r.count THEN r.count ELSE r.index + 1
Told == IF seen.end THEN "end" ELSE IF seen.k > 0 THEN "row" ELSE "nothing"
RowTold == IF Told = "row" THEN [q |-> ReadRow(rs).q, k |-> ReadRow(rs).k]
           ELSE [q |-> 0, k |-> 0]
Cursor == INSTANCE RowCursor WITH
  user <- holder, answer <- [q |-> seen.q, n |-> seen.n], pos <- Position(rs),
  row <- RowTold, told <- Told

\* The rows a CDBQuery iterates over are those of its last answer, each once
\* and in order, in both modes, across failures, reconnections and earlier
\* borrowers.
ImplementsCursor == Cursor!Spec

=============================================================================
