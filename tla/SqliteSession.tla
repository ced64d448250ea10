---------------------------- MODULE SqliteSession ----------------------------
(***************************************************************************)
(* One CDBSQLiteConnect with its CDBSQLiteResultSet, as the CDBQuery objects *)
(* that borrow it one after another use it.  SQLite runs in the process:    *)
(* the handle never drops, so connctionTest passes and disconnect() is only *)
(* called by the destructor.                                                *)
(*                                                                          *)
(* The SQLite library is external: a statement is answered or fails, a      *)
(* failing prepare stores a null statement, a statement that was stepped    *)
(* refuses new arguments until it is reset, and sqlite3_close refuses while *)
(* a statement is not finalised.  Like the example program a CDBQuery goes  *)
(* on with a statement only if prepare() returned 0, and does not look at   *)
(* what addBindValue() returns.                                             *)
(***************************************************************************)
EXTENDS Naturals, Integers, Sequences

CONSTANTS
  Users,      \* CDBQuery objects, each borrowing the connection once
  Nobody,
  MaxAsks,    \* bound: statements prepared or run altogether
  MaxRows,    \* bound: rows of an answer
  MaxParams,  \* bound: placeholders of a prepared statement
  Values,     \* what a caller may bind
  Again,      \* a prepared query may follow another answer of the same CDBQuery
  StepsFail,  \* sqlite3_step may fail after the first row of a prepared query
  Rebinds     \* after exec() a CDBQuery binds all placeholders before it runs again

ASSUME SessionAssumption ==
  /\ Nobody \notin Users
  /\ MaxAsks \in Nat /\ MaxRows \in Nat /\ MaxParams \in Nat
  /\ Values \subseteq Nat \ {0}
  /\ Again \in BOOLEAN /\ StepsFail \in BOOLEAN /\ Rebinds \in BOOLEAN

VARIABLES
  holder,   \* the CDBQuery that has the connection, or Nobody
  past,     \* the CDBQuery objects that are gone
  alive,    \* the CDBSQLiteConnect exists
  handle,   \* the sqlite3 object: "open", "closed", or "lost" while still open
  tx,       \* whose BEGIN the handle still has open
  sql,      \* m_sql
  stmt,     \* m_statement
  unfinal,  \* the statements of the handle that are not finalised
  accepted, \* a prepare has succeeded
  args,     \* the values bound to m_statement
  given,    \* the values the caller means the statement to have
  denied,   \* the placeholders whose last addBindValue returned an error
  nb,       \* how many placeholders the caller has come to in this round
  rs,       \* m_resultSet
  last,     \* the holder's last answer
  told,     \* what next() said of it last
  asked     \* statements so far

borrowing == <<holder, past, alive>>
prepared  == <<sql, stmt, unfinal, accepted, args, given, denied, nb>>
results   == <<rs, last, told>>
vars == <<borrowing, handle, tx, prepared, results, asked>>

NoStmt   == [text |-> 0]
Unset    == 0
NoRow    == [q |-> 0, k |-> 0]
NoAnswer == [q |-> 0, n |-> 0]

Rows(q, n) == [k \in 1..n |-> [q |-> q, k |-> k]]
Blank(n)   == [i \in 1..n |-> Unset]

-----------------------------------------------------------------------------
\* CDBSQLiteResultSet.  data is m_data, count m_nRowCount, index m_nRowIndex,
\* tmp m_pTmp.
EmptySet == [data |-> <<>>, count |-> 0, index |-> -1, tmp |-> NoRow]

\* What next() returns.
HasNext(r) == r.index + 1 < r.count

-----------------------------------------------------------------------------
\* Seeded defects: a definition below with a plausible slip in the code.  None
\* is part of the specification; each shows that a property notices the slip.

\* clear() forgets m_nRowIndex.
ClearKeepsIndex(r) == [EmptySet EXCEPT !.tmp = r.tmp, !.index = r.index]

\* reset(nullptr) does not count the rows the callback appended.
CountUncounted(r) == r

\* next() reads the row before it has moved.
AdvanceLate(r) ==
  IF r.count = 0 THEN r
  ELSE IF HasNext(r)
       THEN [r EXCEPT !.index = @ + 1,
                      !.tmp = IF r.index >= 0 THEN r.data[r.index + 1] ELSE @]
       ELSE [r EXCEPT !.index = r.count]

\* prepare keeps the old statement when the new one is refused.
PrepareKept(n, ok) ==
  /\ holder # Nobody /\ asked < MaxAsks
  /\ ok \/ n = 0
  /\ asked' = asked + 1
  /\ sql' = asked'
  /\ IF ok THEN stmt' = [text |-> asked', by |-> holder, params |-> n, stepped |-> FALSE]
     ELSE stmt' = stmt
  /\ unfinal' = IF ok THEN unfinal \cup {asked'} ELSE unfinal
  /\ accepted' = (accepted \/ ok)
  /\ args' = Blank(n) /\ given' = Blank(n) /\ denied' = {} /\ nb' = 0
  /\ UNCHANGED <<borrowing, handle, tx, results>>

\* addBindValue returns SUCCESS without a look at SQLite's code.
AddRefusedSilent(v) ==
  LET index == IF nb = stmt.params THEN 0 ELSE nb IN
  /\ holder # Nobody /\ stmt # NoStmt /\ stmt.by = holder
  /\ index < stmt.params /\ stmt.stepped
  /\ given' = [given EXCEPT ![index + 1] = v]
  /\ denied' = denied \ {index + 1}
  /\ nb' = index + 1
  /\ UNCHANGED <<borrowing, handle, tx, sql, stmt, unfinal, accepted, args,
                 results, asked>>

-----------------------------------------------------------------------------
\* clear() leaves m_pTmp alone.
Clear(r) == [EmptySet EXCEPT !.tmp = r.tmp]

\* callback() appends a row at a time.
Appended(r, q, n) == [r EXCEPT !.data = @ \o Rows(q, n)]

\* Both reset(nullptr) and the end of reset(sqlite3_stmt*).
Count(r) == [r EXCEPT !.count = Len(r.data)]

\* The result set next() leaves.  m_nRowIndex runs past the end with every
\* further call and is kept at the end here.
Advance(r) ==
  IF r.count = 0 THEN r
  ELSE IF HasNext(r)
       THEN [r EXCEPT !.index = @ + 1, !.tmp = r.data[r.index + 2]]
       ELSE [r EXCEPT !.index = r.count]

-----------------------------------------------------------------------------
Init ==
  /\ holder = Nobody /\ past = {} /\ alive = TRUE
  /\ handle = "open" /\ tx = Nobody
  /\ sql = 0 /\ stmt = NoStmt /\ unfinal = {} /\ accepted = FALSE
  /\ args = <<>> /\ given = <<>> /\ denied = {} /\ nb = 0
  /\ rs = EmptySet /\ last = NoAnswer /\ told = "nothing"
  /\ asked = 0

\* getDBconnect: connctionTest finds m_dbHandle set.
Borrow(u) ==
  /\ alive /\ holder = Nobody /\ u \notin past
  /\ holder' = u
  /\ UNCHANGED <<past, alive, handle, tx, prepared, results, asked>>

\* freeDBconnect: clearQuery().
GiveBack ==
  /\ holder # Nobody
  /\ past' = past \cup {holder}
  /\ holder' = Nobody
  /\ rs' = Clear(rs) /\ last' = NoAnswer /\ told' = "nothing"
  /\ UNCHANGED <<alive, handle, tx, prepared, asked>>

\* sqlite3_close answers SQLITE_BUSY, and closes nothing, while a statement is
\* not finalised; disconnect() forgets the handle all the same.
Closed == IF unfinal = {} THEN "closed" ELSE "lost"

\* ~CDBSQLiteConnect(): disconnect(), which finalises after it has closed.
Delete ==
  /\ alive /\ holder = Nobody
  /\ alive' = FALSE
  /\ handle' = Closed
  /\ tx' = IF handle' = "closed" THEN Nobody ELSE tx
  /\ stmt' = NoStmt /\ unfinal' = unfinal \ {stmt.text}
  /\ rs' = Clear(rs)
  /\ UNCHANGED <<holder, past, sql, accepted, args, given, denied, nb, last, told,
                 asked>>

\* begin() fails inside a transaction, commit() and rollback() outside one.
Begin ==
  /\ holder # Nobody /\ tx = Nobody
  /\ tx' = holder
  /\ UNCHANGED <<borrowing, handle, prepared, results, asked>>

Finish ==
  /\ holder # Nobody /\ tx # Nobody
  /\ tx' = Nobody
  /\ UNCHANGED <<borrowing, handle, prepared, results, asked>>

-----------------------------------------------------------------------------
Ask == /\ holder # Nobody /\ asked < MaxAsks
       /\ asked' = asked + 1

Answered(n) == last' = [q |-> asked', n |-> n] /\ told' = "nothing"

\* excuteQuery: n rows and SQLITE_OK.
QueryOk(n) ==
  /\ Ask
  /\ rs' = Count(Appended(Clear(rs), asked', n))
  /\ Answered(n)
  /\ UNCHANGED <<borrowing, handle, tx, prepared>>

\* sqlite3_exec fails after n rows, which stay in m_data uncounted.
QueryFail(n) ==
  /\ Ask
  /\ rs' = Appended(Clear(rs), asked', n)
  /\ last' = NoAnswer /\ told' = "nothing"
  /\ UNCHANGED <<borrowing, handle, tx, prepared>>

\* A CDBQuery runs the statement it has prepared and bound.
Runnable ==
  holder # Nobody /\ stmt # NoStmt /\ stmt.by = holder /\ nb = stmt.params

\* query(""): the first step has a row and reset(sqlite3_stmt*) appends it and
\* those after it, without clear(), until a step has none.  The answer has n
\* rows; a step that fails ends it after m, and query() returns 0.
RunOk(n, m) ==
  /\ Ask /\ Runnable
  /\ Again \/ rs.data = <<>>
  /\ m \in 1..n /\ (m < n => StepsFail)
  /\ rs' = Count(Appended(rs, asked', m))
  /\ Answered(n)
  /\ stmt' = [stmt EXCEPT !.stepped = TRUE]
  /\ UNCHANGED <<borrowing, handle, tx, sql, unfinal, accepted, args, given,
                 denied, nb>>

\* The first step has no row, for an empty answer as for a failure, and both
\* are DB_QUERY_ERROR.
RunNone ==
  /\ Ask /\ Runnable
  /\ stmt' = [stmt EXCEPT !.stepped = TRUE]
  /\ UNCHANGED <<borrowing, handle, tx, sql, unfinal, accepted, args, given,
                 denied, nb, results>>

\* exec(""): step, sqlite3_clear_bindings, sqlite3_reset.  The caller is not
\* told that its values are gone.
Exec ==
  /\ Ask /\ Runnable
  /\ stmt' = [stmt EXCEPT !.stepped = FALSE]
  /\ args' = Blank(stmt.params)
  /\ nb' = IF Rebinds THEN 0 ELSE nb
  /\ UNCHANGED <<borrowing, handle, tx, sql, unfinal, accepted, given, denied,
                 results>>

NextRow ==
  /\ holder # Nobody
  /\ rs' = Advance(rs)
  /\ told' = IF HasNext(rs) THEN "row" ELSE "end"
  /\ UNCHANGED <<borrowing, handle, tx, prepared, last, asked>>

-----------------------------------------------------------------------------
\* prepare(): m_sql, then sqlite3_prepare_v2 into m_statement, whatever it
\* pointed at; a statement with n placeholders, or nullptr.
Prepare(n, ok) ==
  /\ Ask
  /\ ok \/ n = 0
  /\ sql' = asked'
  /\ stmt' = IF ok THEN [text |-> asked', by |-> holder, params |-> n, stepped |-> FALSE]
             ELSE NoStmt
  /\ unfinal' = IF ok THEN unfinal \cup {asked'} ELSE unfinal
  /\ accepted' = (accepted \/ ok)
  /\ args' = Blank(n) /\ given' = Blank(n) /\ denied' = {} /\ nb' = 0
  /\ UNCHANGED <<borrowing, handle, tx, results>>

\* The placeholder addBindValues comes to next.
Binding ==
  /\ holder # Nobody /\ stmt # NoStmt /\ stmt.by = holder
  /\ stmt.params > 0
At == IF nb = stmt.params THEN 1 ELSE nb + 1

\* What a call means to the caller, whatever it returns.
Meant(v) == given' = [given EXCEPT ![At] = v] /\ nb' = At

\* addBindValue copies the argument (SQLITE_TRANSIENT) and returns 0.
AddBindValue(v) ==
  /\ Binding /\ ~stmt.stepped
  /\ args' = [args EXCEPT ![At] = v]
  /\ Meant(v) /\ denied' = denied \ {At}
  /\ UNCHANGED <<borrowing, handle, tx, sql, stmt, unfinal, accepted, results, asked>>

\* A statement that was stepped answers SQLITE_MISUSE, which is returned, and
\* keeps the argument it has.
AddRefused(v) ==
  /\ Binding /\ stmt.stepped
  /\ Meant(v) /\ denied' = denied \cup {At}
  /\ UNCHANGED <<borrowing, handle, tx, sql, stmt, unfinal, accepted, args,
                 results, asked>>

-----------------------------------------------------------------------------
Gone == ~alive /\ UNCHANGED vars

PoolStep == (\E u \in Users : Borrow(u)) \/ GiveBack \/ Delete
QueryStep ==
  \/ \E n \in 0..MaxRows : QueryOk(n) \/ QueryFail(n)
  \/ \E n, m \in 0..MaxRows : RunOk(n, m)
  \/ RunNone \/ Exec \/ NextRow
PrepareStep ==
  \/ \E n \in 0..MaxParams, ok \in BOOLEAN : Prepare(n, ok)
  \/ \E v \in Values : AddBindValue(v) \/ AddRefused(v)
Next == PoolStep \/ Begin \/ Finish \/ QueryStep \/ PrepareStep \/ Gone

Spec == Init /\ [][Next]_vars

-----------------------------------------------------------------------------
Asks == 0..MaxAsks
RowSet == [q : Asks, k : 0..MaxRows]

LinkTyped ==
  /\ holder \in Users \cup {Nobody} /\ past \subseteq Users /\ alive \in BOOLEAN
  /\ handle \in {"open", "closed", "lost"} /\ tx \in Users \cup {Nobody}
  /\ asked \in Asks

StmtTyped ==
  /\ sql \in Asks
  /\ stmt \in {NoStmt} \cup
       [text : Asks \ {0}, by : Users, params : 0..MaxParams, stepped : BOOLEAN]
  /\ unfinal \subseteq Asks \ {0} /\ accepted \in BOOLEAN
  /\ args \in Seq({Unset} \cup Values) /\ given \in Seq({Unset} \cup Values)
  /\ denied \subseteq 1..MaxParams /\ nb \in 0..MaxParams

ResultTyped ==
  /\ rs \in [data : Seq(RowSet), count : Nat, index : Int, tmp : RowSet]
  /\ rs.count <= Len(rs.data) /\ rs.index \in -1..rs.count
  /\ last \in [q : Asks, n : 0..MaxRows] /\ told \in {"nothing", "row", "end"}

\* The members of CDBSQLiteConnect and CDBSQLiteResultSet stay in their domains.
TypeOK == LinkTyped /\ StmtTyped /\ ResultTyped

\* size() is the number of rows of the last answer (CDBConnect.h:116), after
\* direct and prepared queries and after failures that left rows behind.
SizeExact == holder # Nobody => rs.count = last.n

\* m_statement is never one that was finalised, and m_sql is its text, so that
\* exec looks for INSERT in the statement it runs.
StatementSound ==
  stmt # NoStmt => stmt.text \in unfinal /\ stmt.text = sql

\* A placeholder whose addBindValue returned 0 (CDBConnect.h:180-182) has the
\* value its caller means when the statement runs, whatever was run, refused and
\* bound before: only where an error was returned an older argument can run.
ArgumentsArrive ==
  Runnable => \A i \in 1..stmt.params : i \in denied \/ args[i] = given[i]

\* A connection that is deleted is disconnected (CDBConnect.h:35-37), and no
\* transaction goes on without it.
HandleClosed == ~alive => handle = "closed" /\ tx = Nobody

\* What a CDBQuery sees of query() and next() is the contract RowCursor.
Position(r) == IF r.index + 1 > r.count THEN r.count ELSE r.index + 1
Cursor == INSTANCE RowCursor WITH
  user <- holder, answer <- last, pos <- Position(rs),
  row <- IF told = "row" THEN rs.tmp ELSE NoRow

\* The rows a CDBQuery iterates over are those of its last answer, each once
\* and in order, as long as a prepared query is its first answer.
ImplementsCursor == Cursor!Spec
=============================================================================
