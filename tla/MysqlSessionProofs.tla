-------------------------- MODULE MysqlSessionProofs --------------------------
(***************************************************************************)
(* What a MySQL session keeps for every number of borrowers, statements,    *)
(* rows and parameters: its types, one MYSQL_RES at most, no answer of      *)
(* another borrower, a prepared statement and a parameter array that belong *)
(* together, the arguments that arrive as long as no temporary is bound,    *)
(* and the contract RowCursor.                                              *)
(***************************************************************************)
EXTENDS MysqlSession, TLAPS, SequenceTheorems

-----------------------------------------------------------------------------
\* A prepared statement with its array of parameters.

\* What a step does to the prepared statement: five actions, or the server's
\* side of it is lost with its handle, or nothing.
LEMMA StmtCases ==
  ASSUME [Next]_vars
  PROVE  \/ UNCHANGED prepared
         \/ stmt' = Detach(stmt) /\ UNCHANGED <<sql, binds, binCount, bound, given, nb>>
         \/ Delete
         \/ PrepareNoStmt
         \/ \E n \in 0..MaxParams, ok \in BOOLEAN : PrepareDone(n, ok)
         \/ \E v \in Values, t \in BOOLEAN : AddBindValue(v, t)
<1> USE DEF vars, prepared
<1>1. CASE PoolStep
  BY <1>1 DEF PoolStep, Borrow, BorrowFail, GiveBack
<1>2. CASE ServerStep
  BY <1>2 DEF ServerStep, Drop, Reconnect
<1>3. CASE Begin \/ Finish \/ StartPage \/ StopPage
  BY <1>3 DEF Begin, Finish, StartPage, StopPage
<1>4. CASE QueryStep
  BY <1>4 DEF QueryStep, QueryOk, RunOk, QueryEmpty, QueryFail, RunFail, NextRow
<1>5. CASE PrepareStep
  BY <1>5 DEF PrepareStep
<1>6. CASE Gone \/ UNCHANGED vars
  BY <1>6 DEF Gone
<1> QED BY <1>1, <1>2, <1>3, <1>4, <1>5, <1>6 DEF Next

\* The statement is consistent, and so are its arguments: as many were meant
\* as it has placeholders, all that was bound is in the array, and the array
\* was passed on when the last placeholder was bound.
Slots == {Unset, Dead} \cup Values

StmtInv ==
  /\ StmtTyped
  /\ StatementConsistent
  /\ stmt # NoStmt => Len(given) = stmt.params
  /\ ~Temporaries /\ stmt # NoStmt =>
       binds.slot = given /\ (nb = stmt.params /\ stmt.params > 0 => bound = given)

LEMMA Detached ==
  ASSUME StmtTyped
  PROVE  LET s == Detach(stmt) IN
         /\ s \in {NoStmt} \cup
              [text : Asks, by : Users, params : 0..MaxParams,
               status : {"ready", "refused", "cut"}]
         /\ s = NoStmt <=> stmt = NoStmt
         /\ stmt # NoStmt => s.text = stmt.text /\ s.params = stmt.params /\ s.by = stmt.by
<1>1. CASE stmt = NoStmt
  BY <1>1 DEF Detach
<1>2. CASE stmt # NoStmt
  BY <1>2 DEF StmtTyped, Detach, NoStmt
<1> QED BY <1>1, <1>2

LEMMA StmtStep ==
  ASSUME LinkTyped, StmtInv, [Next]_vars
  PROVE  StmtInv'
<1> USE SessionAssumption DEF StmtInv, StmtTyped, StatementConsistent, prepared
<1>1. CASE UNCHANGED prepared
  BY <1>1
<1>2. CASE stmt' = Detach(stmt) /\ UNCHANGED <<sql, binds, binCount, bound, given, nb>>
  BY <1>2, Detached
<1>3. CASE Delete
  BY <1>3 DEF Delete, NoBinds
<1>4. CASE PrepareNoStmt
  BY <1>4 DEF PrepareNoStmt, Ask, NoBinds, Asks, LinkTyped
<1>5. CASE \E n \in 0..MaxParams, ok \in BOOLEAN : PrepareDone(n, ok)
  <2> PICK n \in 0..MaxParams, ok \in BOOLEAN : PrepareDone(n, ok)  BY <1>5
  <2> DEFINE s == [i \in 1..n |-> Unset]
  <2>1. s \in Seq({Unset}) /\ Len(s) = n
    BY DEF Unset
  <2>2. /\ given' = s /\ bound' = <<>> /\ nb' = 0 /\ binCount' = n
        /\ binds' = [null |-> FALSE, slot |-> s]
        /\ sql' = asked' /\ sql' \in Asks
    BY DEF PrepareDone, Ask, BindsOf, Asks, LinkTyped
  <2>3. /\ stmt' # NoStmt /\ stmt'.text = asked' /\ stmt'.params = n
        /\ stmt' \in [text : Asks, by : Users, params : 0..MaxParams,
                      status : {"ready", "refused", "cut"}]
    BY DEF PrepareDone, Ask, Asks, LinkTyped, NoStmt
  <2> HIDE DEF s
  <2>4. StmtTyped'
    BY <2>1, <2>2, <2>3 DEF StmtTyped, Slots
  <2>5. StatementConsistent'
    BY <2>1, <2>2, <2>3 DEF StatementConsistent
  <2> QED BY <2>1, <2>2, <2>3, <2>4, <2>5
<1>6. CASE \E v \in Values, t \in BOOLEAN : AddBindValue(v, t)
  <2> PICK v \in Values, t \in BOOLEAN : AddBindValue(v, t)  BY <1>6
  <2> DEFINE i == IF nb = binCount THEN 0 ELSE nb
             x == IF t THEN Dead ELSE v
  <2>1. /\ stmt # NoStmt /\ ~binds.null /\ i < stmt.params
        /\ binds' = [null |-> FALSE, slot |-> [binds.slot EXCEPT ![i + 1] = x]]
        /\ bound' = IF i = binCount - 1 THEN binds'.slot ELSE bound
        /\ given' = [given EXCEPT ![i + 1] = v] /\ nb' = i + 1
        /\ UNCHANGED <<sql, stmt, binCount>> /\ (t => Temporaries)
    BY DEF AddBindValue, BindsOf, StmtBindParam
  <2>2. /\ i \in 0..(binCount - 1) /\ binCount = stmt.params /\ binCount \in Nat
        /\ Len(binds.slot) = binCount /\ Len(given) = binCount
        /\ i + 1 \in 1..binCount
    BY <2>1
  <2>3. x \in Slots /\ v \in {Unset} \cup Values /\ (~Temporaries => x = v)
    BY <2>1 DEF Slots
  <2> HIDE DEF i, x
  <2>4. binds'.slot \in Seq(Slots) /\ Len(binds'.slot) = binCount
    BY <2>1, <2>2, <2>3 DEF Slots
  <2>5. given' \in Seq({Unset} \cup Values) /\ Len(given') = binCount
    BY <2>1, <2>2, <2>3
  <2>6. bound' \in Seq(Slots)
    BY <2>1, <2>4 DEF Slots
  <2>7. StmtTyped'
    BY <2>1, <2>2, <2>4, <2>5, <2>6 DEF StmtTyped, Slots
  <2>8. StatementConsistent'
    BY <2>1, <2>2, <2>4 DEF StatementConsistent
  <2>9. ASSUME ~Temporaries
        PROVE  binds'.slot = given' /\ (nb' = stmt.params => bound' = given')
    <3>1. binds'.slot = given'
      BY <2>1, <2>3, <2>9
    <3>2. ASSUME nb' = stmt.params PROVE i = binCount - 1
      BY <2>1, <2>2, <3>2
    <3> QED BY <2>1, <3>1, <3>2
  <2> QED BY <2>1, <2>2, <2>5, <2>7, <2>8, <2>9
<1> QED BY StmtCases, <1>1, <1>2, <1>3, <1>4, <1>5, <1>6
-----------------------------------------------------------------------------
\* The result set and what next() has told of it.

LEMMA ResultCases ==
  ASSUME [Next]_vars
  PROVE  \/ /\ UNCHANGED <<holder, results>>
            /\ asked' = asked \/ (holder # Nobody /\ asked' = asked + 1)
         \/ \E u \in Users : Borrow(u)
         \/ GiveBack
         \/ Delete
         \/ \E n \in 0..MaxRows : QueryOk(n)
         \/ QueryEmpty
         \/ \E n \in 0..MaxRows : RunOk(n)
         \/ RunFail
         \/ NextRow
<1> USE DEF vars, borrowing, results, pageAndTx, prepared
<1>1. CASE PoolStep
  BY <1>1 DEF PoolStep, BorrowFail
<1>2. CASE ServerStep
  BY <1>2 DEF ServerStep, Drop, Reconnect
<1>3. CASE Begin \/ Finish \/ StartPage \/ StopPage
  BY <1>3 DEF Begin, Finish, StartPage, StopPage
<1>4. CASE QueryStep
  BY <1>4 DEF QueryStep, QueryFail, Ask
<1>5. CASE PrepareStep
  BY <1>5 DEF PrepareStep, PrepareNoStmt, PrepareDone, AddBindValue, Ask
<1>6. CASE Gone \/ UNCHANGED vars
  BY <1>6 DEF Gone
<1> QED BY <1>1, <1>2, <1>3, <1>4, <1>5, <1>6 DEF Next

\* What clear() leaves, and what the reset() of no answer makes of it.
Emptied(m) == [mode |-> m, q |-> 0, by |-> Nobody, count |-> 0, index |-> -1,
               res |-> 0, cur |-> NoRow, tmp |-> rs.tmp]

LEMMA Cleared ==
  /\ Clear(rs) = Emptied("none")
  /\ \A m \in {"query", "stmt"} : [Clear(rs) EXCEPT !.mode = m] = Emptied(m)
<1>1. Clear(rs) = Emptied("none")
  BY DEF Clear, EmptySet, Emptied
<1>2. \A m \in {"query", "stmt"} : [Emptied("none") EXCEPT !.mode = m] = Emptied(m)
  BY DEF Emptied
<1> QED BY <1>1, <1>2

ResultSets == [mode : {"none", "query", "stmt"}, q : Asks, by : Users \cup {Nobody},
               count : 0..MaxRows, index : -1..MaxRows, res : Asks, cur : Rows, tmp : Rows]

LEMMA RowsTyped ==
  /\ NoRow \in Rows /\ 0 \in Asks /\ 0 \in 0..MaxRows
  /\ 0 \in -1..MaxRows /\ -1 \in -1..MaxRows
  /\ NoneSeen = [q |-> 0, k |-> 0, n |-> 0, end |-> FALSE]
  BY SessionAssumption DEF NoRow, Rows, Asks, NoneSeen, Unseen

\* What the result set holds and what next() has told of it agree, in both
\* modes; the rows are those of the holder; and nothing of either is left when
\* the connection goes back.
ResultInv ==
  /\ ResultTyped
  /\ NoResultLeak
  /\ rs.q = seen.q /\ rs.res = seen.q /\ rs.count = seen.n
  /\ seen.q = 0 => seen.n = 0
  /\ seen.k <= seen.n
  /\ seen.end => seen.k = seen.n
  /\ rs.mode = "query" => rs.index = IF rs.res = 0 THEN -1 ELSE seen.k
  /\ rs.mode # "query" => rs.index = IF seen.end THEN rs.count ELSE seen.k - 1
  /\ seen.k > 0 /\ ~seen.end =>
       ReadRow(rs) = [q |-> seen.q, k |-> seen.k, by |-> holder]
  /\ holder = Nobody => rs.mode = "none" /\ seen = NoneSeen
  /\ rs.by = IF rs.res = 0 THEN Nobody ELSE holder

\* A result set that was just cleared, with nothing told of it.
LEMMA EmptyInv ==
  ASSUME LinkTyped, ResultInv, NEW m \in {"none", "query", "stmt"},
         rs' = Emptied(m), open' = Freed(rs), seen' = NoneSeen,
         holder' = Nobody => m = "none"
  PROVE  ResultInv'
<1>1. rs' = [mode |-> m, q |-> 0, by |-> Nobody, count |-> 0,
             index |-> -1, res |-> 0, cur |-> NoRow, tmp |-> rs.tmp]
  BY DEF Emptied
<1>2. open' = {}
  BY DEF ResultInv, NoResultLeak, Freed
<1>3. seen' = [q |-> 0, k |-> 0, n |-> 0, end |-> FALSE]
  BY RowsTyped
<1>4. rs.tmp \in Rows
  BY DEF ResultInv, ResultTyped
<1>5. rs' \in ResultSets
  <2> m \in {"none", "query", "stmt"} /\ Nobody \in Users \cup {Nobody}
    OBVIOUS
  <2> QED BY <1>1, <1>4, RowsTyped, SMTT(30) DEF ResultSets
<1>6. ResultTyped'
  BY <1>2, <1>3, <1>5, RowsTyped DEF ResultTyped, ResultSets
<1> QED BY <1>1, <1>2, <1>3, <1>6 DEF ResultInv, NoResultLeak

\* A result set that was just given an answer of n rows.
LEMMA ShownInv ==
  ASSUME LinkTyped, ResultInv, NEW m \in {"query", "stmt"}, NEW n \in 0..MaxRows,
         Ask, holder' = holder,
         rs' = IF m = "query" THEN ResetQuery(rs, holder, asked', n)
                              ELSE ResetStmt(rs, holder, asked', n),
         open' = Freed(rs) \cup {asked'}, seen' = Unseen(asked', n)
  PROVE  ResultInv'
<1>1. asked' \in Asks \ {0} /\ holder \in Users
  BY SessionAssumption DEF Ask, Asks, LinkTyped
<1>2. rs' = [mode |-> m, q |-> asked', by |-> holder, count |-> n,
             index |-> IF m = "query" THEN 0 ELSE -1, res |-> asked',
             cur |-> NoRow, tmp |-> rs.tmp]
  <2>1. Clear(rs).cur = NoRow /\ Clear(rs).tmp = rs.tmp /\ Clear(rs).index = -1
    BY DEF Clear, EmptySet
  <2> QED BY <2>1 DEF ResetQuery, ResetStmt
<1>3. open' = {asked'}
  BY DEF ResultInv, NoResultLeak, Freed
<1>4. seen' = [q |-> asked', k |-> 0, n |-> n, end |-> FALSE]
  BY DEF Unseen
<1>5. rs.tmp \in Rows
  BY DEF ResultInv, ResultTyped
<1>6. rs' \in ResultSets
  BY <1>1, <1>2, <1>5, RowsTyped DEF ResultSets
<1>7. ResultTyped'
  BY <1>1, <1>3, <1>4, <1>6, RowsTyped DEF ResultTyped, ResultSets
<1> QED
  BY <1>1, <1>2, <1>3, <1>4, <1>7, SessionAssumption DEF ResultInv, NoResultLeak, Ask

LEMMA ResultStep ==
  ASSUME LinkTyped, ResultInv, [Next]_vars
  PROVE  ResultInv'
<1>1. CASE UNCHANGED <<holder, results>>
  BY <1>1 DEF ResultInv, ResultTyped, NoResultLeak, results
<1>2. CASE \E u \in Users : Borrow(u)
  BY <1>2, SessionAssumption DEF Borrow, ResultInv, ResultTyped, NoResultLeak, NoneSeen, Unseen
<1>3. CASE GiveBack
  BY <1>3, Cleared, EmptyInv DEF GiveBack
<1>4. CASE Delete
  BY <1>4, Cleared, EmptyInv DEF Delete, ResultInv
<1>5. CASE \E n \in 0..MaxRows : QueryOk(n)
  BY <1>5, ShownInv DEF QueryOk, borrowing
<1>6. CASE QueryEmpty
  BY <1>6, Cleared, EmptyInv DEF QueryEmpty, Ask, borrowing
<1>7. CASE \E n \in 0..MaxRows : RunOk(n)
  BY <1>7, ShownInv DEF RunOk, borrowing
<1>8. CASE RunFail
  BY <1>8, Cleared, EmptyInv DEF RunFail, Ask, borrowing
<1>9. CASE NextRow
  <2>1. /\ holder' = holder /\ holder # Nobody /\ open' = open
        /\ rs' = Advance(rs)
        /\ seen' = IF HasNext(rs) THEN [seen EXCEPT !.k = @ + 1]
                   ELSE [seen EXCEPT !.end = TRUE]
    BY <1>9 DEF NextRow, borrowing
  <2>2. /\ rs \in ResultSets /\ seen \in [q : Asks, k : 0..MaxRows, n : 0..MaxRows, end : BOOLEAN]
        /\ open = {rs.res} \ {0}
    BY DEF ResultInv, ResultTyped, NoResultLeak, ResultSets
  <2>3. CASE rs.mode = "query" /\ HasNext(rs)
    <3>1. /\ rs' = [rs EXCEPT !.index = @ + 1, !.cur = Row(rs, rs.index + 1)]
          /\ seen' = [seen EXCEPT !.k = @ + 1]
          /\ rs.res # 0 /\ rs.index < rs.count
      BY <2>1, <2>3 DEF Advance, HasNext
    <3>2. /\ rs.index = seen.k /\ seen.k + 1 \in 0..MaxRows /\ rs.index + 1 \in -1..MaxRows
          /\ seen.k + 1 <= seen.n /\ ~seen.end
      BY <2>2, <2>3, <3>1, SessionAssumption DEF ResultInv, ResultSets
    <3>3. Row(rs, rs.index + 1) = [q |-> seen.q, k |-> seen.k + 1, by |-> holder]
      BY <3>1, <3>2 DEF Row, ResultInv
    <3>4. [q |-> seen.q, k |-> seen.k + 1, by |-> holder] \in Rows
      BY <2>2, <3>2 DEF Rows, LinkTyped
    <3>5. /\ rs' \in ResultSets /\ rs'.mode = "query" /\ rs'.index = seen.k + 1
          /\ rs'.cur = [q |-> seen.q, k |-> seen.k + 1, by |-> holder]
          /\ rs'.q = rs.q /\ rs'.res = rs.res /\ rs'.count = rs.count /\ rs'.by = rs.by
      BY <2>2, <2>3, <3>1, <3>2, <3>3, <3>4 DEF ResultSets
    <3>6. seen' = [q |-> seen.q, k |-> seen.k + 1, n |-> seen.n, end |-> FALSE]
      BY <2>2, <3>1, <3>2
    <3> QED
      BY <2>1, <2>2, <3>1, <3>2, <3>5, <3>6
      DEF ResultInv, ResultTyped, NoResultLeak, ResultSets, ReadRow
  <2>4. CASE rs.mode = "query" /\ ~HasNext(rs)
    <3>1. rs' = [rs EXCEPT !.cur = NoRow] /\ seen' = [seen EXCEPT !.end = TRUE]
      BY <2>1, <2>4 DEF Advance, HasNext
    <3>2. seen.k = seen.n
      BY <2>2, <2>4 DEF HasNext, ResultInv, ResultSets
    <3> QED
      BY <2>1, <2>2, <2>4, <3>1, <3>2, RowsTyped DEF ResultInv, ResultTyped, NoResultLeak, ResultSets
  <2>5. CASE rs.mode # "query" /\ HasNext(rs)
    <3>1. /\ rs' = [rs EXCEPT !.index = @ + 1, !.tmp = Row(rs, rs.index + 2)]
          /\ seen' = [seen EXCEPT !.k = @ + 1]
          /\ rs.index + 1 < rs.count
      BY <2>1, <2>5 DEF Advance, HasNext
    <3>2. /\ ~seen.end /\ rs.index = seen.k - 1
          /\ seen.k + 1 \in 0..MaxRows /\ rs.index + 1 \in -1..MaxRows /\ seen.k + 1 <= seen.n
          /\ rs.res # 0
      BY <2>2, <2>5, <3>1, SessionAssumption DEF ResultInv, ResultSets
    <3>3. Row(rs, rs.index + 2) = [q |-> seen.q, k |-> seen.k + 1, by |-> holder]
      BY <2>2, <3>2 DEF Row, ResultInv
    <3>4. [q |-> seen.q, k |-> seen.k + 1, by |-> holder] \in Rows
      BY <2>2, <3>2 DEF Rows, LinkTyped
    <3>5. /\ rs' \in ResultSets /\ rs'.mode = rs.mode /\ rs'.index = rs.index + 1
          /\ rs'.tmp = [q |-> seen.q, k |-> seen.k + 1, by |-> holder]
          /\ rs'.q = rs.q /\ rs'.res = rs.res /\ rs'.count = rs.count /\ rs'.by = rs.by
      BY <2>2, <3>1, <3>2, <3>3, <3>4 DEF ResultSets
    <3>6. seen' = [q |-> seen.q, k |-> seen.k + 1, n |-> seen.n, end |-> FALSE]
      BY <2>2, <3>1, <3>2
    <3> QED
      BY <2>1, <2>2, <2>5, <3>1, <3>2, <3>5, <3>6
      DEF ResultInv, ResultTyped, NoResultLeak, ResultSets, ReadRow
  <2>6. CASE rs.mode # "query" /\ ~HasNext(rs)
    <3>1. rs' = [rs EXCEPT !.index = rs.count] /\ seen' = [seen EXCEPT !.end = TRUE]
      BY <2>1, <2>6 DEF Advance, HasNext
    <3>2. seen.k = seen.n /\ rs.count \in -1..MaxRows
      BY <2>2, <2>6 DEF HasNext, ResultInv, ResultSets
    <3> QED
      BY <2>1, <2>2, <2>6, <3>1, <3>2 DEF ResultInv, ResultTyped, NoResultLeak, ResultSets
  <2> QED BY <2>3, <2>4, <2>5, <2>6
<1> QED BY ResultCases, <1>1, <1>2, <1>3, <1>4, <1>5, <1>6, <1>7, <1>8, <1>9

-----------------------------------------------------------------------------
SessionInv == LinkTyped /\ StmtInv /\ ResultInv

LEMMA LinkStep ==
  ASSUME LinkTyped, StmtInv, [Next]_vars
  PROVE  LinkTyped'
<1> USE SessionAssumption DEF LinkTyped, Asks, vars, borrowing, pageAndTx
<1>1. CASE PoolStep
  BY <1>1 DEF PoolStep, Borrow, BorrowFail, GiveBack, Delete
<1>2. CASE ServerStep
  BY <1>2 DEF ServerStep, Drop, Reconnect
<1>3. CASE Begin \/ Finish \/ StartPage \/ StopPage
  BY <1>3 DEF Begin, Finish, StartPage, StopPage
<1>4. CASE QueryStep
  BY <1>4 DEF QueryStep, QueryOk, RunOk, QueryEmpty, QueryFail, RunFail, NextRow, Ask
<1>5. CASE PrepareStep
  <2>1. CASE PrepareNoStmt
    BY <2>1 DEF PrepareNoStmt, Ask
  <2>2. CASE \E n \in 0..MaxParams, ok \in BOOLEAN : PrepareDone(n, ok)
    BY <2>2 DEF PrepareDone, Ask
  <2>3. CASE \E v \in Values, t \in BOOLEAN : AddBindValue(v, t)
    BY <2>3 DEF AddBindValue
  <2> QED BY <1>5, <2>1, <2>2, <2>3 DEF PrepareStep
<1>6. CASE Gone \/ UNCHANGED vars
  BY <1>6 DEF Gone
<1> QED BY <1>1, <1>2, <1>3, <1>4, <1>5, <1>6 DEF Next

LEMMA InitInv == Init => SessionInv
<1> SUFFICES ASSUME Init PROVE SessionInv
  OBVIOUS
<1>1. LinkTyped
  BY SessionAssumption DEF Init, LinkTyped, Asks
<1>2. StmtInv
  BY SessionAssumption DEF Init, StmtInv, StmtTyped, StatementConsistent, NoBinds, Asks
<1>3. EmptySet \in ResultSets
  BY RowsTyped DEF EmptySet, ResultSets
<1>4. ResultTyped
  BY <1>3, RowsTyped DEF Init, ResultTyped, ResultSets
<1>5. ResultInv
  BY <1>4 DEF Init, ResultInv, NoResultLeak, EmptySet, NoneSeen, Unseen
<1> QED BY <1>1, <1>2, <1>5 DEF SessionInv

\* The one inductive invariant of the session.
THEOREM SessionKeeps == Spec => []SessionInv
<1>1. SessionInv /\ [Next]_vars => SessionInv'
  BY LinkStep, StmtStep, ResultStep DEF SessionInv
<1> QED BY InitInv, <1>1, PTL DEF Spec

\* The session's variables stay in their domains (CDBMysqlConnect.h and
\* CDBMysqlResultSet.h).
THEOREM TypeCorrect == Spec => []TypeOK
<1>1. SessionInv => TypeOK
  BY DEF SessionInv, StmtInv, ResultInv, TypeOK
<1> QED BY SessionKeeps, <1>1, PTL

\* Every MYSQL_RES is freed once, and before the connection goes back
\* (CDBMysqlResultSet.cpp:119-139 and CDBMysqlConnect.cpp:108-111).
THEOREM NothingLeaks == Spec => []NoResultLeak
<1>1. SessionInv => NoResultLeak
  BY DEF SessionInv, ResultInv
<1> QED BY SessionKeeps, <1>1, PTL

\* No CDBQuery finds an answer of another one in its connection.
THEOREM RowsAreOwn == Spec => []NoForeignRows
<1>1. SessionInv => NoForeignRows
  BY DEF SessionInv, ResultInv, ResultTyped, NoForeignRows
<1> QED BY SessionKeeps, <1>1, PTL

\* The statement text, the statement, its parameter count and the array of
\* parameters belong together (CDBMysqlConnect.cpp:220-241).
THEOREM StatementsMatch == Spec => []StatementConsistent
<1>1. SessionInv => StatementConsistent
  BY DEF SessionInv, StmtInv
<1> QED BY SessionKeeps, <1>1, PTL

\* As long as nobody binds a temporary, a statement whose placeholders were
\* all bound runs with the values bound last (CDBMysqlConnect.cpp:303-399).
THEOREM ArgumentsKept ==
  ASSUME ~Temporaries PROVE Spec => []ArgumentsArrive
<1>1. SessionInv => ArgumentsArrive
  BY DEF SessionInv, StmtInv, ArgumentsArrive, Runnable
<1> QED BY SessionKeeps, <1>1, PTL

\* A holder reads the rows of its own last answer, each once and in order, and
\* is told the end after the last one.
THEOREM RowsInOrder == Spec => []CursorExact
<1>1. SessionInv => CursorExact
  BY DEF SessionInv, ResultInv, CursorExact
<1> QED BY SessionKeeps, <1>1, PTL

-----------------------------------------------------------------------------
\* The contract RowCursor.

\* In both modes the position of the result set is the number of rows told.
LEMMA PositionTold ==
  ASSUME ResultInv
  PROVE  Position(rs) = seen.k
  BY SessionAssumption DEF ResultInv, ResultTyped, Position

LEMMA CursorMaps ==
  ASSUME SessionInv, [Next]_vars
  PROVE  [Cursor!Next]_(Cursor!vars)
<1>1. ResultInv /\ ResultInv'
  BY ResultStep DEF SessionInv
<1>2. Position(rs) = seen.k /\ Position(rs)' = seen.k'
  <2>1. Position(rs) = seen.k
    BY <1>1, PositionTold
  <2>2. Position(rs)' = seen.k'
    BY <1>1, SessionAssumption DEF ResultInv, ResultTyped, Position
  <2> QED BY <2>1, <2>2
<1>3. CASE /\ UNCHANGED <<holder, results>>
           /\ asked' = asked \/ (holder # Nobody /\ asked' = asked + 1)
  BY <1>2, <1>3
  DEF results, RowTold, Told, ReadRow, Cursor!Next, Cursor!Unanswered, Cursor!Kept, Cursor!vars
<1>4. CASE \E u \in Users : Borrow(u)
  <2>1. /\ holder = Nobody /\ holder' \in Users /\ rs' = rs /\ asked' = asked
        /\ seen' = NoneSeen /\ seen = NoneSeen
    BY <1>1, <1>4 DEF Borrow, ResultInv
  <2>2. Cursor!Take
    BY <1>2, <2>1 DEF RowTold, Told, ReadRow, Cursor!Take, Cursor!Kept
  <2> QED BY <2>2 DEF Cursor!Next
<1>5. CASE seen' = NoneSeen /\ holder # Nobody /\ holder' = Nobody /\ asked' = asked
  <2>1. Cursor!Leave
    BY <1>2, <1>5
    DEF RowTold, Told, NoneSeen, Unseen, Cursor!Leave, Cursor!Emptied, Cursor!NoAnswer, Cursor!NoRow
  <2> QED BY <2>1 DEF Cursor!Next
<1>6. CASE Delete
  BY <1>1, <1>2, <1>6
  DEF Delete, ResultInv, RowTold, Told, NoneSeen, Unseen, Cursor!vars
<1>7. ASSUME NEW n \in 0..MaxRows, Ask, holder' = holder, seen' = Unseen(asked', n)
      PROVE  Cursor!Next
  <2>1. n \in Nat
    BY SessionAssumption
  <2>2. Cursor!Answer
    BY <1>2, <1>7, <2>1
    DEF Ask, RowTold, Told, Unseen, Cursor!Answer, Cursor!NoRow
  <2> QED BY <2>2 DEF Cursor!Next
<1>8. CASE Ask /\ holder' = holder /\ seen' = NoneSeen
  <2>1. Cursor!Unanswered
    BY <1>2, <1>8
    DEF Ask, RowTold, Told, NoneSeen, Unseen, Cursor!Unanswered, Cursor!Emptied,
        Cursor!NoAnswer, Cursor!NoRow
  <2> QED BY <2>1 DEF Cursor!Next
<1>9. CASE NextRow
  <2>1. /\ holder' = holder /\ holder # Nobody /\ asked' = asked
        /\ seen' = IF HasNext(rs) THEN [seen EXCEPT !.k = @ + 1] ELSE [seen EXCEPT !.end = TRUE]
        /\ seen \in [q : Asks, k : 0..MaxRows, n : 0..MaxRows, end : BOOLEAN]
    BY <1>1, <1>9 DEF NextRow, borrowing, ResultInv, ResultTyped
  <2>2. CASE HasNext(rs)
    <3>1. /\ seen'.q = seen.q /\ seen'.n = seen.n /\ seen'.k = seen.k + 1
          /\ seen'.end = seen.end /\ ~seen.end /\ seen.k < seen.n
      <4>1. ~seen.end /\ seen.k < seen.n
        BY <1>1, <2>2, SessionAssumption DEF HasNext, ResultInv, ResultTyped
      <4> QED BY <2>1, <2>2, <4>1
    <3>2. ReadRow(rs)' = [q |-> seen.q, k |-> seen.k + 1, by |-> holder]
      BY <1>1, <2>1, <3>1, SessionAssumption DEF ResultInv
    <3>3. Told' = "row" /\ RowTold' = [q |-> seen.q, k |-> seen.k + 1]
      BY <2>1, <3>1, <3>2, SessionAssumption DEF Told, RowTold
    <3>4. Cursor!Step
      BY <1>2, <2>1, <3>1, <3>3 DEF Cursor!Step
    <3> QED BY <3>4 DEF Cursor!Next
  <2>3. CASE ~HasNext(rs)
    <3>1. /\ seen'.q = seen.q /\ seen'.n = seen.n /\ seen'.k = seen.k /\ seen'.end
      BY <2>1, <2>3
    <3>2. seen.k = seen.n
      BY <1>1, <3>1 DEF ResultInv
    <3>3. Cursor!End
      BY <1>2, <2>1, <3>1, <3>2 DEF Told, RowTold, Cursor!End, Cursor!NoRow
    <3> QED BY <3>3 DEF Cursor!Next
  <2> QED BY <2>2, <2>3
<1>10. CASE GiveBack
  BY <1>5, <1>10 DEF GiveBack
<1>11. CASE \E n \in 0..MaxRows : QueryOk(n)
  BY <1>7, <1>11 DEF QueryOk, borrowing
<1>12. CASE \E n \in 0..MaxRows : RunOk(n)
  BY <1>7, <1>12 DEF RunOk, borrowing
<1>13. CASE QueryEmpty \/ RunFail
  BY <1>8, <1>13 DEF QueryEmpty, RunFail, borrowing
<1> QED BY ResultCases, <1>3, <1>4, <1>6, <1>9, <1>10, <1>11, <1>12, <1>13

\* What a CDBQuery sees of query() and next() is the contract RowCursor: the
\* rows of its last answer, each once and in order, direct or prepared, across
\* failures, reconnections and earlier borrowers.
THEOREM SessionImplementsCursor == Spec => ImplementsCursor
<1>1. Init => Cursor!Init
  BY DEF Init, EmptySet, NoneSeen, Unseen, Position, RowTold, Told,
         Cursor!Init, Cursor!NoAnswer, Cursor!NoRow
<1>2. SessionInv /\ [Next]_vars => [Cursor!Next]_(Cursor!vars)
  BY CursorMaps
<1> QED BY SessionKeeps, <1>1, <1>2, PTL DEF Spec, ImplementsCursor, Cursor!Spec

\* Calls of next() give the rows of an answer from the first on, none left out
\* or given twice (CDBConnect.h:121-125).
THEOREM NextInOrder == Spec => Cursor!InOrder
  BY SessionImplementsCursor, Cursor!RowsInOrder, PTL DEF ImplementsCursor

\* A loop over next() ends after the last row and not before.
THEOREM EndsAfterLast == Spec => Cursor!EndAfterLast
  BY SessionImplementsCursor, Cursor!EndsAfterLast, PTL DEF ImplementsCursor

\* The getters never read a row of a statement that was replaced or that failed.
THEOREM RowsOfAnswer == Spec => []Cursor!RowOfAnswer
  BY SessionImplementsCursor, Cursor!RowsOfAnswer, PTL DEF ImplementsCursor

\* The next borrower finds no answer, row or position of the one before.
THEOREM NothingLeftBehind == Spec => []Cursor!NothingLeft
  BY SessionImplementsCursor, Cursor!NothingLeftBehind, PTL DEF ImplementsCursor

-----------------------------------------------------------------------------
\* What a borrower has to see to itself.

\* Every CDBQuery ends its transaction and its paging before it is destroyed.
TidySpec == Init /\ [][Next /\ (GiveBack => tx # holder /\ page # holder)]_vars

OwnTxAndPage == holder # Nobody => tx \in {Nobody, holder} /\ page \in {Nobody, holder}

\* clearQuery leaves both in the connection, but between borrowers who clean
\* up neither is set, whatever drops and reconnections do to the transaction:
\* that is all it takes for the first half of SessionOwn, which otherwise is
\* not true (CDBMysqlConnect.cpp:108-111).
THEOREM TidyCallersApart == TidySpec => []OwnTxAndPage
<1> DEFINE Inv == IF holder = Nobody THEN tx = Nobody /\ page = Nobody
                  ELSE tx \in {Nobody, holder} /\ page \in {Nobody, holder}
<1>1. Init => Inv
  BY DEF Init
<1>2. Inv /\ [Next /\ (GiveBack => tx # holder /\ page # holder)]_vars => Inv'
  <2> SUFFICES ASSUME Inv, [Next /\ (GiveBack => tx # holder /\ page # holder)]_vars
               PROVE  Inv'
    OBVIOUS
  <2> USE DEF vars, borrowing, pageAndTx
  <2>1. CASE (\E u \in Users : Borrow(u) \/ BorrowFail(u)) \/ Delete
    BY <2>1, SessionAssumption DEF Borrow, BorrowFail, Delete
  <2>2. CASE GiveBack
    <3>1. tx # holder /\ page # holder
      BY <2>2 DEF GiveBack
    <3> QED BY <2>2, <3>1 DEF GiveBack
  <2>3. CASE ServerStep
    BY <2>3 DEF ServerStep, Drop, Reconnect
  <2>4. CASE Begin \/ Finish \/ StartPage \/ StopPage
    BY <2>4 DEF Begin, Finish, StartPage, StopPage
  <2>5. CASE QueryStep
    BY <2>5 DEF QueryStep, QueryOk, RunOk, QueryEmpty, QueryFail, RunFail, NextRow, Ask
  <2>6. CASE PrepareStep
    BY <2>6 DEF PrepareStep, PrepareNoStmt, PrepareDone, AddBindValue, Ask
  <2>7. CASE Gone \/ UNCHANGED vars
    BY <2>7 DEF Gone
  <2> QED BY <2>1, <2>2, <2>3, <2>4, <2>5, <2>6, <2>7 DEF Next, PoolStep
<1>3. Inv => OwnTxAndPage
  BY DEF OwnTxAndPage
<1> HIDE DEF Inv
<1> QED BY <1>1, <1>2, <1>3, PTL DEF TidySpec
=============================================================================
