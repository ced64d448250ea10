-------------------------- MODULE SqliteSessionProofs --------------------------
(***************************************************************************)
(* What a SQLite session keeps for every number of borrowers, statements,   *)
(* rows and parameters: its types, the prepared statement and the handle of *)
(* a connection that never prepared one without further assumption; the     *)
(* arguments as long as they are bound again after exec(); the size of the  *)
(* answer and the contract RowCursor as long as a prepared query is the     *)
(* first answer of its CDBQuery and its steps do not fail.                  *)
(***************************************************************************)
EXTENDS SqliteSession, TLAPS, SequenceTheorems

-----------------------------------------------------------------------------
\* The handle, the prepared statement and its arguments.

\* What a step does to them: six actions, or nothing.
LEMMA StmtCases ==
  ASSUME [Next]_vars
  PROVE  \/ UNCHANGED <<alive, handle, prepared>> /\ (alive \/ UNCHANGED <<tx, holder>> \/ holder # Nobody)
         \/ Delete
         \/ \E n \in 0..MaxParams, ok \in BOOLEAN : Prepare(n, ok)
         \/ \E v \in Values : AddBindValue(v)
         \/ \E v \in Values : AddRefused(v)
         \/ \E n, m \in 0..MaxRows : RunOk(n, m)
         \/ RunNone
         \/ Exec
<1> USE DEF vars, prepared, borrowing
<1>1. CASE PoolStep
  BY <1>1 DEF PoolStep, Borrow, GiveBack
<1>2. CASE Begin \/ Finish
  BY <1>2 DEF Begin, Finish
<1>3. CASE QueryStep
  BY <1>3 DEF QueryStep, QueryOk, QueryFail, NextRow, Ask
<1>4. CASE PrepareStep
  BY <1>4 DEF PrepareStep
<1>5. CASE Gone \/ UNCHANGED vars
  BY <1>5 DEF Gone
<1> QED BY <1>1, <1>2, <1>3, <1>4, <1>5 DEF Next

\* The placeholders the caller has come to since prepare or exec have the values
\* it means, unless it was told of an error.
BoundSoFar == \A i \in 1..nb : i \in denied \/ args[i] = given[i]

\* A connection that never prepared a statement is closed when it is deleted.
ClosedUnprepared == ~alive /\ ~accepted => handle = "closed" /\ tx = Nobody

\* The statement has as many arguments as placeholders, and the handle has a
\* statement that is not finalised from the first accepted prepare on.
StmtInv ==
  /\ StmtTyped
  /\ StatementSound
  /\ stmt # NoStmt => /\ Len(args) = stmt.params /\ Len(given) = stmt.params
                      /\ nb <= stmt.params
                      /\ Rebinds => BoundSoFar
  /\ alive => unfinal = {} <=> ~accepted
  /\ ~alive => holder = Nobody
  /\ ClosedUnprepared

LEMMA BlankSeq ==
  ASSUME NEW n \in Nat
  PROVE  Blank(n) \in Seq({Unset} \cup Values) /\ Len(Blank(n)) = n
  BY DEF Blank

\* The placeholder that is bound next is within the statement, and the round
\* has no others than those it had and this one.
LEMMA RoundOn ==
  ASSUME StmtInv, Binding
  PROVE  /\ At \in 1..stmt.params /\ At \in 0..MaxParams
         /\ \A i \in 1..At : i = At \/ i \in 1..nb
  BY SessionAssumption DEF StmtInv, StmtTyped, Binding, At

LEMMA StmtStep ==
  ASSUME LinkTyped, StmtInv, [Next]_vars
  PROVE  StmtInv'
<1> USE SessionAssumption DEF StmtInv, StmtTyped, StatementSound, ClosedUnprepared, BoundSoFar, prepared
<1>1. CASE UNCHANGED <<alive, handle, prepared>> /\ (alive \/ UNCHANGED <<tx, holder>> \/ holder # Nobody)
  BY <1>1
<1>2. CASE Delete
  BY <1>2 DEF Delete, Closed
<1>3. CASE \E n \in 0..MaxParams, ok \in BOOLEAN : Prepare(n, ok)
  <2> PICK n \in 0..MaxParams, ok \in BOOLEAN : Prepare(n, ok)  BY <1>3
  <2>1. asked' \in Asks \ {0} /\ sql' = asked' /\ holder \in Users /\ holder' = holder
    BY DEF Prepare, Ask, LinkTyped, Asks, borrowing
  <2>2. /\ args' \in Seq({Unset} \cup Values) /\ Len(args') = n
        /\ given' = args' /\ denied' = {} /\ nb' = 0
    BY BlankSeq DEF Prepare
  <2>3. alive /\ alive' /\ (holder' = Nobody => holder = Nobody)
    BY DEF Prepare, Ask, borrowing
  <2>4. CASE ok
    <3>1. /\ stmt' = [text |-> asked', by |-> holder, params |-> n, stepped |-> FALSE]
          /\ unfinal' = unfinal \cup {asked'} /\ accepted'
      BY <2>4 DEF Prepare
    <3>2. stmt' # NoStmt
      BY <3>1 DEF NoStmt
    <3> QED BY <2>1, <2>2, <2>3, <3>1, <3>2
  <2>5. CASE ~ok
    BY <2>1, <2>2, <2>3, <2>5 DEF Prepare
  <2> QED BY <2>4, <2>5
<1>4. CASE \E v \in Values : AddBindValue(v)
  <2> PICK v \in Values : AddBindValue(v)  BY <1>4
  <2>1. Binding /\ At \in 1..stmt.params /\ stmt # NoStmt
    BY DEF AddBindValue, Binding, At
  <2>2. /\ args' = [args EXCEPT ![At] = v] /\ given' = [given EXCEPT ![At] = v] /\ nb' = At
        /\ denied' = denied \ {At}
        /\ UNCHANGED <<holder, alive, handle, tx, sql, stmt, unfinal, accepted>>
    BY DEF AddBindValue, Meant, borrowing
  <2>3. /\ args' \in Seq({Unset} \cup Values) /\ Len(args') = Len(args)
        /\ given' \in Seq({Unset} \cup Values) /\ Len(given') = Len(given)
        /\ args'[At] = v /\ given'[At] = v
        /\ \A i \in 1..stmt.params : i # At => args'[i] = args[i] /\ given'[i] = given[i]
    BY <2>1, <2>2
  <2>4. nb' \in 0..MaxParams /\ \A i \in 1..nb' : i = At \/ i \in 1..nb
    BY <2>1, <2>2, RoundOn
  <2>5. stmt.params \in Nat /\ nb' <= stmt.params
    BY <2>1, <2>2
  <2>6. /\ nb' \in 0..MaxParams /\ nb' <= stmt.params
        /\ \A i \in 1..nb' : i \in 1..stmt.params /\ (i = At \/ i \in 1..nb)
    BY <2>4, <2>5
  <2>7. Rebinds => BoundSoFar'
    BY <2>1, <2>2, <2>3, <2>6
  <2> QED BY <2>1, <2>2, <2>3, <2>6, <2>7
<1>5. CASE \E v \in Values : AddRefused(v)
  <2> PICK v \in Values : AddRefused(v)  BY <1>5
  <2>1. Binding /\ At \in 1..stmt.params /\ stmt # NoStmt
    BY DEF AddRefused, Binding, At
  <2>2. /\ args' = args /\ given' = [given EXCEPT ![At] = v] /\ nb' = At
        /\ denied' = denied \cup {At}
        /\ UNCHANGED <<holder, alive, handle, tx, sql, stmt, unfinal, accepted>>
    BY DEF AddRefused, Meant, borrowing
  <2>3. /\ given' \in Seq({Unset} \cup Values) /\ Len(given') = Len(given)
        /\ \A i \in 1..stmt.params : i # At => given'[i] = given[i]
    BY <2>1, <2>2
  <2>4. /\ nb' \in 0..MaxParams /\ nb' <= stmt.params /\ denied' \subseteq 1..MaxParams
        /\ \A i \in 1..nb' : i \in 1..stmt.params /\ (i = At \/ i \in 1..nb)
    BY <2>1, <2>2, RoundOn
  <2>5. Rebinds => BoundSoFar'
    BY <2>1, <2>2, <2>3, <2>4
  <2> QED BY <2>1, <2>2, <2>3, <2>4, <2>5
<1>6. CASE RunNone \/ \E n, m \in 0..MaxRows : RunOk(n, m)
  <2>1. /\ stmt # NoStmt /\ stmt' = [stmt EXCEPT !.stepped = TRUE]
        /\ UNCHANGED <<borrowing, handle, tx, sql, unfinal, accepted, args, given, denied, nb>>
    BY <1>6 DEF RunNone, RunOk, Runnable
  <2>2. /\ stmt' \in [text : Asks \ {0}, by : Users, params : 0..MaxParams, stepped : BOOLEAN]
        /\ stmt'.text = stmt.text /\ stmt'.params = stmt.params
    BY <2>1
  <2> QED BY <2>1, <2>2 DEF borrowing
<1>7. CASE Exec
  <2>1. /\ stmt # NoStmt /\ stmt' = [stmt EXCEPT !.stepped = FALSE]
        /\ args' = Blank(stmt.params) /\ nb' = (IF Rebinds THEN 0 ELSE nb)
        /\ UNCHANGED <<borrowing, handle, tx, sql, unfinal, accepted, given, denied>>
    BY <1>7 DEF Exec, Runnable
  <2>2. /\ stmt' \in [text : Asks \ {0}, by : Users, params : 0..MaxParams, stepped : BOOLEAN]
        /\ stmt'.text = stmt.text /\ stmt'.params = stmt.params
    BY <2>1
  <2>3. args' \in Seq({Unset} \cup Values) /\ Len(args') = stmt.params
    BY <2>1, <2>2, BlankSeq
  <2> QED BY <2>1, <2>2, <2>3 DEF borrowing
<1> QED BY StmtCases, <1>1, <1>2, <1>3, <1>4, <1>5, <1>6, <1>7

-----------------------------------------------------------------------------
\* The result set.

LEMMA ResultCases ==
  ASSUME [Next]_vars
  PROVE  \/ /\ UNCHANGED <<holder, results>>
            /\ asked' = asked \/ (holder # Nobody /\ asked' = asked + 1)
         \/ \E u \in Users : Borrow(u)
         \/ GiveBack
         \/ Delete
         \/ \E n \in 0..MaxRows : QueryOk(n)
         \/ \E n \in 0..MaxRows : QueryFail(n)
         \/ \E n, m \in 0..MaxRows : RunOk(n, m)
         \/ NextRow
<1> USE DEF vars, borrowing, results
<1>1. CASE PoolStep
  BY <1>1 DEF PoolStep
<1>2. CASE Begin \/ Finish
  BY <1>2 DEF Begin, Finish
<1>3. CASE QueryStep
  BY <1>3 DEF QueryStep, RunNone, Exec, Ask
<1>4. CASE PrepareStep
  BY <1>4 DEF PrepareStep, Prepare, AddBindValue, AddRefused, Ask
<1>5. CASE Gone \/ UNCHANGED vars
  BY <1>5 DEF Gone
<1> QED BY <1>1, <1>2, <1>3, <1>4, <1>5 DEF Next

ResultSets == [data : Seq(RowSet), count : Nat, index : Int, tmp : RowSet]

LEMMA RowsTyped ==
  ASSUME NEW q \in Asks, NEW n \in 0..MaxRows
  PROVE  /\ Rows(q, n) \in Seq(RowSet) /\ Len(Rows(q, n)) = n
         /\ \A k \in 1..n : Rows(q, n)[k] = [q |-> q, k |-> k]
<1>1. n \in Nat /\ \A k \in 1..n : [q |-> q, k |-> k] \in RowSet
  BY SessionAssumption DEF RowSet
<1> QED BY <1>1 DEF Rows

\* callback() and reset(sqlite3_stmt*) add n rows at the end.
LEMMA AppendedTyped ==
  ASSUME NEW r \in ResultSets, NEW q \in Asks, NEW n \in 0..MaxRows
  PROVE  /\ Appended(r, q, n) \in ResultSets
         /\ Len(Appended(r, q, n).data) = Len(r.data) + n
         /\ Appended(r, q, n).count = r.count /\ Appended(r, q, n).index = r.index
         /\ r.data = <<>> => Appended(r, q, n).data = Rows(q, n)
<1>1. r.data \o Rows(q, n) \in Seq(RowSet) /\ Len(r.data \o Rows(q, n)) = Len(r.data) + n
  <2>1. Rows(q, n) \in Seq(RowSet) /\ Len(Rows(q, n)) = n /\ r.data \in Seq(RowSet)
    BY RowsTyped DEF ResultSets
  <2>2. ASSUME NEW s \in Seq(RowSet), NEW z \in Seq(RowSet)
        PROVE  s \o z \in Seq(RowSet) /\ Len(s \o z) = Len(s) + Len(z)
    BY ConcatProperties
  <2> QED BY <2>1, <2>2
<1>2. Appended(r, q, n) = [r EXCEPT !.data = r.data \o Rows(q, n)]
  BY DEF Appended
<1>3. r.data = <<>> => r.data \o Rows(q, n) = Rows(q, n)
  BY RowsTyped, ConcatEmptySeq
<1> QED BY <1>1, <1>2, <1>3 DEF ResultSets

LEMMA CountTyped ==
  ASSUME NEW r \in ResultSets
  PROVE  /\ Count(r) \in ResultSets /\ Count(r).count = Len(r.data)
         /\ Count(r).data = r.data /\ Count(r).index = r.index
  BY DEF Count, ResultSets

LEMMA ClearTyped ==
  ASSUME rs \in ResultSets
  PROVE  /\ Clear(rs) \in ResultSets /\ Clear(rs).data = <<>>
         /\ Clear(rs).count = 0 /\ Clear(rs).index = -1
<1>1. Clear(rs) = [data |-> <<>>, count |-> 0, index |-> -1, tmp |-> rs.tmp]
  BY DEF Clear, EmptySet
<1>2. <<>> \in Seq(RowSet) /\ rs.tmp \in RowSet
  BY DEF ResultSets
<1> QED BY <1>1, <1>2 DEF ResultSets

\* next() keeps the rows and their number, and moves to the next row if any.
LEMMA AdvanceTyped ==
  ASSUME rs \in ResultSets, rs.count <= Len(rs.data), rs.index \in -1..rs.count
  PROVE  /\ Advance(rs) \in ResultSets
         /\ Advance(rs).data = rs.data /\ Advance(rs).count = rs.count
         /\ HasNext(rs) => /\ Advance(rs).index = rs.index + 1
                           /\ Advance(rs).tmp = rs.data[rs.index + 2]
         /\ ~HasNext(rs) =>
              Advance(rs).index = IF rs.count = 0 THEN rs.index ELSE rs.count
<1> USE DEF ResultSets
<1>1. CASE rs.count = 0
  <2>1. ~HasNext(rs) /\ Advance(rs) = rs
    BY <1>1 DEF Advance, HasNext
  <2> QED BY <1>1, <2>1
<1>2. CASE rs.count # 0 /\ HasNext(rs)
  <2>1. rs.data[rs.index + 2] \in RowSet
    BY <1>2 DEF HasNext
  <2>2. Advance(rs) = [rs EXCEPT !.index = rs.index + 1, !.tmp = rs.data[rs.index + 2]]
    BY <1>2 DEF Advance
  <2>3. Advance(rs) \in ResultSets
    <3>1. \A i \in Int, t \in RowSet : [rs EXCEPT !.index = i, !.tmp = t] \in ResultSets
      OBVIOUS
    <3>2. rs.index + 1 \in Int
      OBVIOUS
    <3> QED BY <2>1, <2>2, <3>1, <3>2
  <2>4. /\ Advance(rs).data = rs.data /\ Advance(rs).count = rs.count
        /\ Advance(rs).index = rs.index + 1 /\ Advance(rs).tmp = rs.data[rs.index + 2]
    BY <2>2
  <2> QED BY <1>2, <2>3, <2>4
<1>3. CASE rs.count # 0 /\ ~HasNext(rs)
  <2>1. Advance(rs) = [rs EXCEPT !.index = rs.count]
    BY <1>3 DEF Advance
  <2> QED BY <1>3, <2>1
<1> QED BY <1>1, <1>2, <1>3

LEMMA ResultTypeStep ==
  ASSUME LinkTyped, ResultTyped, [Next]_vars
  PROVE  ResultTyped'
<1>0. /\ rs \in ResultSets /\ rs.count \in Nat
      /\ Clear(rs) \in ResultSets
      /\ Clear(rs).data = <<>> /\ Clear(rs).count = 0 /\ Clear(rs).index = -1
  BY ClearTyped DEF ResultTyped, ResultSets
<1>1. CASE UNCHANGED <<holder, results>>
  BY <1>1 DEF results, ResultTyped
<1>2. CASE \E u \in Users : Borrow(u)
  BY <1>2 DEF Borrow, results, ResultTyped
<1>3. CASE GiveBack \/ Delete
  <2>1. NoAnswer \in [q : Asks, n : 0..MaxRows]
    BY SessionAssumption DEF NoAnswer, Asks
  <2> QED BY <1>0, <1>3, <2>1 DEF GiveBack, Delete, ResultTyped, ResultSets
<1>4. CASE \E n \in 0..MaxRows : QueryOk(n)
  <2> PICK n \in 0..MaxRows : QueryOk(n)  BY <1>4
  <2>1. asked' \in Asks
    BY SessionAssumption DEF QueryOk, Ask, Asks, LinkTyped
  <2>2. /\ rs' \in ResultSets /\ rs'.count = Len(rs'.data) /\ rs'.index = -1
    BY <1>0, <2>1, AppendedTyped, CountTyped DEF QueryOk
  <2>3. last' \in [q : Asks, n : 0..MaxRows] /\ told' = "nothing"
    BY <2>1 DEF QueryOk, Answered
  <2> QED BY <2>2, <2>3 DEF ResultTyped, ResultSets
<1>5. CASE \E n \in 0..MaxRows : QueryFail(n)
  <2> PICK n \in 0..MaxRows : QueryFail(n)  BY <1>5
  <2>1. asked' \in Asks
    BY SessionAssumption DEF QueryFail, Ask, Asks, LinkTyped
  <2>2. /\ rs' \in ResultSets /\ rs'.count = 0 /\ rs'.index = -1
    BY <1>0, <2>1, AppendedTyped DEF QueryFail
  <2>3. last' \in [q : Asks, n : 0..MaxRows] /\ told' = "nothing"
    BY SessionAssumption DEF QueryFail, NoAnswer, Asks
  <2> QED BY <2>2, <2>3 DEF ResultTyped, ResultSets
<1>6. CASE \E n, m \in 0..MaxRows : RunOk(n, m)
  <2> PICK n \in 0..MaxRows, m \in 0..MaxRows : RunOk(n, m)  BY <1>6
  <2>1. asked' \in Asks
    BY SessionAssumption DEF RunOk, Ask, Asks, LinkTyped
  <2>2. LET r == Appended(rs, asked', m)
        IN  /\ r \in ResultSets /\ r.index = rs.index
            /\ Len(r.data) = Len(rs.data) + m
    BY <1>0, <2>1, AppendedTyped
  <2>5. /\ rs' \in ResultSets /\ rs'.count = Len(rs'.data) /\ rs'.index = rs.index
        /\ Len(rs'.data) = Len(rs.data) + m
    BY <2>2, CountTyped DEF RunOk
  <2>3. last' \in [q : Asks, n : 0..MaxRows] /\ told' = "nothing"
    BY <2>1 DEF RunOk, Answered
  <2>4. rs'.index \in -1..rs'.count
    BY <1>0, <2>5, SessionAssumption DEF ResultTyped, ResultSets
  <2> QED BY <2>3, <2>4, <2>5 DEF ResultTyped, ResultSets
<1>7. CASE NextRow
  <2>1. /\ rs' = Advance(rs) /\ last' = last /\ told' \in {"row", "end"}
    BY <1>7 DEF NextRow
  <2>2. /\ rs' \in ResultSets /\ rs'.count <= Len(rs'.data) /\ rs'.index \in -1..rs'.count
    BY <1>0, <2>1, AdvanceTyped DEF ResultTyped, ResultSets, HasNext
  <2> QED BY <2>1, <2>2 DEF ResultTyped, ResultSets
<1> QED BY ResultCases, <1>1, <1>2, <1>3, <1>4, <1>5, <1>6, <1>7

-----------------------------------------------------------------------------
LEMMA LinkStep ==
  ASSUME LinkTyped, [Next]_vars
  PROVE  LinkTyped'
<1> USE SessionAssumption DEF LinkTyped, Asks, vars, borrowing
<1>1. CASE PoolStep
  BY <1>1 DEF PoolStep, Borrow, GiveBack, Delete, Closed
<1>2. CASE Begin \/ Finish
  BY <1>2 DEF Begin, Finish
<1>3. CASE QueryStep
  BY <1>3 DEF QueryStep, QueryOk, QueryFail, RunOk, RunNone, Exec, NextRow, Ask
<1>4. CASE PrepareStep
  <2>1. CASE \E n \in 0..MaxParams, ok \in BOOLEAN : Prepare(n, ok)
    BY <2>1 DEF Prepare, Ask
  <2>2. CASE \E v \in Values : AddBindValue(v) \/ AddRefused(v)
    BY <2>2 DEF AddBindValue, AddRefused
  <2> QED BY <1>4, <2>1, <2>2 DEF PrepareStep
<1>5. CASE Gone \/ UNCHANGED vars
  BY <1>5 DEF Gone
<1> QED BY <1>1, <1>2, <1>3, <1>4, <1>5 DEF Next

SessionInv == LinkTyped /\ StmtInv /\ ResultTyped

LEMMA InitInv == Init => SessionInv
<1> SUFFICES ASSUME Init PROVE SessionInv
  OBVIOUS
<1>1. LinkTyped
  BY SessionAssumption DEF Init, LinkTyped, Asks
<1>2. StmtInv
  <2>1. /\ sql \in Asks /\ stmt = NoStmt /\ unfinal = {} /\ accepted = FALSE /\ alive = TRUE
        /\ args = <<>> /\ given = <<>> /\ denied = {} /\ nb \in 0..MaxParams
    BY SessionAssumption DEF Init, Asks
  <2>2. StmtTyped
    <3>1. args \in Seq({Unset} \cup Values) /\ given \in Seq({Unset} \cup Values)
      BY <2>1
    <3>2. unfinal \subseteq Asks \ {0} /\ accepted \in BOOLEAN
      BY <2>1
    <3> QED BY <2>1, <3>1, <3>2 DEF StmtTyped
  <2> QED BY <2>1, <2>2 DEF StmtInv, StatementSound, ClosedUnprepared
<1>3. EmptySet \in ResultSets /\ NoAnswer \in [q : Asks, n : 0..MaxRows]
  BY SessionAssumption DEF EmptySet, ResultSets, NoRow, RowSet, NoAnswer, Asks
<1>4. ResultTyped
  BY <1>3 DEF Init, ResultTyped, EmptySet, ResultSets
<1> QED BY <1>1, <1>2, <1>4 DEF SessionInv

\* The inductive invariant that needs no assumption on the callers.
THEOREM SessionKeeps == Spec => []SessionInv
<1>1. SessionInv /\ [Next]_vars => SessionInv'
  BY LinkStep, StmtStep, ResultTypeStep DEF SessionInv
<1> QED BY InitInv, <1>1, PTL DEF Spec

\* The session's variables stay in their domains (CDBSQLiteConnect.h and
\* CDBSQLiteResultSet.h), whatever fails.
THEOREM TypeCorrect == Spec => []TypeOK
<1>1. SessionInv => TypeOK
  BY DEF SessionInv, StmtInv, TypeOK
<1> QED BY SessionKeeps, <1>1, PTL

\* m_statement is not finalised while it is used, and m_sql is its text
\* (CDBSQLiteConnect.cpp:175-183).
THEOREM StatementsSound == Spec => []StatementSound
<1>1. SessionInv => StatementSound
  BY DEF SessionInv, StmtInv
<1> QED BY SessionKeeps, <1>1, PTL

\* Where addBindValue returned 0 the statement runs with the caller's value
\* (CDBSQLiteConnect.cpp:320-341), however it was run and refused before, as
\* long as the caller binds anew after exec(), which wipes the values out.
THEOREM ArgumentsKept == ASSUME Rebinds PROVE Spec => []ArgumentsArrive
<1>1. SessionInv => ArgumentsArrive
  BY DEF SessionInv, StmtInv, BoundSoFar, Runnable, ArgumentsArrive
<1> QED BY SessionKeeps, <1>1, PTL

\* The handle is closed and its transaction ended with the connection if no
\* prepare ever succeeded on it; HandleClosed without that condition is what
\* the order of close and finalise breaks (CDBSQLiteConnect.cpp:32-42).
THEOREM UnpreparedClosed == Spec => []ClosedUnprepared
<1>1. SessionInv => ClosedUnprepared
  BY DEF SessionInv, StmtInv
<1> QED BY SessionKeeps, <1>1, PTL

-----------------------------------------------------------------------------
\* The answer, its size and the contract RowCursor.

\* No prepared query follows another answer, and no step fails after a row.
Regular == ~Again /\ ~StepsFail

\* What next() has told, the rows and their number agree, and nothing is left
\* of them when the connection goes back.
CursorInv ==
  /\ rs.count = last.n
  /\ rs.count # 0 => rs.data = Rows(last.q, last.n)
  /\ rs.count = 0 => rs.index = -1
  /\ told = "nothing" => rs.index = -1
  /\ told = "row" => /\ rs.index \in 0..(rs.count - 1)
                     /\ rs.tmp = [q |-> last.q, k |-> rs.index + 1]
  /\ holder = Nobody => rs.data = <<>> /\ last = NoAnswer /\ told = "nothing"

\* A result set with the rows of a whole answer, direct or prepared.
LEMMA WholeAnswer ==
  ASSUME LinkTyped, NEW r \in ResultSets, r.data = <<>>, r.index = -1,
         NEW n \in 0..MaxRows, Ask
  PROVE  LET r1 == Count(Appended(r, asked', n))
         IN  /\ r1.count = n /\ r1.index = -1
             /\ r1.data = Rows(asked', n)
<1>1. asked' \in Asks
  BY SessionAssumption DEF Ask, Asks, LinkTyped
<1> DEFINE a == Appended(r, asked', n)
<1>2. /\ a \in ResultSets /\ a.index = -1 /\ a.data = Rows(asked', n)
  BY <1>1, AppendedTyped
<1>3. Len(Rows(asked', n)) = n
  BY <1>1, RowsTyped
<1> HIDE DEF a
<1>4. Count(a).count = n /\ Count(a).index = -1 /\ Count(a).data = Rows(asked', n)
  BY <1>2, <1>3, CountTyped
<1> QED BY <1>4 DEF a

LEMMA CursorStep ==
  ASSUME Regular, LinkTyped, ResultTyped, CursorInv, [Next]_vars
  PROVE  CursorInv'
<1>0. /\ rs \in ResultSets /\ Clear(rs) \in ResultSets
      /\ Clear(rs).data = <<>> /\ Clear(rs).count = 0 /\ Clear(rs).index = -1
  BY ClearTyped DEF ResultTyped, ResultSets
<1>1. CASE UNCHANGED <<holder, results>>
  BY <1>1 DEF results, CursorInv
<1>2. CASE \E u \in Users : Borrow(u)
  BY <1>2, SessionAssumption DEF Borrow, results, CursorInv
<1>3. CASE GiveBack \/ Delete
  BY <1>0, <1>3 DEF GiveBack, Delete, CursorInv, NoAnswer
<1>4. CASE \E n \in 0..MaxRows : QueryOk(n)
  <2> PICK n \in 0..MaxRows : QueryOk(n)  BY <1>4
  <2>1. rs'.count = n /\ rs'.index = -1 /\ rs'.data = Rows(asked', n)
    BY <1>0, WholeAnswer DEF QueryOk
  <2>2. /\ last' = [q |-> asked', n |-> n] /\ told' = "nothing"
        /\ holder' = holder /\ holder # Nobody
    BY DEF QueryOk, Answered, Ask, borrowing
  <2> QED BY <2>1, <2>2 DEF CursorInv
<1>5. CASE \E n \in 0..MaxRows : QueryFail(n)
  <2> PICK n \in 0..MaxRows : QueryFail(n)  BY <1>5
  <2>1. asked' \in Asks
    BY SessionAssumption DEF QueryFail, Ask, Asks, LinkTyped
  <2>2. rs'.count = 0 /\ rs'.index = -1
    BY <1>0, <2>1, AppendedTyped DEF QueryFail
  <2>3. last' = NoAnswer /\ told' = "nothing" /\ holder' = holder /\ holder # Nobody
    BY DEF QueryFail, Ask, borrowing
  <2> QED BY <2>2, <2>3 DEF CursorInv, NoAnswer
<1>6. CASE \E n, m \in 0..MaxRows : RunOk(n, m)
  <2> PICK n \in 0..MaxRows, m \in 0..MaxRows : RunOk(n, m)  BY <1>6
  <2>1. m = n /\ rs.data = <<>>
    BY SessionAssumption DEF RunOk, Regular
  <2>2. rs.index = -1
    BY <1>0, <2>1 DEF CursorInv, ResultTyped, ResultSets
  <2>3. rs'.count = n /\ rs'.index = -1 /\ rs'.data = Rows(asked', n)
    BY <1>0, <2>1, <2>2, WholeAnswer DEF RunOk
  <2>4. /\ last' = [q |-> asked', n |-> n] /\ told' = "nothing"
        /\ holder' = holder /\ holder # Nobody
    BY DEF RunOk, Answered, Ask, borrowing
  <2> QED BY <2>3, <2>4 DEF CursorInv
<1>7. CASE NextRow
  <2>1. /\ rs' = Advance(rs) /\ last' = last /\ holder' = holder /\ holder # Nobody
        /\ told' = IF HasNext(rs) THEN "row" ELSE "end"
    BY <1>7 DEF NextRow, borrowing
  <2>2. /\ rs'.data = rs.data /\ rs'.count = rs.count
        /\ HasNext(rs) => rs'.index = rs.index + 1 /\ rs'.tmp = rs.data[rs.index + 2]
        /\ ~HasNext(rs) => rs'.index = IF rs.count = 0 THEN rs.index ELSE rs.count
    BY <1>0, <2>1, AdvanceTyped DEF ResultTyped
  <2>3. rs.index \in -1..rs.count /\ rs.count \in Nat
    BY DEF ResultTyped
  <2>4. CASE HasNext(rs)
    <3>1. rs.count # 0 /\ rs.index + 2 \in 1..last.n /\ rs.index + 1 \in 0..(rs.count - 1)
      BY <2>3, <2>4 DEF HasNext, CursorInv
    <3>2. rs.data[rs.index + 2] = [q |-> last.q, k |-> rs.index + 2]
      BY <3>1, RowsTyped DEF CursorInv, ResultTyped
    <3>3. rs'.index + 1 = rs.index + 2
      BY <2>2, <2>3, <2>4
    <3> QED BY <2>1, <2>2, <2>4, <3>1, <3>2, <3>3 DEF CursorInv
  <2>5. CASE ~HasNext(rs)
    BY <2>1, <2>2, <2>5 DEF CursorInv
  <2> QED BY <2>4, <2>5
<1> QED BY ResultCases, <1>1, <1>2, <1>3, <1>4, <1>5, <1>6, <1>7

LEMMA CursorKept == ASSUME Regular PROVE Spec => []CursorInv
<1>1. Init => CursorInv
  BY DEF Init, CursorInv, EmptySet, NoAnswer
<1>2. SessionInv /\ CursorInv /\ [Next]_vars => CursorInv'
  BY CursorStep DEF SessionInv
<1> QED BY SessionKeeps, <1>1, <1>2, PTL DEF Spec

\* size() is the number of rows of the last answer (CDBConnect.h:116), as long
\* as a prepared query is the first answer of its CDBQuery and no step fails
\* half way.
THEOREM SizesExact == ASSUME Regular PROVE Spec => []SizeExact
<1>1. CursorInv => SizeExact
  BY DEF CursorInv, SizeExact
<1> QED BY CursorKept, <1>1, PTL

LEMMA CursorMaps ==
  ASSUME Regular, LinkTyped, ResultTyped, CursorInv, [Next]_vars
  PROVE  [Cursor!Next]_(Cursor!vars)
<1>0. /\ rs \in ResultSets /\ rs.count \in Nat /\ rs.index \in -1..rs.count
      /\ Clear(rs) \in ResultSets /\ Clear(rs).count = 0 /\ Clear(rs).index = -1
  BY ClearTyped DEF ResultTyped, ResultSets
<1>1. CursorInv'
  BY CursorStep
<1>2. CASE /\ UNCHANGED <<holder, results>>
           /\ asked' = asked \/ (holder # Nobody /\ asked' = asked + 1)
  BY <1>2 DEF results, Position, Cursor!Next, Cursor!Unanswered, Cursor!Kept, Cursor!vars
<1>3. CASE \E u \in Users : Borrow(u)
  <2>1. holder = Nobody /\ holder' \in Users /\ UNCHANGED <<results, asked>>
    BY <1>3 DEF Borrow
  <2>2. Cursor!Take
    BY <2>1 DEF results, Position, Cursor!Take, Cursor!Kept
  <2> QED BY <2>2 DEF Cursor!Next
<1>4. CASE GiveBack
  <2>1. Cursor!Leave
    BY <1>0, <1>4 DEF GiveBack, Position, NoAnswer, NoRow, Cursor!Leave, Cursor!Emptied,
       Cursor!NoAnswer, Cursor!NoRow
  <2> QED BY <2>1 DEF Cursor!Next
<1>5. CASE Delete
  BY <1>0, <1>5 DEF Delete, CursorInv, Position, NoAnswer, Cursor!vars
<1>6. ASSUME NEW n \in 0..MaxRows, Ask, holder' = holder, Answered(n),
             rs'.index = -1, rs'.count = n
      PROVE  Cursor!Next
  <2>1. n \in Nat
    BY SessionAssumption
  <2>2. Cursor!Answer
    BY <1>6, <2>1 DEF Ask, Answered, Position, NoRow, Cursor!Answer, Cursor!NoRow
  <2> QED BY <2>2 DEF Cursor!Next
<1>7. CASE \E n \in 0..MaxRows : QueryOk(n)
  <2> PICK n \in 0..MaxRows : QueryOk(n)  BY <1>7
  <2>1. Ask /\ holder' = holder /\ Answered(n)
    BY DEF QueryOk, borrowing
  <2>2. rs'.index = -1 /\ rs'.count = n
    BY <1>1, <2>1 DEF CursorInv, Answered
  <2> QED BY <1>6, <2>1, <2>2
<1>8. CASE \E n, m \in 0..MaxRows : RunOk(n, m)
  <2> PICK n \in 0..MaxRows, m \in 0..MaxRows : RunOk(n, m)  BY <1>8
  <2>1. Ask /\ holder' = holder /\ Answered(n)
    BY DEF RunOk, borrowing
  <2>2. rs'.index = -1 /\ rs'.count = n
    BY <1>1, <2>1 DEF CursorInv, Answered
  <2> QED BY <1>6, <2>1, <2>2
<1>9. CASE \E n \in 0..MaxRows : QueryFail(n)
  <2>1. Ask /\ holder' = holder /\ last' = NoAnswer /\ told' = "nothing"
    BY <1>9 DEF QueryFail, borrowing
  <2>2. rs'.index = -1 /\ rs'.count = 0
    BY <1>1, <2>1 DEF CursorInv, NoAnswer
  <2>3. Cursor!Unanswered
    BY <2>1, <2>2 DEF Ask, Position, NoAnswer, NoRow, Cursor!Unanswered, Cursor!Emptied,
       Cursor!NoAnswer, Cursor!NoRow
  <2> QED BY <2>3 DEF Cursor!Next
<1>10. CASE NextRow
  <2>1. /\ rs' = Advance(rs) /\ UNCHANGED <<holder, last, asked>> /\ holder # Nobody
        /\ told' = IF HasNext(rs) THEN "row" ELSE "end"
    BY <1>10 DEF NextRow, borrowing
  <2>2. /\ rs'.count = rs.count
        /\ HasNext(rs) => rs'.index = rs.index + 1
        /\ ~HasNext(rs) => rs'.index = IF rs.count = 0 THEN rs.index ELSE rs.count
    BY <1>0, <2>1, AdvanceTyped DEF ResultTyped
  <2>3. CASE HasNext(rs)
    <3>1. /\ Position(rs) = rs.index + 1 /\ Position(rs)' = rs.index + 2
          /\ rs.index + 1 < last.n
      BY <1>0, <2>2, <2>3 DEF HasNext, Position, CursorInv
    <3>2. told' = "row" /\ rs'.tmp = [q |-> last.q, k |-> rs.index + 2]
      BY <1>0, <1>1, <2>1, <2>2, <2>3 DEF CursorInv
    <3>3. rs.index + 2 = rs.index + 1 + 1
      BY <1>0
    <3>4. Cursor!Step
      BY <2>1, <3>1, <3>2, <3>3 DEF Cursor!Step
    <3> QED BY <3>4 DEF Cursor!Next
  <2>4. CASE ~HasNext(rs)
    <3>1. Position(rs) = last.n /\ Position(rs)' = last.n
      BY <1>0, <2>2, <2>4 DEF HasNext, Position, CursorInv
    <3>2. Cursor!End
      BY <2>1, <2>4, <3>1 DEF NoRow, Cursor!End, Cursor!NoRow
    <3> QED BY <3>2 DEF Cursor!Next
  <2> QED BY <2>3, <2>4
<1> QED BY ResultCases, <1>2, <1>3, <1>4, <1>5, <1>7, <1>8, <1>9, <1>10

\* What a CDBQuery sees of query() and next() is the contract RowCursor, under
\* the same two conditions.
THEOREM SessionImplementsCursor == ASSUME Regular PROVE Spec => ImplementsCursor
<1>1. Init => Cursor!Init
  BY DEF Init, EmptySet, NoAnswer, NoRow, Position, Cursor!Init, Cursor!NoAnswer, Cursor!NoRow
<1>2. SessionInv /\ CursorInv /\ [Next]_vars => [Cursor!Next]_(Cursor!vars)
  BY CursorMaps DEF SessionInv
<1> QED BY SessionKeeps, CursorKept, <1>1, <1>2, PTL DEF Spec, ImplementsCursor, Cursor!Spec

\* Calls of next() give the rows of an answer from the first on, none left out
\* or given twice (CDBConnect.h:121-125).
THEOREM NextInOrder == ASSUME Regular PROVE Spec => Cursor!InOrder
  BY SessionImplementsCursor, Cursor!RowsInOrder, PTL DEF ImplementsCursor

\* A loop over next() ends after the last row and not before.
THEOREM EndsAfterLast == ASSUME Regular PROVE Spec => Cursor!EndAfterLast
  BY SessionImplementsCursor, Cursor!EndsAfterLast, PTL DEF ImplementsCursor

\* The getters never read a row of a statement that was replaced or that failed.
THEOREM RowsOfAnswer == ASSUME Regular PROVE Spec => []Cursor!RowOfAnswer
  BY SessionImplementsCursor, Cursor!RowsOfAnswer, PTL DEF ImplementsCursor

\* The next borrower finds no answer, row or position of the one before.
THEOREM NothingLeftBehind == ASSUME Regular PROVE Spec => []Cursor!NothingLeft
  BY SessionImplementsCursor, Cursor!NothingLeftBehind, PTL DEF ImplementsCursor

-----------------------------------------------------------------------------
\* Prepared queries in any order: the rows before the last answer's are stale,
\* but the answer itself is whole.

\* The last rows of the result set are those of the last answer.
AnswerAtEnd ==
  holder # Nobody =>
    /\ rs.count >= last.n
    /\ \A k \in 1..last.n : rs.data[rs.count - last.n + k] = [q |-> last.q, k |-> k]

EndInv == AnswerAtEnd /\ (holder = Nobody => last = NoAnswer)

\* The rows that are appended come after those that were there.
LEMMA AppendedRows ==
  ASSUME NEW r \in ResultSets, NEW q \in Asks, NEW n \in 0..MaxRows, NEW k \in 1..n
  PROVE  Count(Appended(r, q, n)).data[Count(Appended(r, q, n)).count - n + k]
           = [q |-> q, k |-> k]
<1>1. /\ Rows(q, n) \in Seq(RowSet) /\ Len(Rows(q, n)) = n
      /\ Rows(q, n)[k] = [q |-> q, k |-> k]
  BY RowsTyped
<1>2. r.data \in Seq(RowSet) /\ Len(r.data) \in Nat /\ n \in Nat /\ k \in Nat
  BY SessionAssumption DEF ResultSets
<1>3. (r.data \o Rows(q, n))[Len(r.data) + k] = Rows(q, n)[k]
  BY <1>1, <1>2
<1> DEFINE a == Appended(r, q, n)
<1>4. a \in ResultSets /\ Len(a.data) = Len(r.data) + n
  BY AppendedTyped
<1>5. a.data = r.data \o Rows(q, n)
  BY DEF Appended, ResultSets
<1> HIDE DEF a
<1>6. Count(a).data = a.data /\ Count(a).count = Len(a.data)
  BY <1>4, CountTyped
<1>7. Count(a).count - n + k = Len(r.data) + k
  BY <1>2, <1>4, <1>6
<1> QED BY <1>1, <1>3, <1>5, <1>6, <1>7 DEF a

LEMMA EndStep ==
  ASSUME ~StepsFail, LinkTyped, ResultTyped, EndInv, [Next]_vars
  PROVE  EndInv'
<1> USE DEF EndInv, AnswerAtEnd
<1>0. /\ rs \in ResultSets /\ Clear(rs) \in ResultSets /\ Nobody \notin Users
  BY ClearTyped, SessionAssumption DEF ResultTyped, ResultSets
<1>1. CASE UNCHANGED <<holder, results>>
  BY <1>1 DEF results
<1>2. CASE \E u \in Users : Borrow(u)
  <2>1. /\ holder = Nobody /\ holder' # Nobody /\ UNCHANGED <<rs, last>>
        /\ last.n = 0 /\ rs.count \in Nat
    BY <1>0, <1>2 DEF Borrow, results, NoAnswer, ResultSets
  <2> QED BY <2>1
<1>3. CASE GiveBack \/ Delete
  BY <1>3 DEF GiveBack, Delete
\* An answer of n rows that are appended to what r has.
<1>4. ASSUME NEW r \in ResultSets, NEW n \in 0..MaxRows, Ask, Answered(n), holder' = holder,
             rs' = Count(Appended(r, asked', n))
      PROVE  EndInv'
  <2>1. asked' \in Asks /\ holder # Nobody
    BY <1>4, SessionAssumption DEF Ask, Asks, LinkTyped
  <2>2. /\ Appended(r, asked', n) \in ResultSets
        /\ Len(Appended(r, asked', n).data) = Len(r.data) + n
    BY <2>1, AppendedTyped
  <2>3. rs'.count = Len(r.data) + n /\ Len(r.data) \in Nat
    BY <1>4, <2>2, CountTyped DEF ResultSets
  <2>4. last'.q = asked' /\ last'.n = n
    BY <1>4 DEF Answered
  <2>5. \A k \in 1..n : rs'.data[rs'.count - n + k] = [q |-> asked', k |-> k]
    BY <1>4, <2>1, AppendedRows
  <2>6. rs'.count >= n
    BY <2>3, SessionAssumption
  <2> QED BY <1>4, <2>1, <2>4, <2>5, <2>6
<1>5. CASE \E n \in 0..MaxRows : QueryOk(n)
  BY <1>0, <1>4, <1>5 DEF QueryOk, borrowing
<1>6. CASE \E n \in 0..MaxRows : QueryFail(n)
  <2> PICK n \in 0..MaxRows : QueryFail(n)  BY <1>6
  <2>1. asked' \in Asks
    BY SessionAssumption DEF QueryFail, Ask, Asks, LinkTyped
  <2>2. rs' \in ResultSets
    BY <1>0, <2>1, AppendedTyped DEF QueryFail
  <2>3. last'.n = 0 /\ holder' = holder /\ holder # Nobody
    BY DEF QueryFail, NoAnswer, Ask, borrowing
  <2> QED BY <2>2, <2>3 DEF ResultSets
<1>7. CASE \E n, m \in 0..MaxRows : RunOk(n, m)
  <2> PICK n \in 0..MaxRows, m \in 0..MaxRows : RunOk(n, m)  BY <1>7
  <2>1. m = n
    BY SessionAssumption DEF RunOk
  <2>2. Ask /\ Answered(n) /\ holder' = holder /\ rs' = Count(Appended(rs, asked', n))
    BY <2>1 DEF RunOk, borrowing
  <2> QED BY <1>0, <1>4, <2>2
<1>8. CASE NextRow
  <2>1. /\ rs' = Advance(rs) /\ last' = last /\ holder' = holder
    BY <1>8 DEF NextRow, borrowing
  <2>2. rs'.data = rs.data /\ rs'.count = rs.count
    BY <1>0, <2>1, AdvanceTyped DEF ResultTyped
  <2> QED BY <2>1, <2>2
<1> QED BY ResultCases, <1>1, <1>2, <1>3, <1>5, <1>6, <1>7, <1>8

\* However direct and prepared queries follow each other, size() never counts
\* fewer rows than the last answer has, and the last ones are the answer's,
\* each once and in order: what SizeExact misses on a second prepared query is
\* that older rows come first (CDBSQLiteResultSet.cpp:21-51).
THEOREM AnswersWhole == ASSUME ~StepsFail PROVE Spec => []AnswerAtEnd
<1>1. Init => EndInv
  BY DEF Init, EndInv, AnswerAtEnd
<1>2. SessionInv /\ EndInv /\ [Next]_vars => EndInv'
  BY EndStep DEF SessionInv
<1>3. EndInv => AnswerAtEnd
  BY DEF EndInv
<1> QED BY SessionKeeps, <1>1, <1>2, <1>3, PTL DEF Spec
=============================================================================
