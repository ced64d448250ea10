-------------------------- MODULE PgsqlSessionProofs --------------------------
(***************************************************************************)
(* What a PostgreSQL session keeps for every number of borrowers,           *)
(* statements and rows: its types, the ownership of the PGresult, and the   *)
(* contract RowCursor, the last two as long as no prepared query is         *)
(* answered.                                                                *)
(***************************************************************************)
EXTENDS PgsqlSession, TLAPS

\* What a step of the session can be, one disjunct per action.
LEMMA StepCases ==
  ASSUME [Next]_vars
  PROVE  \/ \E u \in Users : Borrow(u)
         \/ \E u \in Users : BorrowRepaired(u)
         \/ \E u \in Users : BorrowFail(u)
         \/ GiveBack
         \/ Delete
         \/ Drop
         \/ \E n \in 0..MaxRows : QueryOk(n)
         \/ QueryFail
         \/ \E insert, ok \in BOOLEAN : ExecSql(insert, ok)
         \/ Prepare
         \/ \E ok \in BOOLEAN : ExecPrepared(ok)
         \/ \E n \in 0..MaxRows, ok \in BOOLEAN : QueryPrepared(n, ok)
         \/ NextRow
         \/ UNCHANGED vars
  BY DEF Next, PoolStep, QueryStep, ExecStep, Gone

-----------------------------------------------------------------------------
\* PQprepare leaves the connection and its names in their domains.
LEMMA NameTyped ==
  ASSUME TypeOK, NEW name \in {"1112", "stmtPqsql"}, NEW ok \in BOOLEAN,
         PrepareName(name, ok)
  PROVE  /\ handle' \in {"none", "good", "cut", "bad"}
         /\ names' \subseteq {"1112", "stmtPqsql"}
  BY DEF TypeOK, PrepareName, Noticed

\* The values the result set and the answer take: empty, or just shown.
RowSets == [res : Asks, count : 0..MaxRows, index : -1..MaxRows]
Answers == [q : Asks, n : 0..MaxRows]

LEMMA ShownTyped ==
  ASSUME NEW q \in Asks, NEW n \in 0..MaxRows
  PROVE  /\ [res |-> q, count |-> n, index |-> -1] \in RowSets
         /\ -1 <= n
         /\ [q |-> q, n |-> n] \in Answers
<1>1. -1 \in -1..MaxRows /\ -1 <= n  BY SessionAssumption
<1> QED BY <1>1 DEF RowSets, Answers

LEMMA NothingTyped ==
  EmptySet \in RowSets /\ EmptySet.index <= EmptySet.count /\ NoAnswer \in Answers
<1> 0 \in Asks /\ 0 \in 0..MaxRows /\ -1 \in -1..MaxRows  BY SessionAssumption DEF Asks
<1> QED BY DEF EmptySet, NoAnswer, RowSets, Answers

LEMMA TypeStep ==
  ASSUME TypeOK, [Next]_vars
  PROVE  TypeOK'
<1> USE SessionAssumption DEF TypeOK, RowSets, Answers, vars, borrowing, link, results
<1>0. Asks \subseteq Int /\ asked \in Asks /\ (asked < MaxAsks => asked + 1 \in Asks \ {0})
  BY DEF Asks
<1>1. CASE \E u \in Users : Borrow(u)
  BY <1>1 DEF Borrow
<1>2. CASE \E u \in Users : BorrowRepaired(u)
  BY <1>2 DEF BorrowRepaired
<1>3. CASE \E u \in Users : BorrowFail(u)
  BY <1>3 DEF BorrowFail
<1>4. CASE GiveBack
  BY <1>4, NothingTyped DEF GiveBack, Cleared, Freed
<1>5. CASE Delete
  BY <1>5, NothingTyped DEF Delete, Cleared, Freed
<1>6. CASE Drop
  BY <1>6 DEF Drop
<1>7. CASE \E n \in 0..MaxRows : QueryOk(n)
  <2> PICK n \in 0..MaxRows : QueryOk(n)  BY <1>7
  <2>1. asked' \in Asks \ {0}
    BY <1>0 DEF QueryOk, Ask
  <2>2. /\ rs' = [res |-> asked', count |-> n, index |-> -1]
        /\ rs' \in RowSets
        /\ rs'.index <= rs'.count
    BY <2>1, ShownTyped DEF QueryOk, Shown, Cleared, EmptySet
  <2>3. last' \in Answers /\ told' = "nothing"
    BY <2>1 DEF QueryOk, Shown
  <2> QED BY <2>1, <2>2, <2>3 DEF QueryOk, Freed
<1>8. CASE QueryFail
  BY <1>8, <1>0 DEF QueryFail, Ask, Noticed
<1>9. CASE \E insert, ok \in BOOLEAN : ExecSql(insert, ok)
  BY <1>9, <1>0 DEF ExecSql, Ask, Noticed
<1>10. CASE Prepare
  BY <1>10, <1>0 DEF Prepare, Ask
<1>11. CASE \E ok \in BOOLEAN : ExecPrepared(ok)
  <2> PICK ok \in BOOLEAN : ExecPrepared(ok)  BY <1>11
  <2>1. handle' \in {"none", "good", "cut", "bad"} /\ names' \subseteq {"1112", "stmtPqsql"}
    BY NameTyped DEF ExecPrepared
  <2> QED BY <2>1, <1>0 DEF ExecPrepared, Ask
<1>12. CASE \E n \in 0..MaxRows, ok \in BOOLEAN : QueryPrepared(n, ok)
  <2> PICK n \in 0..MaxRows, ok \in BOOLEAN : QueryPrepared(n, ok)  BY <1>12
  <2>1. handle' \in {"none", "good", "cut", "bad"} /\ names' \subseteq {"1112", "stmtPqsql"}
    BY NameTyped DEF QueryPrepared
  <2>2. asked' \in Asks \ {0}
    BY <1>0 DEF QueryPrepared, Ask
  <2>3. CASE ok
    <3>1. /\ rs' = [res |-> asked', count |-> n, index |-> -1]
          /\ rs' \in RowSets
          /\ rs'.index <= rs'.count
      BY <2>2, <2>3, ShownTyped DEF QueryPrepared, Shown, Cleared, EmptySet
    <3>2. last' \in Answers /\ told' = "nothing"
      BY <2>2, <2>3 DEF QueryPrepared, Shown
    <3> QED BY <2>1, <2>2, <2>3, <3>1, <3>2 DEF QueryPrepared, Freed
  <2>4. CASE ~ok
    BY <2>1, <2>2, <2>4 DEF QueryPrepared
  <2> QED BY <2>3, <2>4
<1>13. CASE NextRow
  BY <1>13 DEF NextRow, Advance, HasNext
<1>14. CASE UNCHANGED vars
  BY <1>14
<1> QED
  BY StepCases, <1>1, <1>2, <1>3, <1>4, <1>5, <1>6, <1>7, <1>8, <1>9, <1>10,
     <1>11, <1>12, <1>13, <1>14

\* The session's variables stay in their domains (CDBPgsqlConnect.h and
\* CDBPgsqlResultSet.h), prepared queries included.
THEOREM TypeCorrect == Spec => []TypeOK
<1>1. Init => TypeOK
  BY SessionAssumption DEF Init, TypeOK, Asks, EmptySet, NoAnswer
<1>2. TypeOK /\ [Next]_vars => TypeOK'
  BY TypeStep
<1> QED BY <1>1, <1>2, PTL DEF Spec

-----------------------------------------------------------------------------
\* What changes the result set, or is seen of it: the other actions leave all
\* of it alone.
LEMMA ResultCases ==
  ASSUME ~Prepared, [Next]_vars
  PROVE  \/ /\ UNCHANGED <<results, asked>>
            /\ holder' = holder \/ (holder = Nobody /\ holder' \in Users)
         \/ GiveBack
         \/ Delete
         \/ \E n \in 0..MaxRows : QueryOk(n)
         \/ holder # Nobody /\ asked' = asked + 1 /\ UNCHANGED <<holder, results>>
         \/ NextRow
<1> USE DEF vars, borrowing, link, results
<1>1. CASE \E u \in Users : Borrow(u) \/ BorrowRepaired(u) \/ BorrowFail(u)
  <2> PICK u \in Users : Borrow(u) \/ BorrowRepaired(u) \/ BorrowFail(u)  BY <1>1
  <2>1. CASE Borrow(u)  BY <2>1 DEF Borrow
  <2>2. CASE BorrowRepaired(u)  BY <2>2 DEF BorrowRepaired
  <2>3. CASE BorrowFail(u)  BY <2>3 DEF BorrowFail
  <2> QED BY <2>1, <2>2, <2>3
<1>2. CASE QueryFail \/ Prepare \/ \E insert, ok \in BOOLEAN : ExecSql(insert, ok)
  BY <1>2 DEF QueryFail, Prepare, ExecSql, Ask
<1>3. CASE \E ok \in BOOLEAN : ExecPrepared(ok)
  BY <1>3 DEF ExecPrepared, Ask
<1>5. CASE \E n \in 0..MaxRows, ok \in BOOLEAN : QueryPrepared(n, ok)
  <2> PICK n \in 0..MaxRows, ok \in BOOLEAN : QueryPrepared(n, ok)  BY <1>5
  <2>1. ~ok  BY DEF QueryPrepared
  <2> QED BY <2>1 DEF QueryPrepared, Ask
<1>4. CASE Drop \/ UNCHANGED vars
  BY <1>4 DEF Drop
<1> QED
  BY StepCases, <1>1, <1>2, <1>3, <1>4, <1>5

LEMMA OwnedStep ==
  ASSUME ~Prepared, TypeOK, ResultOwned, [Next]_vars
  PROVE  ResultOwned'
<1> USE DEF TypeOK, ResultOwned, results, Asks, Cleared, Freed, EmptySet
<1>1. CASE UNCHANGED <<results, asked>> \/ UNCHANGED <<holder, results>>
  BY <1>1
<1>2. CASE GiveBack \/ Delete
  BY <1>2 DEF GiveBack, Delete
<1>3. CASE \E n \in 0..MaxRows : QueryOk(n)
  BY <1>3, SessionAssumption DEF QueryOk, Ask, Shown
<1>4. CASE NextRow
  BY <1>4 DEF NextRow, Advance
<1> QED BY ResultCases, <1>1, <1>2, <1>3, <1>4

\* While no prepared query is answered, the PGresult the result set points at
\* is the only one not freed (CDBPgsqlResultSet.cpp:41-59).
THEOREM ResultsOwned == ASSUME ~Prepared PROVE Spec => []ResultOwned
<1>1. Init => ResultOwned
  BY DEF Init, ResultOwned, EmptySet
<1>2. TypeOK /\ ResultOwned /\ [Next]_vars => ResultOwned'
  BY OwnedStep
<1> QED BY TypeCorrect, <1>1, <1>2, PTL DEF Spec

-----------------------------------------------------------------------------
\* What next() has said and the result set agree, and nothing of either is
\* left when the connection goes back.
CursorInv ==
  /\ rs.res = last.q /\ rs.count = last.n
  /\ rs.res = 0 => rs.count = 0 /\ rs.index = -1
  /\ holder = Nobody => rs = EmptySet /\ last = NoAnswer /\ told = "nothing"
  /\ told = "nothing" => rs.index = -1
  /\ told = "row" => rs.index \in 0..(rs.count - 1)

LEMMA CursorStep ==
  ASSUME ~Prepared, TypeOK, CursorInv, [Next]_vars
  PROVE  CursorInv'
<1> USE DEF TypeOK, CursorInv, results, Asks, Cleared, Freed, EmptySet, NoAnswer
<1>1. CASE /\ UNCHANGED <<results, asked>>
           /\ holder' = holder \/ (holder = Nobody /\ holder' \in Users)
  BY <1>1, SessionAssumption
<1>2. CASE GiveBack \/ Delete
  BY <1>2 DEF GiveBack, Delete
<1>3. CASE \E n \in 0..MaxRows : QueryOk(n)
  BY <1>3, SessionAssumption DEF QueryOk, Ask, Shown, borrowing
<1>4. CASE UNCHANGED <<holder, results>>
  BY <1>4
<1>5. CASE NextRow
  BY <1>5, SessionAssumption DEF NextRow, Advance, HasNext, borrowing
<1> QED BY ResultCases, <1>1, <1>2, <1>3, <1>4, <1>5

\* Every step of the session is one of the contract's, or none.
LEMMA CursorMaps ==
  ASSUME ~Prepared, TypeOK, CursorInv, [Next]_vars
  PROVE  [Cursor!Next]_(Cursor!vars)
<1> USE DEF TypeOK, CursorInv, results, Asks, EmptySet, NoAnswer, NoRow,
        Position, ReadRow, Cursor!vars, Cursor!NoAnswer, Cursor!NoRow
<1>1. CASE /\ UNCHANGED <<results, asked>>
           /\ holder' = holder \/ (holder = Nobody /\ holder' \in Users)
  BY <1>1 DEF Cursor!Next, Cursor!Take, Cursor!Kept
<1>2. CASE GiveBack
  BY <1>2 DEF GiveBack, Cleared, Cursor!Next, Cursor!Leave, Cursor!Emptied
<1>3. CASE Delete
  BY <1>3 DEF Delete, Cleared
<1>4. CASE \E n \in 0..MaxRows : QueryOk(n)
  <2> PICK n \in 0..MaxRows : QueryOk(n)  BY <1>4
  <2>1. last' \in [q : {asked'}, n : Nat] /\ n >= 0
    BY SessionAssumption DEF QueryOk, Shown
  <2>2. Cursor!Answer
    BY <2>1 DEF QueryOk, Ask, Shown, Cleared, borrowing, Cursor!Answer
  <2> QED BY <2>2 DEF Cursor!Next
<1>5. CASE holder # Nobody /\ asked' = asked + 1 /\ UNCHANGED <<holder, results>>
  BY <1>5 DEF Cursor!Next, Cursor!Unanswered, Cursor!Kept
<1>6. CASE NextRow /\ HasNext(rs)
  <2>1. Cursor!Step
    BY <1>6, SessionAssumption DEF NextRow, Advance, HasNext, borrowing, Cursor!Step
  <2> QED BY <2>1 DEF Cursor!Next
<1>7. CASE NextRow /\ ~HasNext(rs)
  <2>1. Cursor!End
    BY <1>7, SessionAssumption DEF NextRow, Advance, HasNext, borrowing, Cursor!End
  <2> QED BY <2>1 DEF Cursor!Next
<1> QED BY ResultCases, <1>1, <1>2, <1>3, <1>4, <1>5, <1>6, <1>7

\* While no prepared query is answered, a CDBQuery iterates over the rows of
\* its last direct query, each once and in order: every behaviour of the
\* session is one of the contract RowCursor.
THEOREM SessionImplementsCursor ==
  ASSUME ~Prepared PROVE Spec => ImplementsCursor
<1>1. Init => CursorInv /\ Cursor!Init
  BY DEF Init, CursorInv, EmptySet, NoAnswer, NoRow, Position,
         Cursor!Init, Cursor!NoAnswer, Cursor!NoRow
<1>2. TypeOK /\ CursorInv /\ [Next]_vars => CursorInv'
  BY CursorStep
<1>3. TypeOK /\ CursorInv /\ [Next]_vars => [Cursor!Next]_(Cursor!vars)
  BY CursorMaps
<1> QED BY TypeCorrect, <1>1, <1>2, <1>3, PTL DEF Spec, ImplementsCursor, Cursor!Spec

\* Calls of next() give the rows of an answer from the first on, none left out
\* or given twice (CDBConnect.h:121-125).
THEOREM NextInOrder == ASSUME ~Prepared PROVE Spec => Cursor!InOrder
  BY SessionImplementsCursor, Cursor!RowsInOrder, PTL DEF ImplementsCursor

\* A loop over next() ends after the last row and not before.
THEOREM EndsAfterLast == ASSUME ~Prepared PROVE Spec => Cursor!EndAfterLast
  BY SessionImplementsCursor, Cursor!EndsAfterLast, PTL DEF ImplementsCursor

\* The getters never read a row of a statement that was replaced or that failed.
THEOREM RowsOfAnswer == ASSUME ~Prepared PROVE Spec => []Cursor!RowOfAnswer
  BY SessionImplementsCursor, Cursor!RowsOfAnswer, PTL DEF ImplementsCursor

\* The next borrower finds no answer, row or position of the one before.
THEOREM NothingLeftBehind == ASSUME ~Prepared PROVE Spec => []Cursor!NothingLeft
  BY SessionImplementsCursor, Cursor!NothingLeftBehind, PTL DEF ImplementsCursor
=============================================================================
