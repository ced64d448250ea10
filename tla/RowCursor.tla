------------------------------- MODULE RowCursor -------------------------------
(***************************************************************************)
(* What CDBConnect.h:102-125 promises a CDBQuery of query() and next(),     *)
(* whichever driver is behind it: a statement that is answered replaces the *)
(* answer before it, next() then gives the rows of that answer, each once   *)
(* and in order, and false exactly after the last one; a statement that     *)
(* fails gives no rows of its own; and a connection that changes hands      *)
(* takes no answer along.                                                   *)
(*                                                                          *)
(* A statement is its number, a row the number of its statement and its     *)
(* place in the answer.  There are no handles, modes, buffers or counters:  *)
(* those are the drivers' (MysqlSession, SqliteSession, PgsqlSession).      *)
(* What a caller can rely on follows from the contract alone, and holds of  *)
(* every driver that is shown to implement it.                              *)
(***************************************************************************)
EXTENDS Naturals, TLAPS

CONSTANTS Users, Nobody

VARIABLES
  user,    \* the CDBQuery that has the connection, or Nobody
  asked,   \* statements so far
  answer,  \* the answer there is: its statement and its number of rows
  pos,     \* rows next() has given of it
  row,     \* the row the getters read after next() returned true
  told     \* what the last next() said of this answer

vars == <<user, asked, answer, pos, row, told>>

NoAnswer == [q |-> 0, n |-> 0]
NoRow    == [q |-> 0, k |-> 0]

Emptied == answer' = NoAnswer /\ pos' = 0 /\ row' = NoRow /\ told' = "nothing"
Kept    == UNCHANGED <<answer, pos, row, told>>

Init == /\ user = Nobody /\ asked = 0
        /\ answer = NoAnswer /\ pos = 0 /\ row = NoRow /\ told = "nothing"

Take ==
  /\ user = Nobody
  /\ user' \in Users
  /\ UNCHANGED asked /\ Kept

Leave ==
  /\ user # Nobody
  /\ user' = Nobody
  /\ UNCHANGED asked /\ Emptied

Answer ==
  /\ user # Nobody
  /\ asked' = asked + 1
  /\ answer' \in [q : {asked'}, n : Nat]
  /\ pos' = 0 /\ row' = NoRow /\ told' = "nothing"
  /\ UNCHANGED user

\* A statement that failed, or that has no answer.
Unanswered ==
  /\ user # Nobody
  /\ asked' = asked + 1
  /\ Kept \/ Emptied
  /\ UNCHANGED user

Step ==
  /\ user # Nobody
  /\ pos < answer.n
  /\ pos' = pos + 1
  /\ row' = [q |-> answer.q, k |-> pos + 1]
  /\ told' = "row"
  /\ UNCHANGED <<user, asked, answer>>

End ==
  /\ user # Nobody
  /\ pos = answer.n
  /\ row' = NoRow /\ told' = "end"
  /\ UNCHANGED <<user, asked, answer, pos>>

Next == Take \/ Leave \/ Answer \/ Unanswered \/ Step \/ End

Spec == Init /\ [][Next]_vars

-----------------------------------------------------------------------------
\* A connection nobody has keeps no answer, no row and no position for the next
\* CDBQuery that borrows it (CDBConnPool.cpp:174: clearQuery on the way back).
NothingLeft ==
  user = Nobody => answer = NoAnswer /\ pos = 0 /\ row = NoRow /\ told = "nothing"

\* While next() says there is a row the getters read one of the answer there is,
\* and never one of a statement that was replaced, failed or is still to come.
RowOfAnswer ==
  row # NoRow => /\ row.q = answer.q /\ row.q \in 1..asked
                 /\ row.k \in 1..answer.n

\* From one row to the next none is left out, given twice or taken from another
\* answer; the first is row 1.
InOrder ==
  [][row' \notin {row, NoRow} =>
       IF row = NoRow THEN row'.k = 1 ELSE row'.q = row.q /\ row'.k = row.k + 1]_vars

\* next() turns false after the last row of the answer and not before.
EndAfterLast ==
  [][told' = "end" /\ told # "end" =>
       answer.n = IF row = NoRow THEN 0 ELSE row.k]_vars

\* An answer that was replaced never comes back.
AnswersFresh == [][answer' \notin {answer, NoAnswer} => answer'.q > asked]_vars

-----------------------------------------------------------------------------
\* Where next() is in the answer, by what it said last.
CursorInv ==
  /\ asked \in Nat /\ pos \in Nat
  /\ answer \in [q : Nat, n : Nat] /\ answer.q <= asked
  /\ pos <= answer.n
  /\ answer.n > 0 => answer.q > 0
  /\ \/ told = "nothing" /\ row = NoRow /\ pos = 0
     \/ told = "row" /\ row = [q |-> answer.q, k |-> pos] /\ pos > 0
     \/ told = "end" /\ row = NoRow /\ pos = answer.n
  /\ NothingLeft

LEMMA CursorKeeps == Spec => []CursorInv
<1>1. Init => CursorInv
  BY DEF Init, CursorInv, NoAnswer, NothingLeft
<1>2. ASSUME CursorInv, [Next]_vars PROVE CursorInv'
  <2> USE <1>2 DEF CursorInv, NothingLeft
  <2>1. CASE Take
    BY <2>1 DEF Take, Kept
  <2>2. CASE Leave
    BY <2>2 DEF Leave, Emptied, NoAnswer
  <2>3. CASE Answer
    <3>1. asked' = asked + 1 /\ answer'.q = asked' /\ answer' \in [q : Nat, n : Nat]
      BY <2>3 DEF Answer
    <3> QED BY <2>3, <3>1 DEF Answer
  <2>4. CASE Unanswered
    BY <2>4 DEF Unanswered, Kept, Emptied, NoAnswer
  <2>5. CASE Step
    BY <2>5 DEF Step
  <2>6. CASE End
    BY <2>6 DEF End
  <2>7. CASE UNCHANGED vars
    BY <2>7 DEF vars
  <2> QED BY <1>2, <2>1, <2>2, <2>3, <2>4, <2>5, <2>6, <2>7 DEF Next
<1> QED BY <1>1, <1>2, PTL DEF Spec

\* The next CDBQuery starts with nothing of the one before.
THEOREM NothingLeftBehind == Spec => []NothingLeft
<1>1. CursorInv => NothingLeft
  BY DEF CursorInv
<1> QED BY CursorKeeps, <1>1, PTL

\* The getters never read a row of another statement's answer.
THEOREM RowsOfAnswer == Spec => []RowOfAnswer
<1>1. CursorInv => RowOfAnswer
  BY DEF CursorInv, RowOfAnswer
<1> QED BY CursorKeeps, <1>1, PTL

\* A caller that calls next() sees the rows of an answer from the first on, one by
\* one (CDBConnect.h:120: next).
THEOREM RowsInOrder == Spec => InOrder
<1>1. CursorInv /\ [Next]_vars
        => [row' \notin {row, NoRow} =>
              IF row = NoRow THEN row'.k = 1 ELSE row'.q = row.q /\ row'.k = row.k + 1]_vars
  <2> SUFFICES ASSUME CursorInv, [Next]_vars, row' \notin {row, NoRow}
               PROVE  IF row = NoRow THEN row'.k = 1
                      ELSE row'.q = row.q /\ row'.k = row.k + 1
    OBVIOUS
  <2>1. Step
    BY DEF Next, vars, Take, Leave, Answer, Unanswered, End, Kept, Emptied
  <2>2. row' = [q |-> answer.q, k |-> pos + 1] /\ pos < answer.n
    BY <2>1 DEF Step
  <2>3. row = NoRow => pos = 0
    BY <2>2 DEF CursorInv, NoRow
  <2>4. row # NoRow => row = [q |-> answer.q, k |-> pos]
    BY DEF CursorInv
  <2> QED BY <2>2, <2>3, <2>4
<1> QED BY CursorKeeps, <1>1, PTL DEF Spec, InOrder

\* A loop over next() sees every row before it stops.
THEOREM EndsAfterLast == Spec => EndAfterLast
<1>1. CursorInv /\ [Next]_vars
        => [told' = "end" /\ told # "end" =>
              answer.n = IF row = NoRow THEN 0 ELSE row.k]_vars
  <2> SUFFICES ASSUME CursorInv, [Next]_vars, told' = "end", told # "end"
               PROVE  answer.n = IF row = NoRow THEN 0 ELSE row.k
    OBVIOUS
  <2>1. pos = answer.n
    BY DEF Next, vars, Take, Leave, Answer, Unanswered, Step, End, Kept, Emptied
  <2> QED BY <2>1 DEF CursorInv, NoRow
<1> QED BY CursorKeeps, <1>1, PTL DEF Spec, EndAfterLast

\* Rows of a replaced answer are gone for good.
THEOREM AnswersStayGone == Spec => AnswersFresh
<1>1. CursorInv /\ [Next]_vars => [answer' \notin {answer, NoAnswer} => answer'.q > asked]_vars
  BY DEF CursorInv, Next, vars, Take, Leave, Answer, Unanswered, Step, End, Kept, Emptied
<1> QED BY CursorKeeps, <1>1, PTL DEF Spec, AnswersFresh
=============================================================================
