---------------------------- MODULE ConnPoolProofs ----------------------------
(***************************************************************************)
(* The pool's invariants for every set of threads and connections, every    *)
(* initial size, and every sequence of limits.                              *)
(***************************************************************************)
EXTENDS ConnPool, FiniteSetTheorems, TLAPS

-----------------------------------------------------------------------------
\* Sequences without duplicates, as the idle list is one.
Distinct(s) == \A i, j \in DOMAIN s : s[i] = s[j] => i = j

\* push_back adds the element to what is listed, and keeps a list of distinct
\* elements distinct when the element is new.
LEMMA AppendListed ==
  ASSUME NEW S, NEW s \in Seq(S), NEW e \in S
  PROVE  /\ Append(s, e) \in Seq(S)
         /\ Len(Append(s, e)) = Len(s) + 1
         /\ Listed(Append(s, e)) = Listed(s) \cup {e}
         /\ Distinct(s) /\ e \notin Listed(s) => Distinct(Append(s, e))
  BY DEF Listed, Distinct

\* pop_front takes exactly the front element off a list of distinct elements.
LEMMA TailListed ==
  ASSUME NEW S, NEW s \in Seq(S), s # <<>>, Distinct(s)
  PROVE  /\ Head(s) \in Listed(s) /\ Head(s) \in S
         /\ Tail(s) \in Seq(S)
         /\ Len(Tail(s)) = Len(s) - 1
         /\ Listed(Tail(s)) = Listed(s) \ {Head(s)}
         /\ Distinct(Tail(s))
<1>1. /\ Head(s) = s[1] /\ Len(s) \in Nat /\ Len(s) > 0
      /\ Head(s) \in S /\ Head(s) \in Listed(s)
      /\ DOMAIN s = 1 .. Len(s)
  BY DEF Listed
<1>2. /\ Tail(s) \in Seq(S) /\ Len(Tail(s)) = Len(s) - 1
      /\ DOMAIN Tail(s) = 1 .. (Len(s) - 1)
      /\ \A i \in 1 .. (Len(s) - 1) : Tail(s)[i] = s[i + 1]
  BY <1>1
<1>3. Distinct(Tail(s))
  <2> SUFFICES ASSUME NEW i \in 1 .. (Len(s) - 1), NEW j \in 1 .. (Len(s) - 1),
                      Tail(s)[i] = Tail(s)[j]
               PROVE  i = j
    BY <1>2 DEF Distinct
  <2>1. s[i + 1] = s[j + 1] /\ i + 1 \in DOMAIN s /\ j + 1 \in DOMAIN s
    BY <1>1, <1>2
  <2> QED BY <2>1 DEF Distinct
<1>4. Listed(Tail(s)) \subseteq Listed(s) \ {Head(s)}
  <2> SUFFICES ASSUME NEW i \in 1 .. (Len(s) - 1)
               PROVE  Tail(s)[i] \in Listed(s) /\ Tail(s)[i] # Head(s)
    BY <1>2 DEF Listed
  <2>1. Tail(s)[i] = s[i + 1] /\ i + 1 \in DOMAIN s /\ 1 \in DOMAIN s /\ i + 1 # 1
    BY <1>1, <1>2
  <2> QED BY <1>1, <2>1 DEF Listed, Distinct
<1>5. Listed(s) \ {Head(s)} \subseteq Listed(Tail(s))
  <2> SUFFICES ASSUME NEW i \in DOMAIN s, s[i] # Head(s)
               PROVE  s[i] \in Listed(Tail(s))
    BY DEF Listed
  <2>1. i - 1 \in 1 .. (Len(s) - 1) /\ s[i] = Tail(s)[i - 1]
    BY <1>1, <1>2
  <2> QED BY <1>2, <2>1 DEF Listed
<1> QED BY <1>1, <1>2, <1>3, <1>4, <1>5

-----------------------------------------------------------------------------
\* What a step of the pool can be, one disjunct per action.
LEMMA StepCases ==
  ASSUME [Next]_vars
  PROVE  \/ \E c \in Conns : CtorOpen(c)
         \/ CtorFail
         \/ Destroy
         \/ \E t \in Threads : GetCall(t)
         \/ \E t \in Threads : GetIdle(t)
         \/ \E t \in Threads : GetFull(t)
         \/ \E t \in Threads : GetGrow(t)
         \/ \E t \in Threads : Wake(t)
         \/ \E t \in Threads, c \in Conns : OpenOk(t, c)
         \/ \E t \in Threads : OpenFail(t)
         \/ \E t \in Threads : TestPass(t)
         \/ \E t \in Threads : TestFail(t)
         \/ \E t \in Threads : RetryOk(t)
         \/ \E t \in Threads : RetryFail(t)
         \/ \E t \in Threads, c \in Conns : FreeCall(t, c)
         \/ \E t \in Threads : FreeShrink(t)
         \/ \E t \in Threads : FreeKeep(t)
         \/ \E r \in Ranges : SetMin(r)
         \/ SetMax
         \/ \E c \in Conns : Drop(c)
         \/ \E t \in Threads, c \in Conns : Notice(t, c)
         \/ UNCHANGED vars
  BY DEF Next, ThreadStep, LockStep, LockedStep, Release, Environment, Gone

-----------------------------------------------------------------------------
\* Before the constructor is done and after it failed no thread is inside the
\* pool or has a connection of it.
QuietUnlessReady ==
  phase # "ready" => /\ busy = {}
                     /\ \A t \in Threads : pc[t] = "out" /\ held[t] = {}

\* A thread in the middle of a call has a connection wherever the code uses one.
CurIsConn ==
  \A t \in Threads : pc[t] \in {"test", "retry", "free"} => cur[t] \in Conns

TInv == TypeOK /\ QuietUnlessReady /\ CurIsConn

LEMMA TInvInit == Init => TInv
  BY NullAssumption, LimitAssumption
  DEF Init, TInv, TypeOK, QuietUnlessReady, CurIsConn, Points, Links, NoPending

LEMMA TInvStep == TInv /\ [Next]_vars => TInv'
<1> SUFFICES ASSUME TInv, [Next]_vars PROVE TInv'
  OBVIOUS
<1> USE DEF TInv
<1>1. ASSUME NEW c \in Conns, CtorOpen(c) PROVE TInv'
  BY <1>1, AppendListed DEF CtorOpen, TypeOK, QuietUnlessReady, CurIsConn, limits, threads, Links
<1>2. ASSUME CtorFail PROVE TInv'
  BY <1>2 DEF CtorFail, TypeOK, QuietUnlessReady, CurIsConn, lists, limits, threads
<1>3. ASSUME Destroy PROVE TInv'
  BY <1>3 DEF Destroy, TypeOK, QuietUnlessReady, CurIsConn, limits, threads, Links
<1>4. ASSUME NEW t \in Threads, GetCall(t) PROVE TInv'
  BY <1>4 DEF GetCall, TypeOK, QuietUnlessReady, CurIsConn, lists, limits, Points
<1>5. ASSUME NEW t \in Threads, GetIdle(t) PROVE TInv'
  <2>1. Head(idle) \in Conns /\ Tail(idle) \in Seq(Conns)
    BY <1>5 DEF GetIdle, TypeOK
  <2> QED BY <1>5, <2>1 DEF GetIdle, TypeOK, QuietUnlessReady, CurIsConn, limits, Points
<1>6. ASSUME NEW t \in Threads, GetFull(t) PROVE TInv'
  BY <1>6 DEF GetFull, TypeOK, QuietUnlessReady, CurIsConn, lists, limits, Points
<1>7. ASSUME NEW t \in Threads, GetGrow(t) PROVE TInv'
  BY <1>7 DEF GetGrow, TypeOK, QuietUnlessReady, CurIsConn, lists, limits, Points
<1>8. ASSUME NEW t \in Threads, Wake(t) PROVE TInv'
  BY <1>8 DEF Wake, TypeOK, QuietUnlessReady, CurIsConn, lists, limits, Points
<1>9. ASSUME NEW t \in Threads, NEW c \in Conns, OpenOk(t, c) PROVE TInv'
  BY <1>9 DEF OpenOk, TypeOK, QuietUnlessReady, CurIsConn, limits, Points, Links
<1>10. ASSUME NEW t \in Threads, OpenFail(t) PROVE TInv'
  BY <1>10 DEF OpenFail, TypeOK, QuietUnlessReady, CurIsConn, lists, limits, Points
<1>11. ASSUME NEW t \in Threads, TestPass(t) PROVE TInv'
  BY <1>11 DEF TestPass, HandOut, PassLinks, TypeOK, QuietUnlessReady, CurIsConn,
                 lists, limits, Points, Links
<1>12. ASSUME NEW t \in Threads, TestFail(t) PROVE TInv'
  BY <1>12 DEF TestFail, TypeOK, QuietUnlessReady, CurIsConn, lists, limits, Points, Links
<1>13. ASSUME NEW t \in Threads, RetryOk(t) PROVE TInv'
  BY <1>13 DEF RetryOk, HandOut, TypeOK, QuietUnlessReady, CurIsConn,
                 lists, limits, Points, Links
<1>14. ASSUME NEW t \in Threads, RetryFail(t) PROVE TInv'
  BY <1>14 DEF RetryFail, TypeOK, QuietUnlessReady, CurIsConn, limits, Points
<1>15. ASSUME NEW t \in Threads, NEW c \in Conns, FreeCall(t, c) PROVE TInv'
  BY <1>15 DEF FreeCall, TypeOK, QuietUnlessReady, CurIsConn, lists, limits, Points
<1>16. ASSUME NEW t \in Threads, FreeShrink(t) PROVE TInv'
  <2>1. real - 1 \in Nat
    BY <1>16 DEF FreeShrink, Surplus, TypeOK
  <2> QED BY <1>16, <2>1 DEF FreeShrink, GiveBack, TypeOK, QuietUnlessReady, CurIsConn,
                              limits, Points, Links
<1>17. ASSUME NEW t \in Threads, FreeKeep(t) PROVE TInv'
  BY <1>17 DEF FreeKeep, GiveBack, TypeOK, QuietUnlessReady, CurIsConn, limits, Points
<1>18. ASSUME NEW r \in Ranges, SetMin(r) PROVE TInv'
  BY <1>18, LimitAssumption DEF SetMin, TypeOK, QuietUnlessReady, CurIsConn, lists, threads
<1>19. ASSUME SetMax PROVE TInv'
  BY <1>19 DEF SetMax, TypeOK, QuietUnlessReady, CurIsConn, lists, threads
<1>20. ASSUME NEW c \in Conns, Drop(c) PROVE TInv'
  BY <1>20 DEF Drop, TypeOK, QuietUnlessReady, CurIsConn, lists, limits, threads, Links
<1>21. ASSUME NEW t \in Threads, NEW c \in Conns, Notice(t, c) PROVE TInv'
  BY <1>21 DEF Notice, TypeOK, QuietUnlessReady, CurIsConn, lists, limits, threads, Links
<1>22. ASSUME UNCHANGED vars PROVE TInv'
  BY <1>22 DEF vars, TypeOK, QuietUnlessReady, CurIsConn, lists, limits, threads
<1> QED
  BY StepCases, <1>1, <1>2, <1>3, <1>4, <1>5, <1>6, <1>7, <1>8, <1>9, <1>10, <1>11,
     <1>12, <1>13, <1>14, <1>15, <1>16, <1>17, <1>18, <1>19, <1>20, <1>21, <1>22

\* Every member and local of the pool stays in its domain, whatever the number
\* of threads, connections and limits.
THEOREM TypeCorrect == Spec => []TypeOK
<1>1. TInv => TypeOK
  BY DEF TInv
<1> QED BY TInvInit, TInvStep, <1>1, PTL DEF Spec

-----------------------------------------------------------------------------
\* The strengthening: who is inside the lock, who owns which connection, and
\* the count, each needed for the next.
PInv == TInv /\ MutexHeldInside /\ Ownership /\ IsFiniteSet(busy) /\ CountsMatch

LEMMA PInvInit == Init => PInv
<1> SUFFICES ASSUME Init PROVE PInv
  OBVIOUS
<1>1. TInv
  BY TInvInit
<1>2. MutexHeldInside
  BY NullAssumption DEF Init, MutexHeldInside, InLock
<1>3. Ownership
  BY DEF Init, Ownership, IdleDistinct, IdleNotBusy, BusyOwned, OwnedByOne, TestedIsNew,
         FreedIsHeld, Owned, InTest, Listed
<1>4. IsFiniteSet(busy) /\ CountsMatch
  BY FS_EmptySet DEF Init, CountsMatch
<1> QED BY <1>1, <1>2, <1>3, <1>4 DEF PInv

\* A thread takes the mutex only when nobody has it, and gives it back on
\* every way out of the locked part.
LEMMA MutexStep == TInv /\ MutexHeldInside /\ [Next]_vars => MutexHeldInside'
<1> SUFFICES ASSUME TInv, MutexHeldInside, [Next]_vars PROVE MutexHeldInside'
  OBVIOUS
<1> USE NullAssumption DEF TInv, TypeOK, MutexHeldInside, InLock
<1>1. ASSUME NEW c \in Conns, CtorOpen(c) PROVE MutexHeldInside'
  BY <1>1 DEF CtorOpen, threads
<1>2. ASSUME CtorFail PROVE MutexHeldInside'
  BY <1>2 DEF CtorFail, threads
<1>3. ASSUME Destroy PROVE MutexHeldInside'
  BY <1>3 DEF Destroy, threads
<1>4. ASSUME NEW t \in Threads, GetCall(t) PROVE MutexHeldInside'
  BY <1>4 DEF GetCall
<1>5. ASSUME NEW t \in Threads, GetIdle(t) PROVE MutexHeldInside'
  BY <1>5 DEF GetIdle
<1>6. ASSUME NEW t \in Threads, GetFull(t) PROVE MutexHeldInside'
  BY <1>6 DEF GetFull
<1>7. ASSUME NEW t \in Threads, GetGrow(t) PROVE MutexHeldInside'
  BY <1>7 DEF GetGrow
<1>8. ASSUME NEW t \in Threads, Wake(t) PROVE MutexHeldInside'
  BY <1>8 DEF Wake
<1>9. ASSUME NEW t \in Threads, NEW c \in Conns, OpenOk(t, c) PROVE MutexHeldInside'
  BY <1>9 DEF OpenOk
<1>10. ASSUME NEW t \in Threads, OpenFail(t) PROVE MutexHeldInside'
  BY <1>10 DEF OpenFail
<1>11. ASSUME NEW t \in Threads, TestPass(t) PROVE MutexHeldInside'
  BY <1>11 DEF TestPass, HandOut
<1>12. ASSUME NEW t \in Threads, TestFail(t) PROVE MutexHeldInside'
  BY <1>12 DEF TestFail
<1>13. ASSUME NEW t \in Threads, RetryOk(t) PROVE MutexHeldInside'
  BY <1>13 DEF RetryOk, HandOut
<1>14. ASSUME NEW t \in Threads, RetryFail(t) PROVE MutexHeldInside'
  BY <1>14 DEF RetryFail
<1>15. ASSUME NEW t \in Threads, NEW c \in Conns, FreeCall(t, c) PROVE MutexHeldInside'
  BY <1>15 DEF FreeCall
<1>16. ASSUME NEW t \in Threads, FreeShrink(t) PROVE MutexHeldInside'
  BY <1>16 DEF FreeShrink, GiveBack
<1>17. ASSUME NEW t \in Threads, FreeKeep(t) PROVE MutexHeldInside'
  BY <1>17 DEF FreeKeep, GiveBack
<1>18. ASSUME NEW r \in Ranges, SetMin(r) PROVE MutexHeldInside'
  BY <1>18 DEF SetMin, threads
<1>19. ASSUME SetMax PROVE MutexHeldInside'
  BY <1>19 DEF SetMax, threads
<1>20. ASSUME NEW c \in Conns, Drop(c) PROVE MutexHeldInside'
  BY <1>20 DEF Drop, threads
<1>21. ASSUME NEW t \in Threads, NEW c \in Conns, Notice(t, c) PROVE MutexHeldInside'
  BY <1>21 DEF Notice, threads
<1>22. ASSUME UNCHANGED vars PROVE MutexHeldInside'
  BY <1>22 DEF vars, threads
<1> QED
  BY StepCases, <1>1, <1>2, <1>3, <1>4, <1>5, <1>6, <1>7, <1>8, <1>9,
     <1>10, <1>11, <1>12, <1>13, <1>14, <1>15, <1>16, <1>17, <1>18,
     <1>19, <1>20, <1>21, <1>22

\* The ledger of owners survives when one thread takes a connection nobody has,
\* when it gives one of its own away, and when nobody's share changes.
LEMMA TakeOne ==
  ASSUME BusyOwned, OwnedByOne, NEW t \in Threads, NEW c, c \notin busy,
         busy' = busy \cup {c},
         Owned(t)' = Owned(t) \cup {c},
         \A u \in Threads \ {t} : Owned(u)' = Owned(u)
  PROVE  BusyOwned' /\ OwnedByOne'
<1>1. \A u \in Threads : c \notin Owned(u)
  BY DEF BusyOwned
<1>2. BusyOwned'
  BY DEF BusyOwned
<1>3. OwnedByOne'
  BY <1>1 DEF OwnedByOne
<1> QED BY <1>2, <1>3

LEMMA GiveOne ==
  ASSUME BusyOwned, OwnedByOne, NEW t \in Threads, NEW c \in Owned(t),
         busy' = busy \ {c},
         Owned(t)' = Owned(t) \ {c},
         \A u \in Threads \ {t} : Owned(u)' = Owned(u)
  PROVE  BusyOwned' /\ OwnedByOne'
<1>1. \A u \in Threads \ {t} : c \notin Owned(u)
  BY DEF OwnedByOne
<1>2. BusyOwned'
  BY <1>1 DEF BusyOwned
<1>3. OwnedByOne'
  BY DEF OwnedByOne
<1> QED BY <1>2, <1>3

LEMMA KeepAll ==
  ASSUME BusyOwned, OwnedByOne, busy' = busy,
         \A u \in Threads : Owned(u)' = Owned(u)
  PROVE  BusyOwned' /\ OwnedByOne'
<1>1. BusyOwned'
  BY DEF BusyOwned
<1>2. OwnedByOne'
  BY DEF OwnedByOne
<1> QED BY <1>1, <1>2

\* No step makes two lists or two threads share a connection.
LEMMA OwnershipStep ==
  TInv /\ MutexHeldInside /\ Ownership /\ [Next]_vars => Ownership'
<1> SUFFICES ASSUME TInv, MutexHeldInside, Ownership, [Next]_vars PROVE Ownership'
  OBVIOUS
<1>a. /\ TypeOK /\ QuietUnlessReady /\ CurIsConn
      /\ Distinct(idle) /\ IdleNotBusy /\ BusyOwned /\ OwnedByOne
      /\ TestedIsNew /\ FreedIsHeld
  BY DEF TInv, Ownership, IdleDistinct, Distinct
<1>b. ASSUME Distinct(idle'), IdleNotBusy', BusyOwned' /\ OwnedByOne', TestedIsNew', FreedIsHeld'
      PROVE  Ownership'
  BY <1>b DEF Ownership, IdleDistinct, Distinct
\* Steps that move no connection.
<1>c. ASSUME UNCHANGED <<idle, busy, held>>, \A u \in Threads : InTest(u)' = InTest(u),
             FreedIsHeld'
      PROVE  Ownership'
  <2>1. \A u \in Threads : Owned(u)' = Owned(u)
    BY <1>c DEF Owned
  <2>2. IdleNotBusy' /\ TestedIsNew' /\ Distinct(idle')
    BY <1>a, <1>c DEF IdleNotBusy, TestedIsNew, Listed
  <2> QED BY <1>a, <1>b, <1>c, <2>1, <2>2, KeepAll
<1>1. ASSUME NEW c \in Conns, CtorOpen(c) PROVE Ownership'
  <2>1. idle \in Seq(Conns) /\ idle' = Append(idle, c) /\ c \notin Listed(idle) /\ c \notin busy
    BY <1>a, <1>1 DEF CtorOpen, Fresh, Existing, TypeOK
  <2>2. UNCHANGED <<busy, held, pc, cur>>
    BY <1>1 DEF CtorOpen, threads
  <2>3. \A u \in Threads : Owned(u)' = Owned(u)
    BY <2>2 DEF Owned, InTest
  <2>4. Distinct(idle') /\ Listed(idle)' = Listed(idle) \cup {c}
    BY <1>a, <2>1, AppendListed
  <2>5. IdleNotBusy' /\ TestedIsNew' /\ FreedIsHeld'
    BY <1>a, <2>1, <2>2, <2>4 DEF IdleNotBusy, TestedIsNew, FreedIsHeld, InTest
  <2> QED BY <1>a, <1>b, <2>2, <2>3, <2>4, <2>5, KeepAll
<1>2. ASSUME CtorFail PROVE Ownership'
  BY <1>a, <1>c, <1>2 DEF CtorFail, lists, threads, InTest, FreedIsHeld
<1>3. ASSUME Destroy PROVE Ownership'
  <2>1. idle' = <<>> /\ busy' = busy /\ UNCHANGED <<held, pc, cur>>
    BY <1>a, <1>3 DEF Destroy, QuietUnlessReady, threads
  <2>2. \A u \in Threads : Owned(u)' = Owned(u)
    BY <2>1 DEF Owned, InTest
  <2>3. Distinct(idle') /\ IdleNotBusy' /\ TestedIsNew' /\ FreedIsHeld'
    BY <1>a, <2>1 DEF Distinct, IdleNotBusy, TestedIsNew, FreedIsHeld, InTest, Listed
  <2> QED BY <1>a, <1>b, <2>1, <2>2, <2>3, KeepAll
<1>4. ASSUME NEW t \in Threads, GetCall(t) PROVE Ownership'
  BY <1>a, <1>c, <1>4 DEF GetCall, lists, InTest, FreedIsHeld, TypeOK
<1>5. ASSUME NEW t \in Threads, GetIdle(t) PROVE Ownership'
  <2> DEFINE c == Head(idle)
  <2>1. /\ pc[t] = "get" /\ idle # <<>> /\ idle' = Tail(idle) /\ busy' = busy \cup {c}
        /\ cur' = [cur EXCEPT ![t] = c] /\ pc' = [pc EXCEPT ![t] = "test"] /\ held' = held
    BY <1>5 DEF GetIdle
  <2>2. /\ c \in Listed(idle)
        /\ Listed(idle)' = Listed(idle) \ {c} /\ Distinct(idle')
    BY <1>a, <2>1, TailListed DEF TypeOK
  <2>3. c \notin busy
    BY <1>a, <2>2 DEF IdleNotBusy
  <2>4. /\ InTest(t) = {} /\ InTest(t)' = {c}
        /\ \A u \in Threads \ {t} : InTest(u)' = InTest(u)
    BY <1>a, <2>1 DEF InTest, TypeOK
  <2>5. BusyOwned' /\ OwnedByOne'
    <3>1. Owned(t)' = Owned(t) \cup {c} /\ \A u \in Threads \ {t} : Owned(u)' = Owned(u)
      BY <2>1, <2>4 DEF Owned
    <3> QED BY <1>a, <2>1, <2>3, <3>1, TakeOne
  <2>6. IdleNotBusy'
    BY <1>a, <2>1, <2>2 DEF IdleNotBusy
  <2>7. TestedIsNew'
    BY <1>a, <2>1, <2>3, <2>4 DEF TestedIsNew, BusyOwned, Owned
  <2>8. FreedIsHeld'
    BY <1>a, <2>1 DEF FreedIsHeld, TypeOK
  <2> QED BY <1>b, <2>2, <2>5, <2>6, <2>7, <2>8
<1>6. ASSUME NEW t \in Threads, GetFull(t) PROVE Ownership'
  BY <1>a, <1>c, <1>6 DEF GetFull, lists, InTest, FreedIsHeld, TypeOK
<1>7. ASSUME NEW t \in Threads, GetGrow(t) PROVE Ownership'
  BY <1>a, <1>c, <1>7 DEF GetGrow, lists, InTest, FreedIsHeld, TypeOK
<1>8. ASSUME NEW t \in Threads, Wake(t) PROVE Ownership'
  BY <1>a, <1>c, <1>8 DEF Wake, lists, InTest, FreedIsHeld, TypeOK
<1>9. ASSUME NEW t \in Threads, NEW c \in Conns, OpenOk(t, c) PROVE Ownership'
  <2>1. /\ pc[t] = "open" /\ idle' = idle /\ busy' = busy \cup {c}
        /\ c \notin Listed(idle) /\ c \notin busy
        /\ cur' = [cur EXCEPT ![t] = c] /\ pc' = [pc EXCEPT ![t] = "test"] /\ held' = held
    BY <1>9 DEF OpenOk, Fresh, Existing
  <2>2. /\ InTest(t) = {} /\ InTest(t)' = {c}
        /\ \A u \in Threads \ {t} : InTest(u)' = InTest(u)
    BY <1>a, <2>1 DEF InTest, TypeOK
  <2>3. BusyOwned' /\ OwnedByOne'
    <3>1. Owned(t)' = Owned(t) \cup {c} /\ \A u \in Threads \ {t} : Owned(u)' = Owned(u)
      BY <2>1, <2>2 DEF Owned
    <3> QED BY <1>a, <2>1, <3>1, TakeOne
  <2>4. Distinct(idle') /\ IdleNotBusy'
    BY <1>a, <2>1 DEF IdleNotBusy, Listed
  <2>5. TestedIsNew'
    BY <1>a, <2>1, <2>2 DEF TestedIsNew, BusyOwned, Owned
  <2>6. FreedIsHeld'
    BY <1>a, <2>1 DEF FreedIsHeld, TypeOK
  <2> QED BY <1>b, <2>3, <2>4, <2>5, <2>6
<1>10. ASSUME NEW t \in Threads, OpenFail(t) PROVE Ownership'
  BY <1>a, <1>c, <1>10 DEF OpenFail, lists, InTest, FreedIsHeld, TypeOK
\* The tested connection becomes a held one: the thread's share is the same.
<1>d. ASSUME NEW t \in Threads, pc[t] \in {"test", "retry"}, HandOut(t) PROVE Ownership'
  <2>1. /\ UNCHANGED <<idle, busy>>
        /\ held' = [held EXCEPT ![t] = @ \cup {cur[t]}] /\ pc' = [pc EXCEPT ![t] = "out"]
        /\ cur' = [cur EXCEPT ![t] = NoConn]
    BY <1>d DEF HandOut, lists
  <2>2. /\ InTest(t) = {cur[t]} /\ InTest(t)' = {}
        /\ \A u \in Threads \ {t} : InTest(u)' = InTest(u)
    BY <1>a, <1>d, <2>1 DEF InTest, TypeOK
  <2>3. \A u \in Threads : Owned(u)' = Owned(u)
    BY <1>a, <2>1, <2>2 DEF Owned, TypeOK
  <2>4. Distinct(idle') /\ IdleNotBusy'
    BY <1>a, <2>1 DEF IdleNotBusy, Listed
  <2>5. TestedIsNew' /\ FreedIsHeld'
    BY <1>a, <2>1, <2>2 DEF TestedIsNew, FreedIsHeld, TypeOK
  <2> QED BY <1>a, <1>b, <2>1, <2>3, <2>4, <2>5, KeepAll
<1>11. ASSUME NEW t \in Threads, TestPass(t) PROVE Ownership'
  BY <1>d, <1>11 DEF TestPass
<1>12. ASSUME NEW t \in Threads, TestFail(t) PROVE Ownership'
  BY <1>a, <1>c, <1>12 DEF TestFail, lists, InTest, FreedIsHeld, TypeOK
<1>13. ASSUME NEW t \in Threads, RetryOk(t) PROVE Ownership'
  BY <1>d, <1>13 DEF RetryOk
<1>14. ASSUME NEW t \in Threads, RetryFail(t) PROVE Ownership'
  <2> DEFINE c == cur[t]
  <2>1. /\ pc[t] = "retry" /\ idle' = Append(idle, c) /\ busy' = busy \ {c}
        /\ cur' = [cur EXCEPT ![t] = NoConn] /\ pc' = [pc EXCEPT ![t] = "out"] /\ held' = held
    BY <1>14 DEF RetryFail
  <2>2. /\ InTest(t) = {c} /\ InTest(t)' = {}
        /\ \A u \in Threads \ {t} : InTest(u)' = InTest(u)
    BY <1>a, <2>1 DEF InTest, TypeOK
  <2>3. c \in Owned(t) /\ c \in Conns /\ c \in busy /\ c \notin held[t]
    BY <1>a, <2>1, <2>2 DEF Owned, CurIsConn, BusyOwned, TestedIsNew
  <2>4. BusyOwned' /\ OwnedByOne'
    <3>1. Owned(t)' = Owned(t) \ {c} /\ \A u \in Threads \ {t} : Owned(u)' = Owned(u)
      BY <2>1, <2>2, <2>3 DEF Owned
    <3> QED BY <1>a, <2>1, <2>3, <3>1, GiveOne
  <2>5. c \notin Listed(idle) /\ idle \in Seq(Conns)
    BY <1>a, <2>3 DEF IdleNotBusy, TypeOK
  <2>6. Distinct(idle') /\ Listed(idle)' = Listed(idle) \cup {c}
    BY <1>a, <2>1, <2>3, <2>5, AppendListed
  <2>7. IdleNotBusy'
    BY <1>a, <2>1, <2>6 DEF IdleNotBusy
  <2>8. TestedIsNew' /\ FreedIsHeld'
    BY <1>a, <2>1, <2>2 DEF TestedIsNew, FreedIsHeld, TypeOK
  <2> QED BY <1>b, <2>4, <2>6, <2>7, <2>8
<1>15. ASSUME NEW t \in Threads, NEW c \in Conns, FreeCall(t, c) PROVE Ownership'
  BY <1>a, <1>c, <1>15 DEF FreeCall, lists, InTest, FreedIsHeld, TypeOK
\* The freed connection leaves its holder and the busy list.
<1>e. ASSUME NEW t \in Threads, pc[t] = "free", GiveBack(t)
      PROVE  /\ cur[t] \in Conns /\ cur[t] \notin Listed(idle)
             /\ (BusyOwned /\ OwnedByOne /\ TestedIsNew /\ FreedIsHeld)'
             /\ Listed(idle) \cap busy' = {}
  <2> DEFINE c == cur[t]
  <2>1. /\ held' = [held EXCEPT ![t] = @ \ {c}] /\ busy' = busy \ {c}
        /\ cur' = [cur EXCEPT ![t] = NoConn] /\ pc' = [pc EXCEPT ![t] = "out"]
    BY <1>e DEF GiveBack
  <2>2. c \in held[t] /\ c \in Conns
    BY <1>a, <1>e DEF FreedIsHeld, CurIsConn
  <2>3. /\ InTest(t) = {} /\ InTest(t)' = {}
        /\ \A u \in Threads \ {t} : InTest(u)' = InTest(u)
    BY <1>a, <1>e, <2>1 DEF InTest, TypeOK
  <2>4. /\ c \in Owned(t) /\ Owned(t)' = Owned(t) \ {c}
        /\ \A u \in Threads \ {t} : Owned(u)' = Owned(u)
    BY <1>a, <2>1, <2>2, <2>3 DEF Owned, TypeOK
  <2>5. BusyOwned' /\ OwnedByOne'
    BY <1>a, <2>1, <2>4, GiveOne
  <2>6. TestedIsNew' /\ FreedIsHeld'
    BY <1>a, <2>1, <2>3 DEF TestedIsNew, FreedIsHeld, TypeOK
  <2>7. c \in busy
    BY <1>a, <2>4 DEF BusyOwned
  <2>8. c \notin Listed(idle) /\ Listed(idle) \cap busy' = {}
    BY <1>a, <2>1, <2>7 DEF IdleNotBusy
  <2> QED BY <2>2, <2>5, <2>6, <2>8
<1>16. ASSUME NEW t \in Threads, FreeShrink(t) PROVE Ownership'
  <2>1. pc[t] = "free" /\ GiveBack(t) /\ idle' = idle
    BY <1>16 DEF FreeShrink
  <2>2. IdleNotBusy' /\ Distinct(idle')
    BY <1>a, <1>e, <2>1 DEF IdleNotBusy, Listed
  <2> QED BY <1>b, <1>e, <2>1, <2>2
<1>17. ASSUME NEW t \in Threads, FreeKeep(t) PROVE Ownership'
  <2>1. pc[t] = "free" /\ GiveBack(t) /\ idle' = Append(idle, cur[t]) /\ cur[t] \notin busy'
    BY <1>17 DEF FreeKeep, GiveBack
  <2>2. Distinct(idle') /\ Listed(idle)' = Listed(idle) \cup {cur[t]}
    BY <1>a, <1>e, <2>1, AppendListed DEF TypeOK
  <2>3. IdleNotBusy'
    BY <1>e, <2>1, <2>2 DEF IdleNotBusy
  <2> QED BY <1>b, <1>e, <2>1, <2>2, <2>3
<1>18. ASSUME NEW r \in Ranges, SetMin(r) PROVE Ownership'
  BY <1>a, <1>c, <1>18 DEF SetMin, lists, threads, InTest, FreedIsHeld
<1>19. ASSUME SetMax PROVE Ownership'
  BY <1>a, <1>c, <1>19 DEF SetMax, lists, threads, InTest, FreedIsHeld
<1>20. ASSUME NEW c \in Conns, Drop(c) PROVE Ownership'
  BY <1>a, <1>c, <1>20 DEF Drop, lists, threads, InTest, FreedIsHeld
<1>21. ASSUME NEW t \in Threads, NEW c \in Conns, Notice(t, c) PROVE Ownership'
  BY <1>a, <1>c, <1>21 DEF Notice, lists, threads, InTest, FreedIsHeld
<1>22. ASSUME UNCHANGED vars PROVE Ownership'
  BY <1>a, <1>c, <1>22 DEF vars, lists, threads, InTest, FreedIsHeld
<1> QED
  BY StepCases, <1>1, <1>2, <1>3, <1>4, <1>5, <1>6, <1>7, <1>8, <1>9, <1>10, <1>11,
     <1>12, <1>13, <1>14, <1>15, <1>16, <1>17, <1>18, <1>19, <1>20, <1>21, <1>22

-----------------------------------------------------------------------------
\* The hand-kept count follows the lists: a step that changes one of the three
\* changes another by the same amount.
LEMMA CountStep ==
  ASSUME TInv, Ownership, IsFiniteSet(busy), CountsMatch, [Next]_vars
  PROVE  IsFiniteSet(busy)' /\ CountsMatch'
<1> DEFINE Goal == IsFiniteSet(busy)' /\ CountsMatch'
<1> USE DEF CountsMatch
<1>a. /\ idle \in Seq(Conns) /\ real \in Nat /\ QuietUnlessReady
      /\ Len(idle) \in Nat /\ Cardinality(busy) \in Nat
  BY FS_CardinalityType DEF TInv, TypeOK
<1>b. ASSUME UNCHANGED <<idle, busy, real>>, phase = "gone" => phase' = "gone" PROVE Goal
  BY <1>b
<1>1. ASSUME NEW c \in Conns, CtorOpen(c) PROVE Goal
  BY <1>a, <1>1, AppendListed DEF CtorOpen
<1>2. ASSUME CtorFail PROVE Goal
  BY <1>b, <1>2 DEF CtorFail, lists
<1>3. ASSUME Destroy PROVE Goal
  BY <1>3, FS_EmptySet DEF Destroy
<1>4. ASSUME NEW t \in Threads, GetIdle(t) PROVE Goal
  <2>1. /\ idle # <<>> /\ idle' = Tail(idle) /\ busy' = busy \cup {Head(idle)}
        /\ real' = real /\ phase' = phase
    BY <1>4 DEF GetIdle
  <2>2. Len(idle') = Len(idle) - 1 /\ Head(idle) \in Listed(idle)
    BY <1>a, <2>1, TailListed DEF Ownership, IdleDistinct, Distinct
  <2>3. Head(idle) \notin busy
    BY <2>2 DEF Ownership, IdleNotBusy
  <2>4. IsFiniteSet(busy') /\ Cardinality(busy') = Cardinality(busy) + 1
    BY <2>1, <2>3, FS_AddElement
  <2> QED BY <1>a, <2>1, <2>2, <2>4
<1>5. ASSUME NEW t \in Threads, NEW c \in Conns, OpenOk(t, c) PROVE Goal
  <2>1. /\ idle' = idle /\ busy' = busy \cup {c} /\ c \notin busy
        /\ real' = real + 1 /\ phase' = phase
    BY <1>5 DEF OpenOk, Fresh, Existing
  <2>2. IsFiniteSet(busy') /\ Cardinality(busy') = Cardinality(busy) + 1
    BY <2>1, FS_AddElement
  <2> QED BY <1>a, <2>1, <2>2
\* A connection that leaves the busy list was in it.
<1>c. ASSUME NEW t \in Threads, pc[t] \in {"retry", "free"}, busy' = busy \ {cur[t]}
      PROVE  IsFiniteSet(busy') /\ Cardinality(busy') = Cardinality(busy) - 1
  <2>1. cur[t] \in busy
    BY <1>c DEF Ownership, BusyOwned, Owned, InTest, FreedIsHeld
  <2> QED BY <1>c, <2>1, FS_RemoveElement
<1>6. ASSUME NEW t \in Threads, RetryFail(t) PROVE Goal
  <2>1. /\ pc[t] = "retry" /\ busy' = busy \ {cur[t]} /\ idle' = Append(idle, cur[t])
        /\ real' = real /\ phase' = phase
    BY <1>6 DEF RetryFail
  <2>2. Len(idle') = Len(idle) + 1
    BY <1>a, <2>1, AppendListed DEF TInv, CurIsConn
  <2>3. IsFiniteSet(busy') /\ Cardinality(busy') = Cardinality(busy) - 1
    BY <1>c, <2>1
  <2> QED BY <1>a, <2>1, <2>2, <2>3
<1>7. ASSUME NEW t \in Threads, FreeShrink(t) PROVE Goal
  <2>1. /\ pc[t] = "free" /\ busy' = busy \ {cur[t]} /\ idle' = idle
        /\ real' = real - 1 /\ phase' = phase
    BY <1>7 DEF FreeShrink, GiveBack
  <2>2. IsFiniteSet(busy') /\ Cardinality(busy') = Cardinality(busy) - 1
    BY <1>c, <2>1
  <2> QED BY <1>a, <2>1, <2>2
<1>8. ASSUME NEW t \in Threads, FreeKeep(t) PROVE Goal
  <2>1. /\ pc[t] = "free" /\ busy' = busy \ {cur[t]} /\ idle' = Append(idle, cur[t])
        /\ real' = real /\ phase' = phase
    BY <1>8 DEF FreeKeep, GiveBack
  <2>2. Len(idle') = Len(idle) + 1
    BY <1>a, <2>1, AppendListed DEF TInv, CurIsConn
  <2>3. IsFiniteSet(busy') /\ Cardinality(busy') = Cardinality(busy) - 1
    BY <1>c, <2>1
  <2> QED BY <1>a, <2>1, <2>2, <2>3
<1>9. ASSUME NEW t \in Threads,
             GetCall(t) \/ GetFull(t) \/ GetGrow(t) \/ Wake(t) \/ OpenFail(t)
               \/ TestPass(t) \/ TestFail(t) \/ RetryOk(t)
      PROVE  Goal
  BY <1>b, <1>9 DEF GetCall, GetFull, GetGrow, Wake, OpenFail, TestPass, TestFail, RetryOk,
                   HandOut, lists
<1>10. ASSUME NEW t \in Threads, NEW c \in Conns, FreeCall(t, c) \/ Notice(t, c) PROVE Goal
  BY <1>b, <1>10 DEF FreeCall, Notice, lists
<1>11. ASSUME NEW r \in Ranges, SetMin(r) PROVE Goal
  BY <1>b, <1>11 DEF SetMin, lists
<1>12. ASSUME SetMax PROVE Goal
  BY <1>b, <1>12 DEF SetMax, lists
<1>13. ASSUME NEW c \in Conns, Drop(c) PROVE Goal
  BY <1>b, <1>13 DEF Drop, lists
<1>14. ASSUME UNCHANGED vars PROVE Goal
  BY <1>b, <1>14 DEF vars, lists
<1> QED
  BY StepCases, <1>1, <1>2, <1>3, <1>4, <1>5, <1>6, <1>7, <1>8, <1>9, <1>10, <1>11,
     <1>12, <1>13, <1>14

LEMMA PInvStep == PInv /\ [Next]_vars => PInv'
  BY TInvStep, MutexStep, OwnershipStep, CountStep DEF PInv

LEMMA PInvAlways == Spec => []PInv
  BY PInvInit, PInvStep, PTL DEF Spec

\* The mutex is held exactly inside getDBconnect's locked part.
THEOREM MutexDiscipline == Spec => []MutexHeldInside
<1>1. PInv => MutexHeldInside
  BY DEF PInv
<1> QED BY PInvAlways, <1>1, PTL

\* Every connection has one place and at most one holder.
THEOREM ExclusiveOwnership == Spec => []Ownership
<1>1. PInv => Ownership
  BY DEF PInv
<1> QED BY PInvAlways, <1>1, PTL

\* m_connRealNum is exact at every moment.
THEOREM CountExact == Spec => []CountsMatch
<1>1. PInv => CountsMatch
  BY DEF PInv
<1> QED BY PInvAlways, <1>1, PTL

-----------------------------------------------------------------------------
\* A connection object loses its handle only while one thread tests it or
\* deletes it, and then nobody else holds it.
LEMMA HandleStep ==
  ASSUME PInv, HeldHaveHandle, [Next]_vars
  PROVE  HeldHaveHandle'
<1>a. TypeOK /\ QuietUnlessReady /\ CurIsConn /\ OwnedByOne /\ TestedIsNew /\ FreedIsHeld
  BY DEF PInv, TInv, Ownership
<1> USE DEF HeldHaveHandle
<1>1. ASSUME NEW c \in Conns, CtorOpen(c) PROVE HeldHaveHandle'
  BY <1>a, <1>1 DEF CtorOpen, threads, TypeOK
<1>2. ASSUME Destroy PROVE HeldHaveHandle'
  BY <1>a, <1>2 DEF Destroy, threads, QuietUnlessReady
<1>3. ASSUME NEW t \in Threads, NEW c \in Conns, OpenOk(t, c) PROVE HeldHaveHandle'
  BY <1>a, <1>3 DEF OpenOk, TypeOK
<1>4. ASSUME NEW t \in Threads, TestPass(t) PROVE HeldHaveHandle'
  <2>1. PICK l \in PassLinks(link[cur[t]]) : link' = [link EXCEPT ![cur[t]] = l]
    BY <1>4 DEF TestPass
  <2>2. l # "none" /\ cur[t] \in Conns
    BY <1>a, <1>4, <2>1 DEF TestPass, PassLinks, CurIsConn
  <2>3. held' = [held EXCEPT ![t] = @ \cup {cur[t]}]
    BY <1>4 DEF TestPass, HandOut
  <2> QED BY <1>a, <2>1, <2>2, <2>3 DEF TypeOK
<1>5. ASSUME NEW t \in Threads, TestFail(t) PROVE HeldHaveHandle'
  <2>1. held' = held /\ link' = [link EXCEPT ![cur[t]] = "none"] /\ InTest(t) = {cur[t]}
    BY <1>5 DEF TestFail, InTest
  <2>2. \A u \in Threads : cur[t] \notin held[u]
    BY <1>a, <2>1 DEF OwnedByOne, TestedIsNew, Owned
  <2> QED BY <1>a, <2>1, <2>2 DEF TypeOK
<1>6. ASSUME NEW t \in Threads, RetryOk(t) PROVE HeldHaveHandle'
  <2>1. /\ cur[t] \in Conns /\ link' = [link EXCEPT ![cur[t]] = "live"]
        /\ held' = [held EXCEPT ![t] = @ \cup {cur[t]}]
    BY <1>a, <1>6 DEF RetryOk, HandOut, CurIsConn
  <2> QED BY <1>a, <2>1 DEF TypeOK
<1>7. ASSUME NEW t \in Threads, FreeShrink(t) PROVE HeldHaveHandle'
  <2>1. /\ cur[t] \in held[t] /\ link' = [link EXCEPT ![cur[t]] = "none"]
        /\ held' = [held EXCEPT ![t] = @ \ {cur[t]}]
    BY <1>a, <1>7 DEF FreeShrink, GiveBack, FreedIsHeld
  <2>2. \A u \in Threads \ {t} : cur[t] \notin held[u]
    BY <1>a, <2>1 DEF OwnedByOne, Owned
  <2> QED BY <1>a, <2>1, <2>2 DEF TypeOK
<1>8. ASSUME NEW t \in Threads, FreeKeep(t) PROVE HeldHaveHandle'
  BY <1>a, <1>8 DEF FreeKeep, GiveBack, TypeOK
<1>9. ASSUME NEW t \in Threads,
             GetCall(t) \/ GetIdle(t) \/ GetFull(t) \/ GetGrow(t) \/ Wake(t)
               \/ OpenFail(t) \/ RetryFail(t)
      PROVE  HeldHaveHandle'
  BY <1>9 DEF GetCall, GetIdle, GetFull, GetGrow, Wake, OpenFail, RetryFail
<1>10. ASSUME NEW t \in Threads, NEW c \in Conns, FreeCall(t, c) \/ Notice(t, c)
       PROVE  HeldHaveHandle'
  BY <1>a, <1>10 DEF FreeCall, Notice, threads, TypeOK
<1>11. ASSUME NEW c \in Conns, Drop(c) PROVE HeldHaveHandle'
  BY <1>a, <1>11 DEF Drop, threads, TypeOK
<1>12. ASSUME CtorFail \/ SetMax \/ (\E r \in Ranges : SetMin(r)) \/ UNCHANGED vars
       PROVE  HeldHaveHandle'
  BY <1>12 DEF CtorFail, SetMax, SetMin, vars, threads
<1> QED
  BY StepCases, <1>1, <1>2, <1>3, <1>4, <1>5, <1>6, <1>7, <1>8, <1>9, <1>10, <1>11, <1>12

\* No caller ever holds a connection object without a handle.
THEOREM HandlesHeld == Spec => []HeldHaveHandle
<1>1. Init => HeldHaveHandle
  BY DEF Init, HeldHaveHandle
<1>2. PInv /\ HeldHaveHandle /\ [Next]_vars => HeldHaveHandle'
  BY HandleStep
<1> QED BY PInvAlways, <1>1, <1>2, PTL DEF Spec

-----------------------------------------------------------------------------
\* A caller comes to hold a connection only as the one whose test has passed or
\* whose reconnection has succeeded.
LEMMA OnlyHandOutGives ==
  ASSUME TypeOK, [Next]_vars, NEW t \in Threads, NEW c \in held'[t] \ held[t]
  PROVE  (TestPass(t) \/ RetryOk(t)) /\ c = cur[t]
<1>1. ASSUME NEW u \in Threads, TestPass(u) \/ RetryOk(u)
      PROVE  (TestPass(t) \/ RetryOk(t)) /\ c = cur[t]
  <2>1. held' = [held EXCEPT ![u] = @ \cup {cur[u]}]
    BY <1>1 DEF TestPass, RetryOk, HandOut
  <2>2. u = t /\ c = cur[t]
    BY <2>1 DEF TypeOK
  <2> QED BY <1>1, <2>2
<1>2. ASSUME NEW u \in Threads, FreeShrink(u) \/ FreeKeep(u) PROVE FALSE
  <2>1. held' = [held EXCEPT ![u] = @ \ {cur[u]}]
    BY <1>2 DEF FreeShrink, FreeKeep, GiveBack
  <2> QED BY <2>1 DEF TypeOK
<1>3. ASSUME NEW u \in Threads,
             GetCall(u) \/ GetIdle(u) \/ GetFull(u) \/ GetGrow(u) \/ Wake(u) \/ OpenFail(u)
               \/ TestFail(u) \/ RetryFail(u)
      PROVE  FALSE
  BY <1>3 DEF GetCall, GetIdle, GetFull, GetGrow, Wake, OpenFail, TestFail, RetryFail
<1>4. ASSUME NEW u \in Threads, NEW d \in Conns,
             OpenOk(u, d) \/ FreeCall(u, d) \/ Notice(u, d)
      PROVE  FALSE
  BY <1>4 DEF OpenOk, FreeCall, Notice, threads
<1>5. ASSUME CtorFail \/ Destroy \/ SetMax \/ (\E r \in Ranges : SetMin(r))
               \/ (\E d \in Conns : CtorOpen(d) \/ Drop(d)) \/ UNCHANGED vars
      PROVE  FALSE
  BY <1>5 DEF CtorFail, Destroy, SetMax, SetMin, CtorOpen, Drop, vars, threads
<1> QED BY StepCases, <1>1, <1>2, <1>3, <1>4, <1>5

\* Where the test asks the server (MySQL), what getDBconnect returns works.
THEOREM HandOutWorks ==
  ASSUME PingsServer
  PROVE  Spec => HandedOutLive
<1>1. TInv /\ [Next]_vars
        => [\A t \in Threads : \A c \in held'[t] \ held[t] : link'[c] = "live"]_vars
  <2> SUFFICES ASSUME TInv, [Next]_vars, NEW t \in Threads, NEW c \in held'[t] \ held[t]
               PROVE  link'[c] = "live"
    OBVIOUS
  <2>1. /\ TestPass(t) \/ RetryOk(t)
        /\ c = cur[t] /\ c \in Conns /\ link \in [Conns -> Links]
    BY OnlyHandOutGives DEF TInv, TypeOK, CurIsConn, TestPass, RetryOk
  <2>2. CASE TestPass(t)
    <3>1. PICK l \in PassLinks(link[c]) : link' = [link EXCEPT ![c] = l]
      BY <2>1, <2>2 DEF TestPass
    <3>2. l = "live"
      BY <3>1 DEF PassLinks
    <3> QED BY <2>1, <3>1, <3>2
  <2>3. CASE RetryOk(t)
    BY <2>1, <2>3 DEF RetryOk
  <2> QED BY <2>1, <2>2, <2>3
<1> QED BY TInvInit, TInvStep, <1>1, PTL DEF Spec, HandedOutLive

\* On every driver, what getDBconnect returns is not known to be broken.
THEOREM HandOutUsable == Spec => HandedOutUsable
<1>1. TInv /\ [Next]_vars
        => [\A t \in Threads : \A c \in held'[t] \ held[t] :
              link'[c] \in {"live", "dropped"}]_vars
  <2> SUFFICES ASSUME TInv, [Next]_vars, NEW t \in Threads, NEW c \in held'[t] \ held[t]
               PROVE  link'[c] \in {"live", "dropped"}
    OBVIOUS
  <2>1. /\ TestPass(t) \/ RetryOk(t)
        /\ c = cur[t] /\ c \in Conns /\ link \in [Conns -> Links]
    BY OnlyHandOutGives DEF TInv, TypeOK, CurIsConn, TestPass, RetryOk
  <2>2. CASE TestPass(t)
    <3>1. PICK l \in PassLinks(link[c]) : link' = [link EXCEPT ![c] = l]
      BY <2>1, <2>2 DEF TestPass
    <3>2. l \in {"live", "dropped"}
      BY <2>1, <3>1 DEF PassLinks, Links
    <3> QED BY <2>1, <3>1, <3>2
  <2>3. CASE RetryOk(t)
    BY <2>1, <2>3 DEF RetryOk
  <2> QED BY <2>1, <2>2, <2>3
<1> QED BY TInvInit, TInvStep, <1>1, PTL DEF Spec, HandedOutUsable

-----------------------------------------------------------------------------
\* While nobody is inside the lock, what is busy is what the callers hold.
LEMMA BusyHeld ==
  ASSUME TInv, MutexHeldInside, Ownership, mutex = NoThread
  PROVE  busy = UNION {held[u] : u \in Threads}
<1>1. \A u \in Threads : InTest(u) = {}
  BY NullAssumption DEF MutexHeldInside, InTest, InLock
<1>2. \A u \in Threads : Owned(u) = held[u]
  BY <1>1 DEF Owned
<1> QED BY <1>2 DEF Ownership, BusyOwned

\* Nobody is turned away or put to sleep while one of the connections that
\* count against the maximum could be had.
THEOREM WaitsOnlyWhenFull == Spec => NoNeedlessWait
<1>1. PInv /\ [Next]_vars
        => [\A t \in Threads : pc[t] = "get" /\ pc'[t] = "sleep" =>
              idle = <<>> /\ Cardinality(UNION {held[u] : u \in Threads}) = maxNum]_vars
  <2> SUFFICES ASSUME PInv, [Next]_vars, NEW t \in Threads, pc[t] = "get", pc'[t] = "sleep"
               PROVE  idle = <<>> /\ Cardinality(UNION {held[u] : u \in Threads}) = maxNum
    OBVIOUS
  <2>a. pc \in [Threads -> Points]
    BY DEF PInv, TInv, TypeOK
  <2>1. GetFull(t)
    BY StepCases, <2>a
    DEF CtorOpen, CtorFail, Destroy, GetCall, GetIdle, GetFull, GetGrow, Wake, OpenOk, OpenFail,
        TestPass, TestFail, RetryOk, RetryFail, HandOut, FreeCall, FreeShrink, FreeKeep, GiveBack,
        SetMin, SetMax, Drop, Notice, threads, vars
  <2>2. idle = <<>> /\ real = maxNum /\ mutex = NoThread
    BY <2>1 DEF GetFull, AtLimit
  <2>3. phase # "gone"
    BY DEF PInv, TInv, QuietUnlessReady
  <2>4. real = Cardinality(busy)
    BY <2>2, <2>3, FS_CardinalityType DEF PInv, CountsMatch
  <2> QED BY <2>2, <2>4, BusyHeld DEF PInv
<1> QED BY PInvAlways, <1>1, PTL DEF Spec, NoNeedlessWait

-----------------------------------------------------------------------------
\* The thread that creates a connection keeps the list it decided on empty.
OpenOnEmpty == \A t \in Threads : pc[t] = "open" => idle = <<>>

LEMMA OpenOnEmptyStep ==
  ASSUME PInv, OpenOnEmpty, [Next]_vars
  PROVE  OpenOnEmpty'
<1>a. TypeOK /\ QuietUnlessReady /\ MutexHeldInside
  BY DEF PInv, TInv
<1> USE NullAssumption DEF OpenOnEmpty
<1>1. ASSUME NEW c \in Conns, CtorOpen(c) PROVE OpenOnEmpty'
  BY <1>a, <1>1 DEF CtorOpen, threads, QuietUnlessReady
<1>2. ASSUME Destroy PROVE OpenOnEmpty'
  BY <1>a, <1>2 DEF Destroy, threads, QuietUnlessReady
<1>3. ASSUME NEW t \in Threads, GetIdle(t) \/ GetGrow(t) PROVE OpenOnEmpty'
  <2>1. \A u \in Threads : pc[u] # "open"
    BY <1>a, <1>3 DEF GetIdle, GetGrow, MutexHeldInside, InLock
  <2> QED BY <1>a, <1>3, <2>1 DEF GetIdle, GetGrow, lists, TypeOK
<1>4. ASSUME NEW t \in Threads, RetryFail(t) PROVE OpenOnEmpty'
  <2>1. \A u \in Threads \ {t} : pc[u] # "open"
    BY <1>a, <1>4 DEF RetryFail, MutexHeldInside, InLock
  <2> QED BY <1>a, <1>4, <2>1 DEF RetryFail, TypeOK
<1>5. ASSUME NEW t \in Threads, FreeShrink(t) \/ FreeKeep(t) PROVE OpenOnEmpty'
  <2>1. \A u \in Threads : pc[u] # "open"
    BY <1>a, <1>5 DEF FreeShrink, FreeKeep, MutexHeldInside, InLock
  <2> QED BY <1>a, <1>5, <2>1 DEF FreeShrink, FreeKeep, GiveBack, TypeOK
<1>6. ASSUME NEW t \in Threads,
             GetCall(t) \/ GetFull(t) \/ Wake(t) \/ OpenFail(t) \/ TestPass(t)
               \/ TestFail(t) \/ RetryOk(t)
      PROVE  OpenOnEmpty'
  BY <1>a, <1>6 DEF GetCall, GetFull, Wake, OpenFail, TestPass, TestFail, RetryOk, HandOut,
                   lists, TypeOK
<1>7. ASSUME NEW t \in Threads, NEW c \in Conns, OpenOk(t, c) \/ FreeCall(t, c) \/ Notice(t, c)
      PROVE  OpenOnEmpty'
  BY <1>a, <1>7 DEF OpenOk, FreeCall, Notice, lists, threads, TypeOK
<1>8. ASSUME NEW c \in Conns, Drop(c) PROVE OpenOnEmpty'
  BY <1>8 DEF Drop, lists, threads
<1>9. ASSUME CtorFail \/ SetMax \/ (\E r \in Ranges : SetMin(r)) \/ UNCHANGED vars
      PROVE  OpenOnEmpty'
  BY <1>9 DEF CtorFail, SetMax, SetMin, vars, lists, threads
<1> QED
  BY StepCases, <1>1, <1>2, <1>3, <1>4, <1>5, <1>6, <1>7, <1>8, <1>9

LEMMA OpenOnEmptyAlways == Spec => []OpenOnEmpty
<1>1. Init => OpenOnEmpty
  BY DEF Init, OpenOnEmpty
<1>2. PInv /\ OpenOnEmpty /\ [Next]_vars => OpenOnEmpty'
  BY OpenOnEmptyStep
<1> QED BY PInvAlways, <1>1, <1>2, PTL DEF Spec

\* Only a thread in "open" adds a connection to a pool in service.
LEMMA OnlyOpenGrows ==
  ASSUME TypeOK, [Next]_vars, phase = "ready", real' > real
  PROVE  \E t \in Threads, c \in Conns : OpenOk(t, c)
<1>1. real \in Nat
  BY DEF TypeOK
<1> QED
  BY StepCases, <1>1
  DEF CtorOpen, CtorFail, Destroy, GetCall, GetIdle, GetFull, GetGrow, Wake, OpenFail, TestPass,
      TestFail, RetryOk, RetryFail, HandOut, FreeCall, FreeShrink, FreeKeep, GiveBack,
      SetMin, SetMax, Drop, Notice, lists, vars

\* A connection is opened only when no idle one could have been used.
THEOREM NoNeedlessGrowth == Spec => GrowOnlyWhenNoneIdle
<1>1. PInv /\ OpenOnEmpty /\ [Next]_vars
        => [phase = "ready" /\ real' > real => idle = <<>>]_vars
  <2> SUFFICES ASSUME PInv, OpenOnEmpty, [Next]_vars, phase = "ready", real' > real
               PROVE  idle = <<>>
    OBVIOUS
  <2>1. PICK t \in Threads, c \in Conns : OpenOk(t, c)
    BY OnlyOpenGrows DEF PInv, TInv
  <2> QED BY <2>1 DEF OpenOk, OpenOnEmpty
<1> QED BY PInvAlways, OpenOnEmptyAlways, <1>1, PTL DEF Spec, GrowOnlyWhenNoneIdle

-----------------------------------------------------------------------------
\* The limits: while the constructor runs they are its defaults; afterwards
\* m_connMinNum is one of the configured minimums and the count stays above one.
FloorInv ==
  /\ phase = "building" => minNum = DefMin /\ maxNum = DefMax /\ pending = NoPending
  /\ minNum \in Minimums
  /\ FloorKept

LEMMA FloorStep ==
  ASSUME TInv, FloorInv, [Next]_vars
  PROVE  FloorInv'
<1>a. real \in Nat /\ minNum \in Nat
  BY DEF TInv, TypeOK
<1>b. Minimums \subseteq Nat
  BY LimitAssumption DEF Minimums
<1> USE DEF FloorInv, FloorKept
<1>1. ASSUME NEW c \in Conns, CtorOpen(c) PROVE FloorInv'
  BY <1>1, <1>a DEF CtorOpen, limits
<1>2. ASSUME CtorFail \/ Destroy PROVE FloorInv'
  BY <1>2 DEF CtorFail, Destroy, limits
<1>3. ASSUME NEW t \in Threads, NEW c \in Conns, OpenOk(t, c) PROVE FloorInv'
  <2>1. /\ phase' = phase /\ real' = real + 1 /\ UNCHANGED <<minNum, maxNum, pending>>
    BY <1>3 DEF OpenOk, limits
  <2>2. \A m \in Minimums : m <= real => m <= real'
    BY <1>a, <1>b, <2>1
  <2> QED BY <2>1, <2>2
<1>4. ASSUME NEW t \in Threads, FreeShrink(t) PROVE FloorInv'
  <2>1. /\ phase' = phase /\ UNCHANGED <<minNum, maxNum, pending>> /\ minNum <= real'
    BY <1>a, <1>4 DEF FreeShrink, GiveBack, Surplus, limits
  <2> QED BY <2>1
<1>5. ASSUME NEW r \in Ranges, SetMin(r) PROVE FloorInv'
  BY <1>5 DEF SetMin, lists, Minimums
<1>6. ASSUME SetMax PROVE FloorInv'
  BY <1>6 DEF SetMax, lists
<1>7. ASSUME NEW t \in Threads,
             GetCall(t) \/ GetIdle(t) \/ GetFull(t) \/ GetGrow(t) \/ Wake(t) \/ OpenFail(t)
               \/ TestPass(t) \/ TestFail(t) \/ RetryOk(t) \/ RetryFail(t) \/ FreeKeep(t)
      PROVE  FloorInv'
  BY <1>7 DEF GetCall, GetIdle, GetFull, GetGrow, Wake, OpenFail, TestPass, TestFail, RetryOk,
              RetryFail, FreeKeep, HandOut, GiveBack, lists, limits
<1>8. ASSUME NEW t \in Threads, NEW c \in Conns, FreeCall(t, c) \/ Notice(t, c)
      PROVE  FloorInv'
  BY <1>8 DEF FreeCall, Notice, lists, limits
<1>9. ASSUME (\E c \in Conns : Drop(c)) \/ UNCHANGED vars PROVE FloorInv'
  BY <1>9 DEF Drop, vars, lists, limits
<1> QED
  BY StepCases, <1>1, <1>2, <1>3, <1>4, <1>5, <1>6, <1>7, <1>8, <1>9

LEMMA FloorAlways == Spec => []FloorInv
<1>1. Init => FloorInv
  BY DEF Init, FloorInv, FloorKept, Minimums
<1>2. PInv /\ FloorInv /\ [Next]_vars => FloorInv'
  BY FloorStep DEF PInv
<1> QED BY PInvAlways, <1>1, <1>2, PTL DEF Spec

\* Deleting surplus connections never goes below every configured minimum.
THEOREM ShrinkStops == Spec => []FloorKept
<1>1. FloorInv => FloorKept
  BY DEF FloorInv
<1> QED BY FloorAlways, <1>1, PTL

\* A thread that decided to create still has room for one, and what setConnNum
\* is about to write is no lower than what it replaces.
CapInv ==
  /\ WithinMax
  /\ \A t \in Threads : pc[t] = "open" => real < maxNum
  /\ pending # NoPending => pending >= maxNum
  /\ phase = "building" => real < minNum

LEMMA CapStep ==
  ASSUME PInv, FloorInv, CapInv, [Next /\ Raising]_vars
  PROVE  CapInv'
<1>a. /\ real \in Nat /\ minNum \in Nat /\ maxNum \in Nat /\ pending \in Nat \cup {NoPending}
      /\ TypeOK /\ QuietUnlessReady /\ MutexHeldInside
  BY DEF PInv, TInv, TypeOK
<1>b. [Next]_vars /\ (Raising \/ UNCHANGED vars)
  OBVIOUS
<1> USE NullAssumption DEF CapInv, WithinMax
<1>1. ASSUME NEW c \in Conns, CtorOpen(c) PROVE CapInv'
  <2>1. /\ real' = real + 1 /\ UNCHANGED <<minNum, maxNum, pending, pc>>
        /\ minNum = DefMin /\ maxNum = DefMax /\ real < minNum
        /\ phase' = "building" => real' # minNum
        /\ \A t \in Threads : pc[t] = "out"
    BY <1>a, <1>1 DEF CtorOpen, limits, threads, FloorInv, QuietUnlessReady
  <2> QED BY <1>a, <2>1, LimitAssumption
<1>2. ASSUME CtorFail \/ Destroy PROVE CapInv'
  BY <1>2 DEF CtorFail, Destroy, lists, limits, threads
<1>3. ASSUME NEW t \in Threads, NEW c \in Conns, OpenOk(t, c) PROVE CapInv'
  <2>1. /\ pc[t] = "open" /\ pc' = [pc EXCEPT ![t] = "test"] /\ real' = real + 1
        /\ phase' = phase /\ UNCHANGED <<minNum, maxNum, pending>>
    BY <1>3 DEF OpenOk, limits
  <2>2. \A u \in Threads : pc'[u] # "open"
    BY <1>a, <2>1 DEF MutexHeldInside, InLock, TypeOK
  <2>3. phase = "ready"
    BY <1>a, <2>1 DEF QuietUnlessReady
  <2> QED BY <1>a, <2>1, <2>2, <2>3
<1>4. ASSUME NEW t \in Threads, FreeShrink(t) PROVE CapInv'
  <2>1. /\ pc' = [pc EXCEPT ![t] = "out"] /\ real' = real - 1
        /\ phase' = phase /\ UNCHANGED <<minNum, maxNum, pending>>
    BY <1>4 DEF FreeShrink, GiveBack, limits
  <2>2. \A u \in Threads : pc'[u] = "open" => pc[u] = "open"
    BY <1>a, <2>1 DEF TypeOK
  <2> QED BY <1>a, <2>1, <2>2
<1>5. ASSUME NEW t \in Threads, GetGrow(t) PROVE CapInv'
  BY <1>a, <1>5 DEF GetGrow, AtLimit, lists, limits, TypeOK
<1>6. ASSUME NEW r \in Ranges, SetMin(r) PROVE CapInv'
  BY <1>a, <1>b, <1>6 DEF SetMin, Raising, lists, threads, vars, limits
<1>7. ASSUME SetMax PROVE CapInv'
  BY <1>a, <1>7 DEF SetMax, lists, threads, NoPending
<1>8. ASSUME NEW t \in Threads,
             GetCall(t) \/ GetIdle(t) \/ GetFull(t) \/ Wake(t) \/ OpenFail(t)
               \/ TestPass(t) \/ TestFail(t) \/ RetryOk(t) \/ RetryFail(t) \/ FreeKeep(t)
      PROVE  CapInv'
  BY <1>a, <1>8 DEF GetCall, GetIdle, GetFull, Wake, OpenFail, TestPass, TestFail, RetryOk,
              RetryFail, FreeKeep, HandOut, GiveBack, lists, limits, TypeOK
<1>9. ASSUME NEW t \in Threads, NEW c \in Conns, FreeCall(t, c) \/ Notice(t, c)
      PROVE  CapInv'
  BY <1>a, <1>9 DEF FreeCall, Notice, lists, limits, threads, TypeOK
<1>10. ASSUME (\E c \in Conns : Drop(c)) \/ UNCHANGED vars PROVE CapInv'
  BY <1>10 DEF Drop, vars, lists, limits, threads
<1> QED
  BY <1>b, StepCases, <1>1, <1>2, <1>3, <1>4, <1>5, <1>6, <1>7, <1>8, <1>9, <1>10

LEMMA RaisingIsSpec == RaisingSpec => Spec
<1>1. [Next /\ Raising]_vars => [Next]_vars
  OBVIOUS
<1> QED BY <1>1, PTL DEF RaisingSpec, Spec

LEMMA CapAlways == RaisingSpec => []CapInv
<1>1. Init => CapInv
  BY LimitAssumption DEF Init, CapInv, WithinMax, NoPending
<1>2. PInv /\ FloorInv /\ CapInv /\ [Next /\ Raising]_vars => CapInv'
  BY CapStep
<1> QED BY PInvAlways, FloorAlways, RaisingIsSpec, <1>1, <1>2, PTL DEF RaisingSpec

\* Under callers that never lower the maximum the pool never exceeds it, also
\* while setConnNum's unlocked writes fall between a decision and its creation.
THEOREM CapHolds == RaisingSpec => []WithinMax
<1>1. CapInv => WithinMax
  BY DEF CapInv
<1> QED BY CapAlways, <1>1, PTL

\* Under the same callers no connection is opened at the maximum, neither by
\* the constructor nor by a getDBconnect whose limit moves under it.  That the
\* callers must owe this is what the run with a lowered maximum shows.
THEOREM CreateWithinMax == RaisingSpec => CreateRespectsMax
<1>1. PInv /\ FloorInv /\ CapInv /\ [Next]_vars => [real' > real => real < maxNum]_vars
  <2> SUFFICES ASSUME PInv, FloorInv, CapInv, [Next]_vars, real' > real
               PROVE  real < maxNum
    OBVIOUS
  <2>1. CASE phase = "ready"
    <3>1. PICK t \in Threads, c \in Conns : OpenOk(t, c)
      BY <2>1, OnlyOpenGrows DEF PInv, TInv
    <3> QED BY <3>1 DEF OpenOk, CapInv
  <2>2. CASE phase # "ready"
    <3>1. real \in Nat /\ \A t \in Threads : pc[t] = "out"
      BY <2>2 DEF PInv, TInv, TypeOK, QuietUnlessReady
    <3>2. \E c \in Conns : CtorOpen(c)
      BY StepCases, <2>2, <3>1
      DEF CtorFail, Destroy, GetCall, GetIdle, GetFull, GetGrow, Wake, OpenOk, OpenFail,
          TestPass, TestFail, RetryOk, RetryFail, FreeCall, FreeShrink, FreeKeep,
          SetMin, SetMax, Drop, Notice, lists, vars
    <3> QED BY <3>1, <3>2, LimitAssumption DEF CtorOpen, CapInv, FloorInv
  <2> QED BY <2>1, <2>2
<1> QED
  BY PInvAlways, FloorAlways, CapAlways, RaisingIsSpec, <1>1, PTL DEF Spec, CreateRespectsMax

-----------------------------------------------------------------------------
\* Every step of the pool is a step of the lease contract or hidden from it.
LEMMA LeaseStep ==
  ASSUME PInv, OpenOnEmpty, [Next]_vars
  PROVE  [Lease!LeaseNext]_(Lease!leaseVars)
<1> DEFINE Goal == [Lease!LeaseNext]_(Lease!leaseVars)
<1>a. /\ TypeOK /\ QuietUnlessReady /\ CurIsConn
      /\ Distinct(idle) /\ IdleNotBusy /\ BusyOwned /\ OwnedByOne /\ TestedIsNew /\ FreedIsHeld
  BY DEF PInv, TInv, Ownership, IdleDistinct, Distinct
\* Steps that move no connection and leave the stage alone.
<1>b. ASSUME UNCHANGED <<phase, idle, busy, held>> PROVE Goal
  BY <1>b DEF Lease!leaseVars, StageOf, Existing, Listed
<1>1. ASSUME NEW c \in Conns, CtorOpen(c) PROVE Goal
  <2>1. /\ phase = "building" /\ phase' \in {"building", "ready"} /\ UNCHANGED <<busy, held>>
        /\ idle' = Append(idle, c) /\ c \notin Existing
    BY <1>1 DEF CtorOpen, Fresh, threads
  <2>2. Existing' = Existing \cup {c}
    BY <1>a, <2>1, AppendListed DEF Existing, TypeOK
  <2>3. Lease!Fill(c)
    BY <2>1, <2>2 DEF Lease!Fill, StageOf
  <2> QED BY <2>3 DEF Lease!LeaseNext
<1>2. ASSUME CtorFail PROVE Goal
  <2>1. Lease!GiveUp
    BY <1>2 DEF CtorFail, Lease!GiveUp, StageOf, Existing, Listed, lists, threads
  <2> QED BY <2>1 DEF Lease!LeaseNext
<1>3. ASSUME Destroy PROVE Goal
  <2>1. /\ phase = "failed" /\ phase' = "gone" /\ UNCHANGED <<busy, held>>
        /\ Existing' = {}
    BY <1>a, <1>3 DEF Destroy, QuietUnlessReady, threads, Existing, Listed
  <2>2. Lease!GiveUp
    BY <2>1 DEF Lease!GiveUp, StageOf
  <2> QED BY <2>2 DEF Lease!LeaseNext
<1>c. ASSUME NEW t \in Threads, pc[t] # "out" PROVE StageOf = "serving" /\ phase = "ready"
  BY <1>a, <1>c DEF StageOf, QuietUnlessReady
<1>4. ASSUME NEW t \in Threads, GetIdle(t) PROVE Goal
  <2> DEFINE c == Head(idle)
  <2>1. /\ idle # <<>> /\ idle' = Tail(idle) /\ busy' = busy \cup {c}
        /\ UNCHANGED <<phase, held>> /\ pc[t] # "out"
    BY <1>4 DEF GetIdle
  <2>2. /\ c \in Listed(idle) /\ c \in Conns /\ Listed(idle') = Listed(idle) \ {c}
    BY <1>a, <2>1, TailListed DEF TypeOK
  <2>3. c \notin busy /\ c \in Existing /\ Existing' = Existing \cup {c}
    BY <1>a, <2>1, <2>2 DEF IdleNotBusy, Existing, Listed
  <2>4. Lease!Take(c)
    BY <1>c, <2>1, <2>3 DEF Lease!Take, StageOf
  <2> QED BY <2>2, <2>4 DEF Lease!LeaseNext
<1>5. ASSUME NEW t \in Threads, NEW c \in Conns, OpenOk(t, c) PROVE Goal
  <2>1. /\ UNCHANGED <<phase, idle, held>> /\ busy' = busy \cup {c} /\ c \notin Existing
        /\ pc[t] = "open"
    BY <1>5 DEF OpenOk, Fresh
  <2>2. idle = <<>>
    BY <2>1 DEF OpenOnEmpty
  <2>3. Existing = busy /\ Existing' = busy \cup {c}
    BY <2>1, <2>2 DEF Existing, Listed
  <2>4. Lease!Take(c)
    BY <1>c, <2>1, <2>3 DEF Lease!Take, StageOf
  <2> QED BY <2>4 DEF Lease!LeaseNext
<1>d. ASSUME NEW t \in Threads, pc[t] \in {"test", "retry"}, HandOut(t) PROVE Goal
  <2>1. InTest(t) = {cur[t]} /\ cur[t] \in Conns
    BY <1>a, <1>d DEF InTest, CurIsConn
  <2>2. cur[t] \in busy /\ \A u \in Threads : cur[t] \notin held[u]
    BY <1>a, <2>1 DEF BusyOwned, OwnedByOne, TestedIsNew, Owned
  <2>3. /\ held' = [held EXCEPT ![t] = @ \cup {cur[t]}] /\ UNCHANGED <<phase, idle, busy>>
    BY <1>d DEF HandOut, lists
  <2>4. Lease!Grant(t, cur[t])
    BY <2>2, <2>3 DEF Lease!Grant, StageOf, Existing, Listed
  <2> QED BY <2>1, <2>4 DEF Lease!LeaseNext
<1>6. ASSUME NEW t \in Threads, TestPass(t) \/ RetryOk(t) PROVE Goal
  BY <1>d, <1>6 DEF TestPass, RetryOk
<1>7. ASSUME NEW t \in Threads, RetryFail(t) PROVE Goal
  <2> DEFINE c == cur[t]
  <2>1. /\ pc[t] = "retry" /\ idle' = Append(idle, c) /\ busy' = busy \ {c}
        /\ UNCHANGED <<phase, held>>
    BY <1>7 DEF RetryFail
  <2>2. InTest(t) = {c} /\ c \in Conns
    BY <1>a, <2>1 DEF InTest, CurIsConn
  <2>3. c \in busy /\ \A u \in Threads : c \notin held[u]
    BY <1>a, <2>2 DEF BusyOwned, OwnedByOne, TestedIsNew, Owned
  <2>4. Listed(idle') = Listed(idle) \cup {c}
    BY <1>a, <2>1, <2>2, AppendListed DEF TypeOK
  <2>5. Existing' = Existing
    BY <2>1, <2>3, <2>4 DEF Existing, Listed
  <2>6. Lease!PutBack(c)
    BY <2>1, <2>3, <2>5 DEF Lease!PutBack, StageOf
  <2> QED BY <2>2, <2>6 DEF Lease!LeaseNext
<1>8. ASSUME NEW t \in Threads, FreeShrink(t) \/ FreeKeep(t) PROVE Goal
  <2> DEFINE c == cur[t]
  <2>1. /\ pc[t] = "free" /\ GiveBack(t) /\ (idle' = idle \/ idle' = Append(idle, c))
    BY <1>8 DEF FreeShrink, FreeKeep
  <2>2. c \in held[t] /\ c \in Conns /\ c \in busy
    BY <1>a, <2>1 DEF FreedIsHeld, CurIsConn, BusyOwned, Owned
  <2>3. c \notin Listed(idle)
    BY <1>a, <2>2 DEF IdleNotBusy
  <2>4. /\ held' = [held EXCEPT ![t] = @ \ {c}] /\ busy' = busy \ {c} /\ phase' = phase
    BY <2>1 DEF GiveBack
  <2>5. Listed(idle') \in {Listed(idle), Listed(idle) \cup {c}}
    <3>1. CASE idle' = idle
      BY <3>1
    <3>2. CASE idle' = Append(idle, c)
      <4>1. idle \in Seq(Conns)
        BY <1>a DEF TypeOK
      <4>2. Listed(Append(idle, c)) = Listed(idle) \cup {c}
        BY <2>2, <4>1, AppendListed
      <4> QED BY <3>2, <4>2
    <3> QED BY <2>1, <3>1, <3>2
  <2>6. Existing' \in {Existing, Existing \ {c}}
    BY <2>2, <2>3, <2>4, <2>5 DEF Existing, Listed
  <2>7. Lease!Return(t, c)
    BY <2>2, <2>4, <2>6 DEF Lease!Return, StageOf
  <2> QED BY <2>2, <2>7 DEF Lease!LeaseNext
<1>9. ASSUME NEW t \in Threads,
             GetCall(t) \/ GetFull(t) \/ GetGrow(t) \/ Wake(t) \/ OpenFail(t) \/ TestFail(t)
      PROVE  Goal
  BY <1>b, <1>9 DEF GetCall, GetFull, GetGrow, Wake, OpenFail, TestFail, lists
<1>10. ASSUME NEW t \in Threads, NEW c \in Conns, FreeCall(t, c) \/ Notice(t, c) PROVE Goal
  BY <1>b, <1>10 DEF FreeCall, Notice, lists, threads
<1>11. ASSUME SetMax \/ (\E r \in Ranges : SetMin(r)) \/ (\E c \in Conns : Drop(c))
                \/ UNCHANGED vars
       PROVE  Goal
  BY <1>b, <1>11 DEF SetMax, SetMin, Drop, vars, lists, threads
<1> QED
  BY StepCases, <1>1, <1>2, <1>3, <1>4, <1>5, <1>6, <1>7, <1>8, <1>9, <1>10, <1>11

\* CDBConnPool implements the lease contract.
THEOREM PoolImplementsLease == Spec => ImplementsLease
<1>1. Init => Lease!LeaseInit
  BY DEF Init, Lease!LeaseInit, StageOf, Existing, Listed
<1>2. PInv /\ OpenOnEmpty /\ [Next]_vars => [Lease!LeaseNext]_(Lease!leaseVars)
  BY LeaseStep
<1> QED
  BY PInvAlways, OpenOnEmptyAlways, <1>1, <1>2, PTL DEF Spec, ImplementsLease, Lease!LeaseSpec

\* What the contract promises the clients holds of the code.  No step of the
\* pool moves a connection from one thread's CDBQuery to another's: the sessions
\* of two borrowers never overlap (MysqlSession, SqliteSession, PgsqlSession
\* start a borrower where the one before it has left).
THEOREM NoDirectHandover == Spec => Lease!ThroughPool
  BY PoolImplementsLease, Lease!HandoverThroughPool, PTL DEF ImplementsLease

\* A freeDBconnect that deletes a connection deletes the one it was given and
\* never one a CDBQuery still has.
THEOREM OnlyReturnedClosed == Spec => Lease!ClosedByLast
  BY PoolImplementsLease, Lease!ClosedByLastClient, PTL DEF ImplementsLease

=============================================================================
