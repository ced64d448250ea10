------------------------------- MODULE ConnPool -------------------------------
(***************************************************************************)
(* CDBConnPool: the connection pool every CDBQuery borrows from.            *)
(*                                                                          *)
(* Client threads call getDBconnect and freeDBconnect; both run under       *)
(* m_mutex, and getDBconnect keeps the mutex across its network calls       *)
(* (connect, ping), so each of those calls is a step of its own.  The code  *)
(* between lock() and the first network call or unlock() touches nothing    *)
(* another thread can observe meanwhile and is one step.  setConnNum takes  *)
(* no mutex: its two assignments are two steps that fall anywhere.          *)
(*                                                                          *)
(* A connection is an element of Conns; an id that was deleted may come     *)
(* back, as a heap address may.  m_busyConns is only ever searched by       *)
(* value and counted, so it is a set; m_idleConns is a FIFO.                *)
(***************************************************************************)
EXTENDS Naturals, Integers, Sequences, FiniteSets

CONSTANTS
  Threads,      \* client threads
  NoThread,     \* the mutex is free
  Conns,        \* connection objects
  NoConn,       \* nullptr
  DefMin,       \* m_connMinNum as the constructor sets it (3)
  DefMax,       \* m_connMaxNum as the constructor sets it (10)
  Ranges,       \* the [min, max] pairs setLinkCount may be called with
  NestLimit,    \* bound: connections one thread holds at a time
  PingsServer   \* connctionTest asks the server (MySQL) or reads the
                \* client's cached status (PostgreSQL)

ASSUME NullAssumption == NoThread \notin Threads /\ NoConn \notin Conns

ASSUME LimitAssumption ==
  /\ DefMin \in Nat \ {0}
  /\ DefMax \in Nat
  /\ DefMin <= DefMax
  /\ Ranges \subseteq [min : Nat, max : Nat]
  /\ \A r \in Ranges : r.min <= r.max       \* setLinkCount refuses the others
  /\ NestLimit \in Nat
  /\ PingsServer \in BOOLEAN

VARIABLES
  phase,        \* life of the pool object: "building" in the constructor
  idle,         \* m_idleConns
  busy,         \* m_busyConns
  real,         \* m_connRealNum
  minNum,       \* m_connMinNum
  maxNum,       \* m_connMaxNum
  pending,      \* setConnNum's second argument between its two writes, or -1
  mutex,        \* the thread that holds m_mutex, or NoThread
  pc,           \* where each thread is in getDBconnect or freeDBconnect
  cur,          \* each thread's pConn, or the conn it is giving back
  waits,        \* each thread's is_wait
  held,         \* the connections each thread's CDBQuery objects hold
  link          \* what each connection's client library handle is worth

limits  == <<minNum, maxNum, pending>>
threads == <<mutex, pc, cur, waits, held>>
lists   == <<idle, busy, real>>
vars    == <<phase, lists, limits, threads, link>>

NoPending == -1

\* Control points of a thread.  "open", "test" and "retry" hold the mutex.
Points == {"out", "get", "sleep", "open", "test", "retry", "free"}
InLock == {"open", "test", "retry"}

\* "live"    the handle talks to the server
\* "dropped" the server side is gone and the client has not noticed
\* "bad"     the client library has marked the handle broken
\* "none"    no handle: the connection object is disconnected
Links == {"live", "dropped", "bad", "none"}

Listed(s) == {s[i] : i \in DOMAIN s}
Existing  == Listed(idle) \cup busy
Fresh     == Conns \ Existing

-----------------------------------------------------------------------------
\* Seeded defects: what an action or test below would be with a plausible slip
\* in the code.  None is part of the specification; each shows that a property
\* notices the slip.

\* pConn is cleared before it is put back.
RetryFailNulled(t) ==
  /\ pc[t] = "retry"
  /\ busy' = busy \ {cur[t]}
  /\ cur'  = [cur EXCEPT ![t] = NoConn]
  /\ idle' = Append(idle, cur'[t])
  /\ mutex' = NoThread
  /\ pc' = [pc EXCEPT ![t] = "out"]
  /\ UNCHANGED <<phase, real, limits, waits, held, link>>

\* The failed connection is not removed from the busy list.
RetryFailStillBusy(t) ==
  /\ pc[t] = "retry"
  /\ idle' = Append(idle, cur[t])
  /\ cur'  = [cur EXCEPT ![t] = NoConn]
  /\ mutex' = NoThread
  /\ pc' = [pc EXCEPT ![t] = "out"]
  /\ UNCHANGED <<phase, busy, real, limits, waits, held, link>>

\* The connection is returned although connect() failed.
RetryFailReturned(t) ==
  /\ pc[t] = "retry"
  /\ held' = [held EXCEPT ![t] = @ \cup {cur[t]}]
  /\ cur'  = [cur EXCEPT ![t] = NoConn]
  /\ mutex' = NoThread
  /\ pc' = [pc EXCEPT ![t] = "out"]
  /\ UNCHANGED <<phase, lists, limits, waits, link>>

\* The failed creation returns without unlock().
OpenFailLocked(t) ==
  /\ pc[t] = "open"
  /\ pc' = [pc EXCEPT ![t] = "out"]
  /\ UNCHANGED <<phase, lists, limits, mutex, cur, waits, held, link>>

\* The mutex is released around the connect() of a new connection.
GetGrowUnlocked(t) ==
  /\ pc[t] = "get" /\ mutex = NoThread
  /\ idle = <<>> /\ real # maxNum
  /\ pc' = [pc EXCEPT ![t] = "open"]
  /\ UNCHANGED <<phase, lists, limits, mutex, cur, waits, held, link>>

\* The thread sleeps with the mutex locked.
GetFullLocked(t) ==
  /\ pc[t] = "get" /\ mutex = NoThread
  /\ idle = <<>> /\ real = maxNum
  /\ mutex' = t
  /\ pc' = [pc EXCEPT ![t] = "sleep"]
  /\ UNCHANGED <<phase, lists, limits, cur, waits, held, link>>

\* The limit test is off by one.
AtLimitLate == real > maxNum

\* The test trusts the handle's cached state on every driver.
PassLinksCached(l) == IF l \in {"none", "bad"} THEN {} ELSE {l}

\* The test is always taken as passed.
PassLinksUntested(l) == {l}

\* The surplus test forgets the minimum.
SurplusNoFloor(t) == Cardinality(busy \ {cur[t]}) * 3 < Len(idle)

\* A deleted connection is still counted.
FreeShrinkUncounted(t) ==
  /\ pc[t] = "free" /\ mutex = NoThread
  /\ Cardinality(busy \ {cur[t]}) * 3 < Len(idle) /\ real > minNum
  /\ link' = [link EXCEPT ![cur[t]] = "none"]
  /\ busy' = busy \ {cur[t]}
  /\ held' = [held EXCEPT ![t] = @ \ {cur[t]}]
  /\ cur'  = [cur EXCEPT ![t] = NoConn]
  /\ pc'   = [pc EXCEPT ![t] = "out"]
  /\ UNCHANGED <<phase, idle, real, limits, mutex, waits>>

\* The returned connection stays in the busy list.
GiveBackStillBusy(t) ==
  /\ held' = [held EXCEPT ![t] = @ \ {cur[t]}]
  /\ cur'  = [cur EXCEPT ![t] = NoConn]
  /\ pc'   = [pc EXCEPT ![t] = "out"]
  /\ UNCHANGED <<phase, busy, limits, mutex, waits>>

\* The returned connection is not put into the idle list.
FreeKeepLost(t) ==
  /\ pc[t] = "free" /\ mutex = NoThread
  /\ busy' = busy \ {cur[t]}
  /\ held' = [held EXCEPT ![t] = @ \ {cur[t]}]
  /\ cur'  = [cur EXCEPT ![t] = NoConn]
  /\ pc'   = [pc EXCEPT ![t] = "out"]
  /\ UNCHANGED <<phase, idle, real, link, limits, mutex, waits>>

-----------------------------------------------------------------------------
\* connctionTest on a handle: the states it may be in after the test passed
\* (empty: it cannot pass), and whether the test may fail.  mysql_ping
\* reconnects on its own (MYSQL_OPT_RECONNECT) when the server can be reached.
PassLinks(l) == IF l \in {"none", "bad"} THEN {}
                ELSE IF PingsServer THEN {"live"} ELSE {l}
MayFail(l)   == l \in {"none", "bad"} \/ (PingsServer /\ l = "dropped")

-----------------------------------------------------------------------------
Init ==
  /\ phase = "building"
  /\ idle = <<>> /\ busy = {} /\ real = 0
  /\ minNum = DefMin /\ maxNum = DefMax /\ pending = NoPending
  /\ mutex = NoThread
  /\ pc    = [t \in Threads |-> "out"]
  /\ cur   = [t \in Threads |-> NoConn]
  /\ waits = [t \in Threads |-> FALSE]
  /\ held  = [t \in Threads |-> {}]
  /\ link  = [c \in Conns |-> "none"]

\* One round of the constructor's loop: createDBConnect succeeds.
CtorOpen(c) ==
  /\ phase = "building"
  /\ c \in Fresh
  /\ link' = [link EXCEPT ![c] = "live"]
  /\ idle' = Append(idle, c)
  /\ real' = real + 1
  /\ phase' = IF real' = minNum THEN "ready" ELSE "building"
  /\ UNCHANGED <<busy, limits, threads>>

\* createDBConnect returns nullptr: the constructor leaves m_isSuccess false.
CtorFail ==
  /\ phase = "building"
  /\ phase' = "failed"
  /\ UNCHANGED <<lists, limits, threads, link>>

\* The destructor, which CDBPool::create runs on a pool that failed.
Destroy ==
  /\ phase = "failed"
  /\ phase' = "gone"
  /\ link' = [c \in Conns |-> IF c \in Existing THEN "none" ELSE link[c]]
  /\ idle' = <<>> /\ busy' = {}
  /\ UNCHANGED <<real, limits, threads>>

-----------------------------------------------------------------------------
\* getDBconnect(is_wait) is called.
GetCall(t) ==
  /\ phase = "ready"
  /\ pc[t] = "out"
  /\ Cardinality(held[t]) < NestLimit
  /\ \E w \in BOOLEAN : waits' = [waits EXCEPT ![t] = w]
  /\ pc' = [pc EXCEPT ![t] = "get"]
  /\ UNCHANGED <<phase, lists, limits, mutex, cur, held, link>>

\* Locked, and an idle connection is there: move the front one to busy.
GetIdle(t) ==
  /\ pc[t] = "get" /\ mutex = NoThread
  /\ idle # <<>>
  /\ cur'  = [cur EXCEPT ![t] = Head(idle)]
  /\ busy' = busy \cup {Head(idle)}
  /\ idle' = Tail(idle)
  /\ mutex' = t
  /\ pc' = [pc EXCEPT ![t] = "test"]
  /\ UNCHANGED <<phase, real, limits, waits, held, link>>

\* Locked, none idle, and the count equals the maximum: unlock and sleep.
AtLimit == real = maxNum
GetFull(t) ==
  /\ pc[t] = "get" /\ mutex = NoThread
  /\ idle = <<>> /\ AtLimit
  /\ pc' = [pc EXCEPT ![t] = "sleep"]
  /\ UNCHANGED <<phase, lists, limits, mutex, cur, waits, held, link>>

\* Locked, none idle, any other count: go and create one, mutex held.
GetGrow(t) ==
  /\ pc[t] = "get" /\ mutex = NoThread
  /\ idle = <<>> /\ ~AtLimit
  /\ mutex' = t
  /\ pc' = [pc EXCEPT ![t] = "open"]
  /\ UNCHANGED <<phase, lists, limits, cur, waits, held, link>>

\* Sleep(100) is over: goto Restart, or return nullptr.
Wake(t) ==
  /\ pc[t] = "sleep"
  /\ pc' = [pc EXCEPT ![t] = IF waits[t] THEN "get" ELSE "out"]
  /\ UNCHANGED <<phase, lists, limits, mutex, cur, waits, held, link>>

\* createDBConnect returns a new connection.
OpenOk(t, c) ==
  /\ pc[t] = "open"
  /\ c \in Fresh
  /\ link' = [link EXCEPT ![c] = "live"]
  /\ real' = real + 1
  /\ busy' = busy \cup {c}
  /\ cur'  = [cur EXCEPT ![t] = c]
  /\ pc'   = [pc EXCEPT ![t] = "test"]
  /\ UNCHANGED <<phase, idle, limits, mutex, waits, held>>

\* createDBConnect returns nullptr: unlock, return nullptr.
OpenFail(t) ==
  /\ pc[t] = "open"
  /\ mutex' = NoThread
  /\ pc' = [pc EXCEPT ![t] = "out"]
  /\ UNCHANGED <<phase, lists, limits, cur, waits, held, link>>

\* Unlock and return pConn to the caller, which now holds it.
HandOut(t) ==
  /\ mutex' = NoThread
  /\ pc'   = [pc EXCEPT ![t] = "out"]
  /\ held' = [held EXCEPT ![t] = @ \cup {cur[t]}]
  /\ cur'  = [cur EXCEPT ![t] = NoConn]
  /\ UNCHANGED <<phase, lists, limits, waits>>

TestPass(t) ==
  /\ pc[t] = "test"
  /\ \E l \in PassLinks(link[cur[t]]) : link' = [link EXCEPT ![cur[t]] = l]
  /\ HandOut(t)

\* The test failed: disconnect(), then connect() starts.
TestFail(t) ==
  /\ pc[t] = "test"
  /\ MayFail(link[cur[t]])
  /\ link' = [link EXCEPT ![cur[t]] = "none"]
  /\ pc' = [pc EXCEPT ![t] = "retry"]
  /\ UNCHANGED <<phase, lists, limits, mutex, cur, waits, held>>

RetryOk(t) ==
  /\ pc[t] = "retry"
  /\ link' = [link EXCEPT ![cur[t]] = "live"]
  /\ HandOut(t)

\* connect() failed: back to the tail of the idle list, return nullptr.
RetryFail(t) ==
  /\ pc[t] = "retry"
  /\ busy' = busy \ {cur[t]}
  /\ idle' = Append(idle, cur[t])
  /\ cur'  = [cur EXCEPT ![t] = NoConn]
  /\ mutex' = NoThread
  /\ pc' = [pc EXCEPT ![t] = "out"]
  /\ UNCHANGED <<phase, real, limits, waits, held, link>>

-----------------------------------------------------------------------------
\* freeDBconnect(conn) is called by the destructor of the CDBQuery that holds
\* conn; clearQuery() touches only that connection.
FreeCall(t, c) ==
  /\ pc[t] = "out"
  /\ c \in held[t]
  /\ cur' = [cur EXCEPT ![t] = c]
  /\ pc'  = [pc EXCEPT ![t] = "free"]
  /\ UNCHANGED <<phase, lists, limits, mutex, waits, held, link>>

\* Evaluated with conn already removed from the busy list.
Surplus(t) == Cardinality(busy \ {cur[t]}) * 3 < Len(idle) /\ real > minNum

GiveBack(t) ==
  /\ busy' = busy \ {cur[t]}
  /\ held' = [held EXCEPT ![t] = @ \ {cur[t]}]
  /\ cur'  = [cur EXCEPT ![t] = NoConn]
  /\ pc'   = [pc EXCEPT ![t] = "out"]
  /\ UNCHANGED <<phase, limits, mutex, waits>>

\* Locked, too many idle: delete the connection.
FreeShrink(t) ==
  /\ pc[t] = "free" /\ mutex = NoThread
  /\ Surplus(t)
  /\ link' = [link EXCEPT ![cur[t]] = "none"]
  /\ real' = real - 1
  /\ idle' = idle
  /\ GiveBack(t)

\* Locked, otherwise: append it to the idle list.
FreeKeep(t) ==
  /\ pc[t] = "free" /\ mutex = NoThread
  /\ ~Surplus(t)
  /\ idle' = Append(idle, cur[t])
  /\ GiveBack(t)
  /\ UNCHANGED <<real, link>>

-----------------------------------------------------------------------------
\* setConnNum: m_connMinNum, then m_connMaxNum, without the mutex.
SetMin(r) ==
  /\ phase = "ready"
  /\ pending = NoPending
  /\ minNum' = r.min
  /\ pending' = r.max
  /\ UNCHANGED <<phase, lists, maxNum, threads, link>>

SetMax ==
  /\ pending # NoPending
  /\ maxNum' = pending
  /\ pending' = NoPending
  /\ UNCHANGED <<phase, lists, minNum, threads, link>>

\* The server closes a connection, or the network loses it.
Drop(c) ==
  /\ c \in Existing
  /\ link[c] = "live"
  /\ link' = [link EXCEPT ![c] = "dropped"]
  /\ UNCHANGED <<phase, lists, limits, threads>>

\* A statement on a dropped connection fails and libpq marks the handle.
Notice(t, c) ==
  /\ pc[t] = "out"
  /\ c \in held[t]
  /\ ~PingsServer
  /\ link[c] = "dropped"
  /\ link' = [link EXCEPT ![c] = "bad"]
  /\ UNCHANGED <<phase, lists, limits, threads>>

\* After the destructor nothing happens any more.
Gone == phase = "gone" /\ UNCHANGED vars

-----------------------------------------------------------------------------
LockStep(t)   == GetIdle(t) \/ GetFull(t) \/ GetGrow(t)
                   \/ FreeShrink(t) \/ FreeKeep(t)
LockedStep(t) == \/ \E c \in Conns : OpenOk(t, c)
                 \/ OpenFail(t)
                 \/ TestPass(t) \/ TestFail(t)
                 \/ RetryOk(t) \/ RetryFail(t)
Release(t)    == \E c \in Conns : FreeCall(t, c)
ThreadStep(t) == GetCall(t) \/ Wake(t) \/ Release(t)
                   \/ LockStep(t) \/ LockedStep(t)

Environment ==
  \/ \E c \in Conns : CtorOpen(c) \/ Drop(c)
  \/ CtorFail
  \/ Destroy
  \/ \E r \in Ranges : SetMin(r)
  \/ SetMax
  \/ \E t \in Threads, c \in Conns : Notice(t, c)

Next == (\E t \in Threads : ThreadStep(t)) \/ Environment \/ Gone

Spec == Init /\ [][Next]_vars

\* Callers of setConnNum never lower the maximum.  TLC takes Raising as an
\* action constraint, so that Next stays split into its actions.
Raising == pending' # NoPending => pending' >= maxNum
RaisingSpec == Init /\ [][Next /\ Raising]_vars

\* What the scheduler and the callers owe the pool: a step that holds the
\* mutex ends (connect and ping return), a sleep ends, a CDBQuery is destroyed
\* some day, and a thread that keeps finding the mutex free gets it some day.
Fairness ==
  /\ \A t \in Threads :
       /\ WF_vars(LockedStep(t))
       /\ SF_vars(LockStep(t))
       /\ WF_vars(Wake(t))
       /\ WF_vars(Release(t))
  /\ WF_vars(SetMax)

FairSpec == Spec /\ Fairness


-----------------------------------------------------------------------------
\* The variables stay in their domains (the members of CDBConnPool and the
\* locals of getDBconnect and freeDBconnect).
TypeOK ==
  /\ phase \in {"building", "ready", "failed", "gone"}
  /\ idle \in Seq(Conns)
  /\ busy \subseteq Conns
  /\ real \in Nat
  /\ minNum \in Nat /\ maxNum \in Nat /\ pending \in Nat \cup {NoPending}
  /\ mutex \in Threads \cup {NoThread}
  /\ pc \in [Threads -> Points]
  /\ cur \in [Threads -> Conns \cup {NoConn}]
  /\ waits \in [Threads -> BOOLEAN]
  /\ held \in [Threads -> SUBSET Conns]
  /\ link \in [Conns -> Links]

\* m_connRealNum, which every path adjusts by hand, equals the two lists'
\* sizes whenever another thread could look.
CountsMatch == phase # "gone" => real = Len(idle) + Cardinality(busy)

IdleDistinct == \A i, j \in DOMAIN idle : idle[i] = idle[j] => i = j
IdleNotBusy  == Listed(idle) \cap busy = {}
\* The connections getDBconnect has put into busy and not returned yet.
InTest(t)    == IF pc[t] \in {"test", "retry"} THEN {cur[t]} ELSE {}
Owned(t)     == held[t] \cup InTest(t)
BusyOwned    == busy = UNION {Owned(t) : t \in Threads}
OwnedByOne   == \A t, u \in Threads : t # u => Owned(t) \cap Owned(u) = {}
TestedIsNew  == \A t \in Threads : held[t] \cap InTest(t) = {}
FreedIsHeld  == \A t \in Threads : pc[t] = "free" => cur[t] \in held[t]

\* A connection is idle or busy and never both or twice; a busy one is held by
\* exactly one thread or is being tested by exactly one, so none is lost in
\* the busy list and none is shared by two callers of getDBconnect.
Ownership ==
  IdleDistinct /\ IdleNotBusy /\ BusyOwned /\ OwnedByOne /\ TestedIsNew
    /\ FreedIsHeld

\* m_mutex is held exactly by a thread inside getDBconnect's locked part: each
\* of its return paths unlocks, and none returns or sleeps with the mutex.
MutexHeldInside == \A t \in Threads : mutex = t <=> pc[t] \in InLock

\* A CDBQuery never holds a connection object without a handle: the one whose
\* reconnection failed is back in the idle list and is tested again before
\* the next caller gets it.
HeldHaveHandle == \A t \in Threads : \A c \in held[t] : link[c] # "none"

\* As long as callers only raise the limit, there are never more connections
\* than the maximum allows, also while setConnNum writes it under a thread
\* that has decided to create one (README.md:11).
WithinMax == real <= maxNum

\* Surplus connections are deleted down to a configured minimum and no
\* further, whichever of setConnNum's values a concurrent freeDBconnect reads.
Minimums  == {DefMin} \cup {r.min : r \in Ranges}
FloorKept == phase = "ready" => \E m \in Minimums : m <= real

\* Every connection getDBconnect returns works at the moment it is returned
\* (README.md:9: the connection is checked before it is handed out).
HandedOutLive ==
  [][\A t \in Threads : \A c \in held'[t] \ held[t] : link'[c] = "live"]_vars

\* Whatever the driver's test can know, a handle that the client library has
\* marked broken, or a connection object without one, is never handed out
\* (CDBConnPool.cpp:148-166: the connection is tested, and one that fails is
\* reconnected or put back).
HandedOutUsable ==
  [][\A t \in Threads : \A c \in held'[t] \ held[t] :
       link'[c] \in {"live", "dropped"}]_vars

\* A caller of getDBconnect is made to wait only when CDBQuery objects hold as
\* many connections as the maximum allows: no connection that was put back,
\* failed its test or was deleted still counts against those who wait.
NoNeedlessWait ==
  [][\A t \in Threads : pc[t] = "get" /\ pc'[t] = "sleep" =>
       idle = <<>> /\ Cardinality(UNION {held[u] : u \in Threads}) = maxNum]_vars

\* The pool opens a connection only when none is idle: no other thread can
\* return one while a creation that was decided on an empty list goes on.
GrowOnlyWhenNoneIdle ==
  [][phase = "ready" /\ real' > real => idle = <<>>]_vars

\* No connection is opened when there are already as many as the maximum
\* (README.md:11, CDBPool.h:86: connMaxNum is the largest number).
CreateRespectsMax == [][real' > real => real < maxNum]_vars

\* The mutex is given back: no step that runs under it waits for a thread
\* that needs it.
MutexFreed == mutex # NoThread ~> mutex = NoThread

Waiting(t)  == pc[t] \in {"get", "sleep"} /\ waits[t]
Answers     == \E t \in Threads : pc[t] \in InLock /\ pc'[t] = "out"
NoNewCalls  == \A t \in Threads : pc[t] = "out" => pc'[t] # "get"

\* getDBconnect(true) keeps being answered for somebody: callers that poll for
\* a connection cannot all poll for ever.
PoolServes ==
  ([]<>(\E t \in Threads : Waiting(t))) => []<><<Answers>>_vars

\* CDBConnPool.h:29, "wait until there is a connection": once no new caller
\* competes, every waiting caller is answered.
WaitersAnswered ==
  <>[][NoNewCalls]_vars => \A t \in Threads : Waiting(t) ~> pc[t] = "out"

\* The lease contract: a busy connection is taken, a held one is leased.
StageOf == IF phase = "building" THEN "filling"
           ELSE IF phase = "ready" THEN "serving" ELSE phase
Lease == INSTANCE ConnLease
           WITH Clients <- Threads, stage <- StageOf, open <- Existing,
                taken <- busy, lease <- held

\* CDBConnPool implements the lease contract: whatever the mutex, the lists,
\* the counter and the health tests do, a client sees exclusive leases.
ImplementsLease == Lease!LeaseSpec

=============================================================================
