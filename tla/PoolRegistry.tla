----------------------------- MODULE PoolRegistry -----------------------------
(***************************************************************************)
(* CDBPool and the construction and destruction of CDBQuery: which pool     *)
(* objects exist, which name and which default they are known by, and who   *)
(* still points at them.                                                    *)
(*                                                                          *)
(* g_mapPools and g_defPool are globals without a lock.  CDBPool::create    *)
(* looks a name up, builds a pool (network calls) and publishes it in two   *)
(* assignments; CDBPool::clear unpublishes in two and then deletes.  One    *)
(* thread administers the pools while other threads construct and destroy   *)
(* CDBQuery objects, and every statement that reads or writes a global is a *)
(* step of its own.  A pool object is an element of Pools and its address   *)
(* is not used again, so that a stale pointer stays recognisable; inside,   *)
(* it is a ConnPool, of which only getDBconnect's answer shows here.        *)
(***************************************************************************)
EXTENDS Naturals, Integers

CONSTANTS
  Names,        \* names of pools, in the order of std::map
  Pools,        \* CDBConnPool objects
  Null,         \* nullptr
  Absent,       \* no entry in g_mapPools
  Wild,         \* a member the constructor left uninitialised
  Configs,      \* CDBPool objects
  Queries,      \* CDBQuery objects
  DefLimits,    \* the limits CDBConnPool's constructor sets (3, 10)
  Ranges,       \* arguments of setLinkCount
  Garbage,      \* what uninitialised m_connMinNum, m_connMaxNum may hold
  CtorKinds,    \* which constructors of CDBPool are used
  UnknownNames  \* CDBQuery(name) may be given a name nobody created

ASSUME NamesAssumption == Names \subseteq Nat
ASSUME ValuesAssumption ==
  /\ Null \notin Pools /\ Absent \notin Pools /\ Wild \notin Pools
  /\ Null # Absent /\ Null # Wild
  /\ Absent # Wild
  /\ {DefLimits} \cup Ranges \cup Garbage \subseteq [min : Int, max : Int]
  /\ CtorKinds \subseteq {"default", "full"}
  /\ UnknownNames \in BOOLEAN

VARIABLES
  state,    \* life of each pool object
  limits,   \* each pool's m_connMinNum and m_connMaxNum
  reg,      \* g_mapPools: Absent, or the pointer stored under a name
  defPool,  \* g_defPool
  made,     \* which CDBPool objects exist and have credentials
  mpool,    \* CDBPool::m_pool
  stored,   \* CDBPool::m_connMinNum and m_connMaxNum
  want,     \* the limits each CDBPool's caller expects, NoPromise if it cannot
  admin,    \* where the administering thread is in create or clear
  told,     \* names whose create returned 0 and that were not cleared since
  qpc,      \* where each CDBQuery is in its life
  qpool,    \* CDBQuery::m_pool
  qconn     \* the pool CDBQuery::m_dbConn was taken from, or Null

poolVars   == <<state, limits>>
globals    == <<reg, defPool>>
configVars == <<made, mpool, stored, want>>
queryVars  == <<qpc, qpool, qconn>>
vars == <<poolVars, globals, configVars, admin, told, queryVars>>

Zero == [min |-> 0, max |-> 0]
NoPromise == [min |-> -1, max |-> -1]
Idle == [at |-> "idle"]

Live(p) == p \in Pools /\ state[p] = "live"
Entries == {n \in Names : reg[n] # Absent}
\* g_mapPools.begin()->second
First(r) == LET E == {n \in Names : r[n] # Absent}
            IN  r[CHOOSE n \in E : \A m \in E : n <= m]

\* What the README asks of the default constructor's caller: some create came
\* first (README.md:10).
SomePool == \E n \in Names : Live(reg[n])

\* What clear's caller must see to: no CDBQuery is being constructed, and none
\* that exists uses the pool that goes away.
Quiesced(p) ==
  \A q \in Queries : /\ qpc[q] # "connect" /\ qpc[q] # "lookup"
                     /\ qpc[q] = "open" => qpool[q] # p

\* Nor does a construction start while clear is under way.
Clearing == admin.at \in {"erased", "delete"}

-----------------------------------------------------------------------------
\* Seeded defects: an action with a plausible slip in the code.  None is part
\* of the specification; each shows that a property notices the slip.

\* create does not look the name up first.
CreateStartUnchecked(k, n, p) ==
  /\ admin.at = "idle" /\ made[k] = "ready" /\ state[p] = "none"
  /\ state' = [state EXCEPT ![p] = "building"]
  /\ limits' = [limits EXCEPT ![p] = DefLimits]
  /\ mpool' = [mpool EXCEPT ![k] = p]
  /\ admin' = [at |-> "build", config |-> k, name |-> n, pool |-> p]
  /\ UNCHANGED <<globals, made, stored, want, told, queryVars>>

\* create makes the pool the default before it knows that it is up.
CreateStartEarly(k, n, p) ==
  /\ admin.at = "idle" /\ made[k] = "ready" /\ reg[n] = Absent /\ state[p] = "none"
  /\ state' = [state EXCEPT ![p] = "building"]
  /\ limits' = [limits EXCEPT ![p] = DefLimits]
  /\ defPool' = IF defPool = Null THEN p ELSE defPool
  /\ mpool' = [mpool EXCEPT ![k] = p]
  /\ admin' = [at |-> "build", config |-> k, name |-> n, pool |-> p]
  /\ UNCHANGED <<reg, made, stored, want, told, queryVars>>

\* A failed create returns 0.
CreateFailSilent ==
  /\ admin.at = "build"
  /\ state' = [state EXCEPT ![admin.pool] = "deleted"]
  /\ mpool' = [mpool EXCEPT ![admin.config] = Null]
  /\ told' = told \cup {admin.name}
  /\ admin' = Idle
  /\ UNCHANGED <<limits, globals, made, stored, want, queryVars>>

\* create forgets the limits stored before it.
CreateBuiltUnlimited ==
  /\ admin.at = "build"
  /\ state' = [state EXCEPT ![admin.pool] = "live"]
  /\ admin' = [admin EXCEPT !.at = "default"]
  /\ UNCHANGED <<limits, globals, configVars, told, queryVars>>

\* The newest pool becomes the default.
CreateDefaultNewest ==
  /\ admin.at = "default"
  /\ defPool' = admin.pool
  /\ admin' = [admin EXCEPT !.at = "insert"]
  /\ UNCHANGED <<poolVars, reg, configVars, told, queryVars>>

\* clear does not look at the default.
ClearDefaultSkipped ==
  /\ admin.at = "erased"
  /\ admin' = [admin EXCEPT !.at = "delete"]
  /\ UNCHANGED <<poolVars, globals, configVars, told, queryVars>>

\* clear resets the default even when other pools are left.
ClearDefaultNull ==
  /\ admin.at = "erased"
  /\ defPool' = IF defPool # admin.pool THEN defPool ELSE Null
  /\ admin' = [admin EXCEPT !.at = "delete"]
  /\ UNCHANGED <<poolVars, reg, configVars, told, queryVars>>

\* CDBQuery(name) uses what find() returned without comparing it with end().
QueryNamedUnchecked(q, n) ==
  /\ qpc[q] = "none" /\ ~Clearing
  /\ qpool' = [qpool EXCEPT ![q] = reg[n]]
  /\ qpc' = [qpc EXCEPT ![q] = IF reg[n] = Null THEN "open" ELSE "connect"]
  /\ UNCHANGED <<poolVars, globals, configVars, admin, told, qconn>>

-----------------------------------------------------------------------------
Init ==
  /\ state = [p \in Pools |-> "none"]
  /\ limits = [p \in Pools |-> DefLimits]
  /\ reg = [n \in Names |-> Absent]
  /\ defPool = Null
  /\ made = [k \in Configs |-> "none"]
  /\ mpool = [k \in Configs |-> Null]
  /\ stored = [k \in Configs |-> Zero]
  /\ want = [k \in Configs |-> DefLimits]
  /\ admin = Idle
  /\ told = {}
  /\ qpc = [q \in Queries |-> "none"]
  /\ qpool = [q \in Queries |-> Null]
  /\ qconn = [q \in Queries |-> Null]

\* CDBPool(): no credentials yet, limits zeroed.
NewDefault(k) ==
  /\ "default" \in CtorKinds
  /\ made[k] = "none"
  /\ made' = [made EXCEPT ![k] = "blank"]
  /\ stored' = [stored EXCEPT ![k] = Zero]
  /\ UNCHANGED <<poolVars, globals, mpool, want, admin, told, queryVars>>

\* CDBPool(dbType, host, ...): m_connMinNum and m_connMaxNum are not set.
NewFull(k) ==
  /\ "full" \in CtorKinds
  /\ made[k] = "none"
  /\ made' = [made EXCEPT ![k] = "ready"]
  /\ \E g \in Garbage : stored' = [stored EXCEPT ![k] = g]
  /\ want' = [want EXCEPT ![k] = NoPromise]
  /\ UNCHANGED <<poolVars, globals, mpool, admin, told, queryVars>>

\* setHost, setUser, setPswd, setDbname or setPort.
SetCredentials(k) ==
  /\ made[k] = "blank"
  /\ made' = [made EXCEPT ![k] = "ready"]
  /\ UNCHANGED <<poolVars, globals, mpool, stored, want, admin, told, queryVars>>

\* The CDBPool object goes out of scope; its destructor leaves the pool alone.
DropConfig(k) ==
  /\ made[k] # "none"
  /\ admin.at = "idle"
  /\ made' = [made EXCEPT ![k] = "none"]
  /\ mpool' = [mpool EXCEPT ![k] = Null]
  /\ want' = [want EXCEPT ![k] = DefLimits]
  /\ UNCHANGED <<poolVars, globals, stored, admin, told, queryVars>>

\* Kept in the CDBPool before create, passed on to its pool afterwards.  The
\* caller keeps off a CDBPool whose pool was cleared.
SetLinkCount(k, r) ==
  /\ made[k] # "none"
  /\ admin.at = "idle"
  /\ r.min <= r.max
  /\ want' = [want EXCEPT ![k] = r]
  /\ \/ /\ mpool[k] = Null
        /\ stored' = [stored EXCEPT ![k] = r]
        /\ UNCHANGED limits
     \/ /\ Live(mpool[k])
        /\ limits' = [limits EXCEPT ![mpool[k]] = r]
        /\ UNCHANGED stored
  /\ UNCHANGED <<state, globals, made, mpool, admin, told, queryVars>>

-----------------------------------------------------------------------------
\* create(n): the name has an entry, whatever it points at: return 0.
CreateFound(k, n) ==
  /\ admin.at = "idle"
  /\ made[k] = "ready"
  /\ reg[n] # Absent
  /\ told' = told \cup {n}
  /\ UNCHANGED <<poolVars, globals, configVars, admin, queryVars>>

\* Limits set on a CDBPool's first pool say nothing of a second one.
Expected(k) == IF mpool[k] = Null THEN want[k] ELSE NoPromise

\* create(n): no entry; m_pool = new CDBConnPool, whose connections are opened.
CreateStart(k, n, p) ==
  /\ admin.at = "idle"
  /\ made[k] = "ready"
  /\ reg[n] = Absent
  /\ state[p] = "none"
  /\ state' = [state EXCEPT ![p] = "building"]
  /\ limits' = [limits EXCEPT ![p] = DefLimits]
  /\ mpool' = [mpool EXCEPT ![k] = p]
  /\ admin' = [at |-> "build", config |-> k, name |-> n, pool |-> p]
  /\ want' = [want EXCEPT ![k] = Expected(k)]
  /\ UNCHANGED <<globals, made, stored, told, queryVars>>

\* m_isSuccess is false: delete the pool, m_pool = nullptr, return -1.
CreateFail ==
  /\ admin.at = "build"
  /\ state' = [state EXCEPT ![admin.pool] = "deleted"]
  /\ mpool' = [mpool EXCEPT ![admin.config] = Null]
  /\ admin' = Idle
  /\ UNCHANGED <<limits, globals, made, stored, want, told, queryVars>>

\* The pool is up; stored limits apply when both are positive.
CreateBuilt ==
  LET s == stored[admin.config] IN
  /\ admin.at = "build"
  /\ state' = [state EXCEPT ![admin.pool] = "live"]
  /\ limits' = [limits EXCEPT ![admin.pool] =
                  IF s.min > 0 /\ s.max > 0 THEN s ELSE @]
  /\ admin' = [admin EXCEPT !.at = "default"]
  /\ UNCHANGED <<globals, configVars, told, queryVars>>

CreateDefault ==
  /\ admin.at = "default"
  /\ defPool' = IF defPool = Null THEN admin.pool ELSE defPool
  /\ admin' = [admin EXCEPT !.at = "insert"]
  /\ UNCHANGED <<poolVars, reg, configVars, told, queryVars>>

CreateInsert ==
  /\ admin.at = "insert"
  /\ reg' = [reg EXCEPT ![admin.name] = admin.pool]
  /\ told' = told \cup {admin.name}
  /\ admin' = Idle
  /\ UNCHANGED <<poolVars, defPool, configVars, queryVars>>

-----------------------------------------------------------------------------
\* clear(n): take the entry out of the map.
ClearErase(n) ==
  /\ admin.at = "idle"
  /\ reg[n] # Absent
  /\ Quiesced(reg[n])
  /\ reg' = [reg EXCEPT ![n] = Absent]
  /\ told' = told \ {n}
  /\ admin' = [at |-> "erased", pool |-> reg[n]]
  /\ UNCHANGED <<poolVars, defPool, configVars, queryVars>>

\* If it was the default, the first entry left becomes the default.
ClearDefault ==
  /\ admin.at = "erased"
  /\ defPool' = IF defPool # admin.pool THEN defPool
                ELSE IF Entries # {} THEN First(reg) ELSE Null
  /\ admin' = [admin EXCEPT !.at = "delete"]
  /\ UNCHANGED <<poolVars, reg, configVars, told, queryVars>>

\* SDelete(tmp), which skips nullptr.
ClearDelete ==
  /\ admin.at = "delete"
  /\ state' = IF admin.pool = Null THEN state
              ELSE [state EXCEPT ![admin.pool] = "deleted"]
  /\ admin' = Idle
  /\ UNCHANGED <<limits, globals, configVars, told, queryVars>>

-----------------------------------------------------------------------------
\* CDBQuery(): the null test and m_pool = g_defPool.  With no default it
\* returns with m_pool and m_dbConn uninitialised.
QueryDefault(q) ==
  /\ qpc[q] = "none"
  /\ ~Clearing
  /\ SomePool
  /\ IF defPool = Null
       THEN /\ qpool' = [qpool EXCEPT ![q] = Wild]
            /\ qpc'   = [qpc EXCEPT ![q] = "open"]
       ELSE /\ qpool' = [qpool EXCEPT ![q] = defPool]
            /\ qpc'   = [qpc EXCEPT ![q] = "lookup"]
  /\ UNCHANGED <<poolVars, globals, configVars, admin, told, qconn>>

\* CDBQuery(name): g_mapPools[name] inserts nullptr under an unknown name.
QueryNamed(q, n) ==
  /\ qpc[q] = "none"
  /\ ~Clearing
  /\ reg[n] # Absent \/ UnknownNames
  /\ reg' = [reg EXCEPT ![n] = IF @ = Absent THEN Null ELSE @]
  /\ qpool' = [qpool EXCEPT ![q] = reg'[n]]
  /\ qpc' = [qpc EXCEPT ![q] = IF reg'[n] = Null THEN "open" ELSE "connect"]
  /\ UNCHANGED <<poolVars, defPool, configVars, admin, told, qconn>>

\* CDBQuery(pool): m_pool of a CDBPool whose create succeeded.
QueryConfig(q, k) ==
  /\ qpc[q] = "none"
  /\ admin.at = "idle"
  /\ Live(mpool[k])
  /\ qpool' = [qpool EXCEPT ![q] = mpool[k]]
  /\ qpc' = [qpc EXCEPT ![q] = "connect"]
  /\ UNCHANGED <<poolVars, globals, configVars, admin, told, qconn>>

\* getDBconnect(true) returns a connection or nullptr.  The default
\* constructor calls it on g_defPool, read again, the others on m_pool.
Connect(q, p) ==
  /\ \E c \in {p, Null} : qconn' = [qconn EXCEPT ![q] = c]
  /\ qpc' = [qpc EXCEPT ![q] = "open"]
  /\ UNCHANGED <<poolVars, globals, configVars, admin, told, qpool>>
QueryConnect(q) ==
  \/ qpc[q] = "lookup" /\ Connect(q, defPool)
  \/ qpc[q] = "connect" /\ Connect(q, qpool[q])

\* ~CDBQuery(): m_pool->freeDBconnect(m_dbConn) unless m_pool is nullptr.
QueryDestroy(q) ==
  /\ qpc[q] = "open"
  /\ qpool' = [qpool EXCEPT ![q] = Null]
  /\ qconn' = [qconn EXCEPT ![q] = Null]
  /\ qpc' = [qpc EXCEPT ![q] = "none"]
  /\ UNCHANGED <<poolVars, globals, configVars, admin, told>>

-----------------------------------------------------------------------------
ConfigStep(k) ==
  \/ NewDefault(k) \/ NewFull(k) \/ SetCredentials(k) \/ DropConfig(k)
  \/ \E r \in Ranges : SetLinkCount(k, r)
CreateStep ==
  \/ \E k \in Configs, n \in Names :
       CreateFound(k, n) \/ \E p \in Pools : CreateStart(k, n, p)
  \/ CreateFail \/ CreateBuilt \/ CreateDefault \/ CreateInsert
ClearStep == (\E n \in Names : ClearErase(n)) \/ ClearDefault \/ ClearDelete
QueryStep(q) ==
  \/ QueryDefault(q) \/ QueryConnect(q) \/ QueryDestroy(q)
  \/ \E n \in Names : QueryNamed(q, n)
  \/ \E k \in Configs : QueryConfig(q, k)

Next ==
  \/ \E k \in Configs : ConfigStep(k)
  \/ CreateStep \/ ClearStep
  \/ \E q \in Queries : QueryStep(q)

Spec == Init /\ [][Next]_vars

-----------------------------------------------------------------------------
LimitsType == [min : Int, max : Int]
AdminType ==
  {Idle}
  \cup [at : {"build", "default", "insert"}, config : Configs, name : Names, pool : Pools]
  \cup [at : {"erased", "delete"}, pool : Pools \cup {Null}]

GlobalsTyped ==
  /\ state \in [Pools -> {"none", "building", "live", "deleted"}]
  /\ reg \in [Names -> Pools \cup {Null, Absent}]
  /\ defPool \in Pools \cup {Null}
  /\ admin \in AdminType
  /\ told \subseteq Names

ConfigsTyped ==
  /\ limits \in [Pools -> LimitsType]
  /\ made \in [Configs -> {"none", "blank", "ready"}]
  /\ mpool \in [Configs -> Pools \cup {Null}]
  /\ stored \in [Configs -> LimitsType] /\ want \in [Configs -> LimitsType]

QueriesTyped ==
  /\ qpc \in [Queries -> {"none", "lookup", "connect", "open"}]
  /\ qpool \in [Queries -> Pools \cup {Null, Wild}]
  /\ qconn \in [Queries -> Pools \cup {Null}]

\* The globals and the members of CDBPool and CDBQuery stay in their domains.
TypeOK == GlobalsTyped /\ ConfigsTyped /\ QueriesTyped

EntriesLive   == \A n \in Names : reg[n] \in Pools => Live(reg[n])
DefaultLive   == defPool \in Pools => Live(defPool)
NamesDistinct == \A m, n \in Names : reg[m] \in Pools /\ reg[m] = reg[n] => m = n

\* No global points at a deleted pool, not even between clear's assignments
\* and its delete, and no pool is known by two names, so that clearing one
\* name never takes the pool of another away.
NoDanglingGlobal == EntriesLive /\ DefaultLive /\ NamesDistinct

\* A pool that is up is found under a name, or create or clear has it in hand:
\* none is lost with its connections open.
NoPoolLost ==
  \A p \in Pools :
    Live(p) => \/ \E n \in Names : reg[n] = p
               \/ admin # Idle /\ admin.pool = p

\* A CDBQuery never uses a deleted pool, when no clear overlaps its
\* construction and none hits a pool with open queries.
QueryPoolAlive ==
  \A q \in Queries : qpc[q] # "none" /\ qpool[q] \in Pools => Live(qpool[q])

\* ~CDBQuery gives the connection back to the pool it came from, although the
\* default constructor reads g_defPool once for m_pool and again to connect.
ConnFromOwnPool ==
  \A q \in Queries : qconn[q] # Null => qconn[q] = qpool[q]

\* As long as a pool is registered CDBQuery() finds a default pool
\* (README.md:10) and leaves no member uninitialised.
NoWildQuery == \A q \in Queries : qpool[q] # Wild

\* When create(n) has returned 0 and n was not cleared, the pool is there
\* (CDBPool.h:33, "0 on success").
CreatedIsUsable == \A n \in told : Live(reg[n])

\* A pool has the limits of the last setLinkCount its CDBPool accepted, stored
\* before create or passed on after it (CDBPool.h:84), and 3 to 10 when there
\* was none (README.md:11).  Nothing is said of a CDBPool whose constructor
\* left the stored limits uninitialised, nor of a minimum of 0, which create
\* drops.
LimitsKept ==
  admin = Idle =>
    \A k \in Configs :
      Live(mpool[k]) /\ want[k].min > 0 => limits[mpool[k]] = want[k]

-----------------------------------------------------------------------------
\* The pool a CDBQuery that exists was given; m_pool may also be nullptr, or
\* uninitialised.
UsedBy(q) == IF qpc[q] # "none" /\ qpool[q] \in Pools THEN qpool[q] ELSE Null

Lifetime == INSTANCE PoolLifetime
  WITH Clients <- Queries, None <- Null,
       life <- state, uses <- [q \in Queries |-> UsedBy(q)], conn <- qconn

\* Behind the names, the default and clear's three assignments, a pool object
\* and its users live by the contract: built once, deleted once and by nobody
\* while a CDBQuery has it, and each CDBQuery borrows from the pool it was
\* given and keeps that pool to the end (CDBPool.cpp:36-93, CDBQuery.cpp:12-69).
ImplementsLifetime == Lifetime!LifeSpec

=============================================================================
