-------------------------- MODULE PoolRegistryProofs --------------------------
(***************************************************************************)
(* What the pool globals keep for every number of names, pools, CDBPool and *)
(* CDBQuery objects: their types, no pointer to a deleted pool, no pool     *)
(* lost, the pool and the connection of each CDBQuery, the limits of each   *)
(* pool, and, as long as CDBQuery(name) is given names that were created,   *)
(* a usable pool after create and a default pool for CDBQuery().            *)
(***************************************************************************)
EXTENDS PoolRegistry, TLAPS, NaturalsInduction, WellFoundedInduction

-----------------------------------------------------------------------------
Working == [at : {"build", "default", "insert"}, config : Configs, name : Names, pool : Pools]
Cleaning == [at : {"erased", "delete"}, pool : Pools \cup {Null}]

\* admin is in one of three shapes.
LEMMA AdminShapes ==
  ASSUME GlobalsTyped
  PROVE  /\ admin.at = "idle" <=> admin = Idle
         /\ admin.at \in {"build", "default", "insert"} <=> admin \in Working
         /\ Clearing <=> admin \in Cleaning
         /\ admin.at \in {"idle", "build", "default", "insert", "erased", "delete"}
  BY DEF GlobalsTyped, AdminType, Idle, Working, Cleaning, Clearing

\* A nonempty set of names has a smallest one.
LEMMA Smallest ==
  ASSUME NEW E, E \subseteq Nat, E # {}
  PROVE  \E n \in E : \A m \in E : n <= m
<1>1. PICK n \in E : \A m \in E : <<m, n>> \notin OpToRel(<, Nat)
  BY NatLessThanWellFounded, WFMin, Zenon
<1>2. ASSUME NEW m \in E PROVE n <= m
  <2>1. m \in Nat /\ n \in Nat
    OBVIOUS
  <2>2. ~(m < n)
    BY <1>1, <2>1, Zenon DEF OpToRel
  <2> QED BY <2>1, <2>2
<1> QED BY <1>2

\* The smallest name with an entry, which is what begin() finds, has one.
LEMMA FirstEntry ==
  ASSUME NEW r, \E n \in Names : r[n] # Absent
  PROVE  \E n \in Names : r[n] # Absent /\ First(r) = r[n]
<1> DEFINE E == {n \in Names : r[n] # Absent}
           c == CHOOSE n \in E : \A m \in E : n <= m
<1>1. E \subseteq Nat /\ E # {}
  BY NamesAssumption
<1>2. \E n \in E : \A m \in E : n <= m
  <2> HIDE DEF E
  <2> QED BY <1>1, Smallest
<1>3. c \in E
  BY <1>2, Zenon
<1>4. First(r) = r[c]
  BY Zenon DEF First
<1> HIDE DEF c
<1> QED BY <1>3, <1>4

-----------------------------------------------------------------------------
\* What changes the globals, the life of a pool, or where the administering
\* thread is.
LEMMA GlobalCases ==
  ASSUME [Next]_vars
  PROVE  \/ UNCHANGED <<state, globals, admin, told>>
         \/ \E k \in Configs, n \in Names : CreateFound(k, n)
         \/ \E k \in Configs, n \in Names, p \in Pools : CreateStart(k, n, p)
         \/ CreateFail
         \/ CreateBuilt
         \/ CreateDefault
         \/ CreateInsert
         \/ \E n \in Names : ClearErase(n)
         \/ ClearDefault
         \/ ClearDelete
         \/ \E q \in Queries, n \in Names : QueryNamed(q, n)
<1> USE DEF vars, poolVars, globals
<1>1. CASE \E k \in Configs : ConfigStep(k)
  <2> PICK k \in Configs : ConfigStep(k)  BY <1>1
  <2>1. UNCHANGED <<state, globals, admin, told>>
    BY DEF ConfigStep, NewDefault, NewFull, SetCredentials, DropConfig, SetLinkCount
  <2> QED BY <2>1
<1>2. CASE CreateStep
  BY <1>2 DEF CreateStep
<1>3. CASE ClearStep
  BY <1>3 DEF ClearStep
<1>4. CASE \E q \in Queries : QueryStep(q)
  <2> PICK q \in Queries : QueryStep(q)  BY <1>4
  <2>1. CASE QueryDefault(q) \/ QueryConnect(q) \/ QueryDestroy(q)
    BY <2>1 DEF QueryDefault, QueryConnect, Connect, QueryDestroy
  <2>2. CASE \E k \in Configs : QueryConfig(q, k)
    BY <2>2 DEF QueryConfig
  <2> QED BY <2>1, <2>2 DEF QueryStep
<1> QED BY <1>1, <1>2, <1>3, <1>4 DEF Next

\* What changes a CDBPool or the limits of a pool.
LEMMA ConfigCases ==
  ASSUME [Next]_vars
  PROVE  \/ UNCHANGED <<limits, configVars>>
         \/ \E k \in Configs : NewDefault(k)
         \/ \E k \in Configs : NewFull(k)
         \/ \E k \in Configs : SetCredentials(k)
         \/ \E k \in Configs : DropConfig(k)
         \/ \E k \in Configs, r \in Ranges : SetLinkCount(k, r)
         \/ \E k \in Configs, n \in Names, p \in Pools : CreateStart(k, n, p)
         \/ CreateFail
         \/ CreateBuilt
<1> USE DEF vars, poolVars, configVars
<1>1. CASE \E k \in Configs : ConfigStep(k)
  BY <1>1 DEF ConfigStep
<1>2. CASE CreateStep
  BY <1>2 DEF CreateStep, CreateFound, CreateDefault, CreateInsert
<1>3. CASE ClearStep
  BY <1>3 DEF ClearStep, ClearErase, ClearDefault, ClearDelete
<1>4. CASE \E q \in Queries : QueryStep(q)
  BY <1>4 DEF QueryStep, QueryDefault, QueryConnect, Connect, QueryDestroy, QueryNamed, QueryConfig
<1> QED BY <1>1, <1>2, <1>3, <1>4 DEF Next

\* What changes a CDBQuery.
LEMMA QueryCases ==
  ASSUME [Next]_vars
  PROVE  \/ UNCHANGED queryVars
         \/ \E q \in Queries : QueryDefault(q)
         \/ \E q \in Queries, n \in Names : QueryNamed(q, n)
         \/ \E q \in Queries, k \in Configs : QueryConfig(q, k)
         \/ \E q \in Queries : QueryConnect(q)
         \/ \E q \in Queries : QueryDestroy(q)
<1> USE DEF vars, queryVars
<1>1. CASE \E k \in Configs : ConfigStep(k)
  <2> PICK k \in Configs : ConfigStep(k)  BY <1>1
  <2>1. UNCHANGED queryVars
    BY DEF ConfigStep, NewDefault, NewFull, SetCredentials, DropConfig, SetLinkCount
  <2> QED BY <2>1
<1>2. CASE CreateStep
  BY <1>2 DEF CreateStep, CreateFound, CreateStart, CreateFail, CreateBuilt, CreateDefault, CreateInsert
<1>3. CASE ClearStep
  BY <1>3 DEF ClearStep, ClearErase, ClearDefault, ClearDelete
<1>4. CASE \E q \in Queries : QueryStep(q)
  BY <1>4 DEF QueryStep
<1> QED BY <1>1, <1>2, <1>3, <1>4 DEF Next

-----------------------------------------------------------------------------
\* The globals.

LEMMA GlobalsTypeStep ==
  ASSUME GlobalsTyped, [Next]_vars
  PROVE  GlobalsTyped'
<1> USE DEF GlobalsTyped, globals
<1>0. AdminType = {Idle} \cup Working \cup Cleaning
  BY DEF AdminType, Working, Cleaning
<1>1. CASE UNCHANGED <<state, globals, admin, told>>
  BY <1>1
<1>2. CASE \E k \in Configs, n \in Names : CreateFound(k, n)
  BY <1>2 DEF CreateFound, poolVars
<1>3. CASE \E k \in Configs, n \in Names, p \in Pools : CreateStart(k, n, p)
  <2> PICK k \in Configs, n \in Names, p \in Pools : CreateStart(k, n, p)  BY <1>3
  <2>1. [at |-> "build", config |-> k, name |-> n, pool |-> p] \in Working
    BY DEF Working
  <2> QED BY <1>0, <2>1 DEF CreateStart
<1>4. CASE CreateFail
  BY <1>0, <1>4 DEF CreateFail
<1>5. CASE CreateBuilt \/ CreateDefault
  <2>1. admin \in Working
    BY <1>5, AdminShapes DEF CreateBuilt, CreateDefault
  <2>2. admin' \in Working
    BY <1>5, <2>1 DEF CreateBuilt, CreateDefault, Working
  <2>3. admin.pool \in Pools
    BY <2>1 DEF Working
  <2> QED BY <1>0, <1>5, <2>2, <2>3 DEF CreateBuilt, CreateDefault, poolVars
<1>6. CASE CreateInsert
  <2>1. admin.pool \in Pools /\ admin.name \in Names
    BY <1>6, AdminShapes DEF CreateInsert, Working
  <2> QED BY <1>0, <1>6, <2>1 DEF CreateInsert, poolVars
<1>7. CASE \E n \in Names : ClearErase(n)
  <2> PICK n \in Names : ClearErase(n)  BY <1>7
  <2>1. [at |-> "erased", pool |-> reg[n]] \in Cleaning
    BY DEF ClearErase, Cleaning
  <2> QED BY <1>0, <2>1 DEF ClearErase, poolVars
<1>8. CASE ClearDefault
  <2>1. admin' \in Cleaning
    BY <1>8, AdminShapes DEF ClearDefault, Clearing, Cleaning
  <2>2. Entries # {} => First(reg) \in Pools \cup {Null}
    <3> SUFFICES ASSUME Entries # {} PROVE First(reg) \in Pools \cup {Null}
      OBVIOUS
    <3>1. PICK n \in Names : reg[n] # Absent /\ First(reg) = reg[n]
      BY FirstEntry DEF Entries
    <3> QED BY <3>1
  <2> QED BY <1>0, <1>8, <2>1, <2>2 DEF ClearDefault, poolVars
<1>9. CASE ClearDelete
  BY <1>0, <1>9 DEF ClearDelete
<1>10. CASE \E q \in Queries, n \in Names : QueryNamed(q, n)
  BY <1>10 DEF QueryNamed, poolVars
<1> QED
  BY GlobalCases, <1>1, <1>2, <1>3, <1>4, <1>5, <1>6, <1>7, <1>8, <1>9, <1>10

\* Which pools exist and who points at them, at every step of create and
\* clear: create's pool is not registered before its last assignment, and
\* clear's is neither registered nor the default when it is deleted.
GlobalsInv ==
  /\ EntriesLive /\ DefaultLive /\ NamesDistinct /\ NoPoolLost
  /\ admin.at = "build" => state[admin.pool] = "building"
  /\ admin.at \in {"build", "default", "insert"} => reg[admin.name] \notin Pools
  /\ admin.at \in {"default", "insert"} => Live(admin.pool)
  /\ Clearing /\ admin.pool # Null => Live(admin.pool)
  /\ admin.at \in {"default", "insert", "erased", "delete"} /\ admin.pool # Null =>
       \A n \in Names : reg[n] # admin.pool
  /\ admin.at = "delete" /\ admin.pool # Null => defPool # admin.pool
  /\ admin.at = "insert" => defPool # Null

LEMMA GlobalsStep ==
  ASSUME GlobalsTyped, GlobalsInv, [Next]_vars
  PROVE  GlobalsInv'
<1> USE ValuesAssumption
    DEF GlobalsInv, EntriesLive, DefaultLive, NamesDistinct, NoPoolLost, Live, Clearing
<1>1. CASE UNCHANGED <<state, globals, admin, told>>
  BY <1>1 DEF globals
<1>2. CASE \E k \in Configs, n \in Names : CreateFound(k, n)
  BY <1>2 DEF CreateFound, poolVars, globals
<1>3. CASE \E k \in Configs, n \in Names, p \in Pools : CreateStart(k, n, p)
  <2> PICK k \in Configs, n \in Names, p \in Pools : CreateStart(k, n, p)  BY <1>3
  <2>1. /\ state' = [state EXCEPT ![p] = "building"] /\ state[p] = "none" /\ reg[n] = Absent
        /\ admin = Idle /\ admin' = [at |-> "build", config |-> k, name |-> n, pool |-> p]
        /\ reg' = reg /\ defPool' = defPool
    BY AdminShapes DEF CreateStart, globals
  <2> QED BY <2>1 DEF GlobalsTyped
<1>4. CASE CreateFail
  <2>1. /\ admin \in Working /\ admin.at = "build" /\ admin' = Idle
        /\ state' = [state EXCEPT ![admin.pool] = "deleted"]
        /\ reg' = reg /\ defPool' = defPool
    BY <1>4, AdminShapes DEF CreateFail, globals
  <2> QED BY <2>1 DEF GlobalsTyped, Idle, Working
<1>5. CASE CreateBuilt
  <2>1. /\ admin \in Working /\ admin.at = "build"
        /\ admin' \in Working /\ admin'.at = "default"
        /\ admin'.pool = admin.pool /\ admin'.name = admin.name
        /\ state' = [state EXCEPT ![admin.pool] = "live"]
        /\ reg' = reg /\ defPool' = defPool
    BY <1>5, AdminShapes DEF CreateBuilt, globals, Working
  <2>2. admin # Idle /\ admin' # Idle
    BY <2>1 DEF Idle
  <2> QED BY <2>1, <2>2 DEF GlobalsTyped, Working
<1>6. CASE CreateDefault
  <2>1. /\ admin \in Working /\ admin.at = "default"
        /\ admin' \in Working /\ admin'.at = "insert"
        /\ admin'.pool = admin.pool /\ admin'.name = admin.name
        /\ state' = state /\ reg' = reg
        /\ defPool' = IF defPool = Null THEN admin.pool ELSE defPool
    BY <1>6, AdminShapes DEF CreateDefault, poolVars, Working
  <2>2. admin # Idle /\ admin' # Idle
    BY <2>1 DEF Idle
  <2> QED BY <2>1, <2>2 DEF GlobalsTyped, Working
<1>7. CASE CreateInsert
  <2>1. /\ admin \in Working /\ admin.at = "insert" /\ admin' = Idle
        /\ state' = state /\ defPool' = defPool
        /\ reg' = [reg EXCEPT ![admin.name] = admin.pool]
    BY <1>7, AdminShapes DEF CreateInsert, poolVars
  <2>2. admin.name \in Names /\ admin.pool \in Pools /\ admin'.at = "idle"
    BY <2>1 DEF Working, Idle
  <2> QED BY <2>1, <2>2 DEF GlobalsTyped
<1>8. CASE \E n \in Names : ClearErase(n)
  <2> PICK n \in Names : ClearErase(n)  BY <1>8
  <2>1. /\ admin = Idle /\ admin' = [at |-> "erased", pool |-> reg[n]] /\ admin' # Idle
        /\ state' = state /\ defPool' = defPool
        /\ reg' = [reg EXCEPT ![n] = Absent] /\ reg[n] # Absent
    BY AdminShapes DEF ClearErase, poolVars, Idle
  <2> QED BY <2>1 DEF GlobalsTyped
<1>9. CASE ClearDefault
  <2>1. /\ admin \in Cleaning /\ admin.at = "erased"
        /\ admin' \in Cleaning /\ admin'.at = "delete" /\ admin'.pool = admin.pool
        /\ state' = state /\ reg' = reg
        /\ defPool' = IF defPool # admin.pool THEN defPool
                      ELSE IF Entries # {} THEN First(reg) ELSE Null
    BY <1>9, AdminShapes DEF ClearDefault, poolVars, Cleaning
  <2>2. admin # Idle /\ admin' # Idle
    BY <2>1 DEF Idle
  <2>3. Entries # {} => \E n \in Names : reg[n] # Absent /\ First(reg) = reg[n]
    BY FirstEntry DEF Entries
  <2> QED BY <2>1, <2>2, <2>3 DEF GlobalsTyped, Cleaning
<1>10. CASE ClearDelete
  <2>1. /\ admin \in Cleaning /\ admin.at = "delete" /\ admin' = Idle /\ admin'.at = "idle"
        /\ state' = IF admin.pool = Null THEN state
                    ELSE [state EXCEPT ![admin.pool] = "deleted"]
        /\ reg' = reg /\ defPool' = defPool
    BY <1>10, AdminShapes DEF ClearDelete, globals, Idle
  <2> QED BY <2>1 DEF GlobalsTyped, Cleaning
<1>11. CASE \E q \in Queries, n \in Names : QueryNamed(q, n)
  <2> PICK q \in Queries, n \in Names : QueryNamed(q, n)  BY <1>11
  <2>1. /\ reg' = [reg EXCEPT ![n] = IF @ = Absent THEN Null ELSE @]
        /\ UNCHANGED <<state, defPool, admin>>
    BY DEF QueryNamed, poolVars
  <2> QED BY <2>1, AdminShapes DEF GlobalsTyped, Working, Cleaning
<1> QED
  BY GlobalCases, <1>1, <1>2, <1>3, <1>4, <1>5, <1>6, <1>7, <1>8, <1>9, <1>10, <1>11

\* While every name given to CDBQuery(name) was created: no name has a null
\* pool, and there is a default pool as long as a name has a pool.
KnownInv ==
  /\ \A n \in Names : reg[n] # Null
  /\ defPool = Null => \A n \in Names : reg[n] = Absent
  /\ CreatedIsUsable

LEMMA KnownStep ==
  ASSUME ~UnknownNames, GlobalsTyped, GlobalsInv, KnownInv, [Next]_vars
  PROVE  KnownInv'
<1> USE ValuesAssumption DEF KnownInv, CreatedIsUsable, Live
<1>0. /\ told \subseteq Names /\ GlobalsInv'
      /\ \A n \in Names : reg[n] # Absent => Live(reg[n])
  BY GlobalsStep DEF GlobalsTyped, GlobalsInv, EntriesLive
<1>1. CASE UNCHANGED <<state, globals, admin, told>>
  BY <1>1 DEF globals
<1>2. CASE \E k \in Configs, n \in Names : CreateFound(k, n)
  BY <1>0, <1>2 DEF CreateFound, poolVars, globals
<1>3. CASE \E k \in Configs, n \in Names, p \in Pools : CreateStart(k, n, p)
  BY <1>0, <1>3 DEF CreateStart, globals, GlobalsTyped
<1>4. CASE CreateFail \/ CreateBuilt
  <2>1. /\ admin \in Working /\ admin.at = "build"
        /\ \E s \in {"live", "deleted"} : state' = [state EXCEPT ![admin.pool] = s]
        /\ UNCHANGED <<reg, defPool, told>>
    BY <1>4, AdminShapes DEF CreateFail, CreateBuilt, globals
  <2>2. state[admin.pool] = "building"
    BY <2>1 DEF GlobalsInv
  <2> QED BY <1>0, <2>1, <2>2 DEF GlobalsTyped
<1>5. CASE CreateDefault
  <2>1. /\ admin \in Working /\ admin.pool \in Pools
        /\ defPool' = (IF defPool = Null THEN admin.pool ELSE defPool)
        /\ UNCHANGED <<state, reg, told>>
    BY <1>5, AdminShapes DEF CreateDefault, poolVars, Working
  <2> QED BY <1>0, <2>1
<1>6. CASE CreateInsert
  <2>1. /\ admin.name \in Names /\ admin.pool \in Pools /\ Live(admin.pool) /\ defPool # Null
        /\ reg' = [reg EXCEPT ![admin.name] = admin.pool]
        /\ told' = told \cup {admin.name} /\ UNCHANGED <<state, defPool>>
    BY <1>6, AdminShapes DEF CreateInsert, poolVars, Working, GlobalsInv
  <2> QED BY <1>0, <2>1 DEF GlobalsTyped
<1>7. CASE \E n \in Names : ClearErase(n)
  BY <1>0, <1>7 DEF ClearErase, poolVars, GlobalsTyped
<1>8. CASE ClearDefault
  <2>1. /\ UNCHANGED <<state, reg, told>>
        /\ defPool' = IF defPool # admin.pool THEN defPool
                      ELSE IF Entries # {} THEN First(reg) ELSE Null
    BY <1>8 DEF ClearDefault, poolVars
  <2>2. Entries # {} => First(reg) # Null
    BY FirstEntry DEF Entries
  <2>3. Entries = {} => \A n \in Names : reg[n] = Absent
    BY DEF Entries
  <2> QED BY <1>0, <2>1, <2>2, <2>3
<1>9. CASE ClearDelete
  <2>1. /\ admin \in Cleaning /\ admin.at = "delete"
        /\ state' = IF admin.pool = Null THEN state
                    ELSE [state EXCEPT ![admin.pool] = "deleted"]
        /\ UNCHANGED <<reg, defPool, told>>
    BY <1>9, AdminShapes DEF ClearDelete, globals, Clearing
  <2>2. admin.pool # Null => \A n \in Names : reg[n] # admin.pool
    BY <2>1 DEF GlobalsInv
  <2> QED BY <1>0, <2>1, <2>2 DEF GlobalsTyped, Cleaning
<1>10. CASE \E q \in Queries, n \in Names : QueryNamed(q, n)
  <2> PICK q \in Queries, n \in Names : QueryNamed(q, n)  BY <1>10
  <2>1. reg[n] # Absent /\ UNCHANGED <<state, defPool, told>>
        /\ reg' = [reg EXCEPT ![n] = IF @ = Absent THEN Null ELSE @]
    BY DEF QueryNamed, poolVars
  <2> QED BY <1>0, <2>1 DEF GlobalsTyped
<1> QED
  BY GlobalCases, <1>1, <1>2, <1>3, <1>4, <1>5, <1>6, <1>7, <1>8, <1>9, <1>10

-----------------------------------------------------------------------------
\* The CDBQuery objects.

\* Each CDBQuery that exists uses a live pool; the one the default constructor
\* connects to is the one it stored; and clear's pool is nobody's.
UsesInv ==
  /\ QueryPoolAlive /\ ConnFromOwnPool
  /\ \A q \in Queries :
       /\ qpc[q] # "open" => qconn[q] = Null
       /\ qpc[q] = "lookup" => qpool[q] = defPool
       /\ qpc[q] \in {"lookup", "connect"} => qpool[q] \in Pools /\ ~Clearing
       /\ Clearing /\ qpc[q] = "open" /\ qpool[q] \in Pools => qpool[q] # admin.pool

LEMMA QueriesTypeStep ==
  ASSUME GlobalsTyped, ConfigsTyped, QueriesTyped, UsesInv, [Next]_vars
  PROVE  QueriesTyped'
<1> USE DEF QueriesTyped
<1>1. CASE UNCHANGED queryVars
  BY <1>1 DEF queryVars
<1>2. CASE \E q \in Queries : QueryDefault(q)
  BY <1>2 DEF QueryDefault, GlobalsTyped
<1>3. CASE \E q \in Queries, n \in Names : QueryNamed(q, n)
  <2> PICK q \in Queries, n \in Names : QueryNamed(q, n)  BY <1>3
  <2>1. reg'[n] \in Pools \cup {Null}
    BY DEF QueryNamed, GlobalsTyped
  <2> QED BY <2>1 DEF QueryNamed
<1>4. CASE \E q \in Queries, k \in Configs : QueryConfig(q, k)
  BY <1>4 DEF QueryConfig, ConfigsTyped
<1>5. CASE \E q \in Queries : QueryConnect(q)
  <2> PICK q \in Queries : QueryConnect(q)  BY <1>5
  <2>1. /\ \E c \in Pools \cup {Null} : qconn' = [qconn EXCEPT ![q] = c]
        /\ qpc' = [qpc EXCEPT ![q] = "open"] /\ qpool' = qpool
    BY DEF QueryConnect, Connect, UsesInv, GlobalsTyped
  <2> QED BY <2>1
<1>6. CASE \E q \in Queries : QueryDestroy(q)
  BY <1>6 DEF QueryDestroy
<1> QED BY QueryCases, <1>1, <1>2, <1>3, <1>4, <1>5, <1>6

\* The administering thread's part: pools come and go, and the default moves,
\* under CDBQuery objects that stay as they are.
LEMMA UsesKept ==
  ASSUME GlobalsTyped, QueriesTyped, GlobalsInv, UsesInv, [Next]_vars, UNCHANGED queryVars
  PROVE  UsesInv'
<1> USE ValuesAssumption DEF UsesInv, QueryPoolAlive, ConnFromOwnPool, Live, Clearing, queryVars
<1>1. CASE UNCHANGED <<state, globals, admin, told>>
  BY <1>1 DEF globals
<1>2. CASE \E k \in Configs, n \in Names : CreateFound(k, n)
  BY <1>2 DEF CreateFound, poolVars, globals
<1>3. CASE \E k \in Configs, n \in Names, p \in Pools : CreateStart(k, n, p)
  <2> PICK k \in Configs, n \in Names, p \in Pools : CreateStart(k, n, p)  BY <1>3
  <2>1. /\ state' = [state EXCEPT ![p] = "building"] /\ state[p] = "none"
        /\ admin'.at = "build" /\ defPool' = defPool
    BY DEF CreateStart, globals
  <2> QED BY <2>1 DEF GlobalsTyped
<1>4. CASE CreateFail \/ CreateBuilt
  <2>1. /\ admin \in Working /\ admin.at = "build" /\ admin'.at \in {"idle", "default"}
        /\ \E s \in {"live", "deleted"} : state' = [state EXCEPT ![admin.pool] = s]
        /\ defPool' = defPool
    BY <1>4, AdminShapes DEF CreateFail, CreateBuilt, globals, Working, Idle
  <2>2. state[admin.pool] = "building"
    BY <2>1 DEF GlobalsInv
  <2> QED BY <2>1, <2>2 DEF GlobalsTyped
<1>5. CASE CreateDefault \/ CreateInsert
  <2>1. /\ admin'.at \in {"insert", "idle"} /\ state' = state
        /\ defPool # Null => defPool' = defPool
    BY <1>5, AdminShapes DEF CreateDefault, CreateInsert, poolVars, Working, Idle
  <2> QED BY <2>1
<1>6. CASE \E n \in Names : ClearErase(n)
  <2> PICK n \in Names : ClearErase(n)  BY <1>6
  <2>1. /\ admin'.at = "erased" /\ admin'.pool = reg[n] /\ state' = state
        /\ Quiesced(reg[n])
    BY DEF ClearErase, poolVars
  <2> QED BY <2>1 DEF Quiesced
<1>7. CASE ClearDefault
  <2>1. /\ admin \in Cleaning /\ admin.at = "erased"
        /\ admin'.at = "delete" /\ admin'.pool = admin.pool /\ state' = state
    BY <1>7, AdminShapes DEF ClearDefault, poolVars, Cleaning
  <2> QED BY <2>1
<1>8. CASE ClearDelete
  <2>1. /\ admin \in Cleaning /\ admin.at = "delete" /\ admin'.at = "idle"
        /\ state' = IF admin.pool = Null THEN state
                    ELSE [state EXCEPT ![admin.pool] = "deleted"]
        /\ defPool' = defPool
    BY <1>8, AdminShapes DEF ClearDelete, globals, Idle
  <2> QED BY <2>1 DEF GlobalsTyped, Cleaning, QueriesTyped
<1>9. CASE \E q \in Queries, n \in Names : QueryNamed(q, n)
  BY <1>9 DEF QueryNamed, poolVars
<1> QED BY GlobalCases, <1>1, <1>2, <1>3, <1>4, <1>5, <1>6, <1>7, <1>8, <1>9

LEMMA UsesStep ==
  ASSUME GlobalsTyped, ConfigsTyped, QueriesTyped, GlobalsInv, UsesInv, [Next]_vars
  PROVE  UsesInv'
<1> USE ValuesAssumption
    DEF UsesInv, QueryPoolAlive, ConnFromOwnPool, Live, Clearing, QueriesTyped, poolVars, globals
<1>1. CASE UNCHANGED queryVars
  BY <1>1, UsesKept
<1>2. CASE \E q \in Queries : QueryDefault(q)
  <2> PICK q \in Queries : QueryDefault(q)  BY <1>2
  <2>1. /\ qpc[q] = "none" /\ ~Clearing /\ UNCHANGED <<state, defPool, admin, qconn>>
        /\ \/ /\ qpool' = [qpool EXCEPT ![q] = Wild] /\ qpc' = [qpc EXCEPT ![q] = "open"]
           \/ /\ defPool # Null
              /\ qpool' = [qpool EXCEPT ![q] = defPool] /\ qpc' = [qpc EXCEPT ![q] = "lookup"]
    BY DEF QueryDefault
  <2>2. defPool # Null => defPool \in Pools /\ Live(defPool)
    BY DEF GlobalsTyped, GlobalsInv, DefaultLive
  <2> QED BY <2>1, <2>2
<1>3. CASE \E q \in Queries, n \in Names : QueryNamed(q, n)
  <2> PICK q \in Queries, n \in Names : QueryNamed(q, n)  BY <1>3
  <2>1. /\ qpc[q] = "none" /\ ~Clearing /\ UNCHANGED <<state, defPool, admin, qconn>>
        /\ qpool' = [qpool EXCEPT ![q] = reg'[n]]
        /\ qpc' = [qpc EXCEPT ![q] = IF reg'[n] = Null THEN "open" ELSE "connect"]
    BY DEF QueryNamed
  <2>2. reg'[n] = Null \/ (reg'[n] \in Pools /\ Live(reg'[n]))
    BY DEF QueryNamed, GlobalsTyped, GlobalsInv, EntriesLive
  <2> QED BY <2>1, <2>2
<1>4. CASE \E q \in Queries, k \in Configs : QueryConfig(q, k)
  <2> PICK q \in Queries, k \in Configs : QueryConfig(q, k)  BY <1>4
  <2>1. /\ qpc[q] = "none" /\ admin.at = "idle" /\ Live(mpool[k])
        /\ UNCHANGED <<state, defPool, admin, qconn>>
        /\ qpool' = [qpool EXCEPT ![q] = mpool[k]]
        /\ qpc' = [qpc EXCEPT ![q] = "connect"]
    BY DEF QueryConfig
  <2> QED BY <2>1
<1>5. CASE \E q \in Queries : QueryConnect(q)
  <2> PICK q \in Queries : QueryConnect(q)  BY <1>5
  <2>1. /\ qpc[q] \in {"lookup", "connect"} /\ UNCHANGED <<state, defPool, admin, qpool>>
        /\ \E c \in {qpool[q], Null} : qconn' = [qconn EXCEPT ![q] = c]
        /\ qpc' = [qpc EXCEPT ![q] = "open"]
    BY DEF QueryConnect, Connect
  <2> QED BY <2>1
<1>6. CASE \E q \in Queries : QueryDestroy(q)
  <2> PICK q \in Queries : QueryDestroy(q)  BY <1>6
  <2>1. /\ UNCHANGED <<state, defPool, admin>> /\ qpool' = [qpool EXCEPT ![q] = Null]
        /\ qconn' = [qconn EXCEPT ![q] = Null] /\ qpc' = [qpc EXCEPT ![q] = "none"]
    BY DEF QueryDestroy
  <2> QED BY <2>1
<1> QED BY QueryCases, <1>1, <1>2, <1>3, <1>4, <1>5, <1>6

-----------------------------------------------------------------------------
\* The CDBPool objects and the limits.

LEMMA ConfigsTypeStep ==
  ASSUME GlobalsTyped, ConfigsTyped, [Next]_vars
  PROVE  ConfigsTyped'
<1> USE ValuesAssumption DEF ConfigsTyped, LimitsType
<1>0. NoPromise \in LimitsType /\ Zero \in LimitsType
  BY DEF NoPromise, Zero
<1>1. CASE UNCHANGED <<limits, configVars>>
  BY <1>1 DEF configVars
<1>2. CASE \E k \in Configs : NewDefault(k) \/ SetCredentials(k) \/ DropConfig(k)
  <2> PICK k \in Configs : NewDefault(k) \/ SetCredentials(k) \/ DropConfig(k)  BY <1>2
  <2>1. CASE NewDefault(k)
    BY <1>0, <2>1 DEF NewDefault, poolVars
  <2>2. CASE SetCredentials(k)
    BY <2>2 DEF SetCredentials, poolVars
  <2>3. CASE DropConfig(k)
    BY <2>3 DEF DropConfig, poolVars
  <2> QED BY <2>1, <2>2, <2>3
<1>3. CASE \E k \in Configs : NewFull(k)
  BY <1>0, <1>3 DEF NewFull, poolVars
<1>4. CASE \E k \in Configs, r \in Ranges : SetLinkCount(k, r)
  BY <1>4 DEF SetLinkCount
<1>5. CASE \E k \in Configs, n \in Names, p \in Pools : CreateStart(k, n, p)
  BY <1>0, <1>5 DEF CreateStart, Expected
<1>6. CASE CreateFail \/ CreateBuilt
  <2>1. admin.pool \in Pools /\ admin.config \in Configs
    BY <1>6, AdminShapes DEF CreateFail, CreateBuilt, Working
  <2> QED BY <1>6, <2>1 DEF CreateFail, CreateBuilt, configVars
<1> QED BY ConfigCases, <1>1, <1>2, <1>3, <1>4, <1>5, <1>6

\* A pool that is being built has the constructor's limits; each CDBPool has a
\* pool of its own; and the limits its caller expects are those of its pool,
\* or are stored until it has one.
BuildInv ==
  admin.at = "build" =>
    /\ mpool[admin.config] = admin.pool /\ made[admin.config] = "ready"
    /\ state[admin.pool] = "building" /\ limits[admin.pool] = DefLimits
OwnPools ==
  \A k \in Configs : mpool[k] \in Pools =>
    /\ state[mpool[k]] # "none"
    /\ \A j \in Configs : mpool[j] = mpool[k] => j = k
LimitsMatch ==
  \A k \in Configs : Live(mpool[k]) /\ want[k].min > 0 => limits[mpool[k]] = want[k]
Pending(k) == mpool[k] = Null \/ (admin.at = "build" /\ admin.config = k)
StoredMatch ==
  \A k \in Configs :
    /\ made[k] = "none" => want[k] = DefLimits
    /\ made[k] # "none" /\ Pending(k) /\ want[k].min > 0 =>
         \/ stored[k] = want[k] /\ want[k].max > 0
         \/ stored[k] = Zero /\ want[k] = DefLimits
LimitsInv == BuildInv /\ OwnPools /\ LimitsMatch /\ StoredMatch

\* The steps that leave every CDBPool and every limit alone.
LEMMA LimitsAlone ==
  ASSUME GlobalsTyped, [Next]_vars, UNCHANGED <<limits, configVars>>
  PROVE  \/ UNCHANGED <<state, admin>>
         \/ CreateFail
         \/ CreateBuilt
         \/ \E k \in Configs, n \in Names, p \in Pools : CreateStart(k, n, p)
         \/ /\ admin.at # "build" /\ admin'.at # "build"
            /\ \A p \in Pools : state'[p] \in {state[p], "deleted"}
<1> USE DEF poolVars, globals
<1>1. CASE \E k \in Configs, n \in Names : CreateFound(k, n)
  BY <1>1 DEF CreateFound
<1>2. CASE CreateDefault \/ CreateInsert
  BY <1>2, AdminShapes DEF CreateDefault, CreateInsert, Working, Idle
<1>3. CASE \E n \in Names : ClearErase(n)
  BY <1>3 DEF ClearErase
<1>4. CASE ClearDefault
  BY <1>4, AdminShapes DEF ClearDefault, Cleaning, Clearing
<1>5. CASE ClearDelete
  BY <1>5 DEF ClearDelete, Idle, GlobalsTyped
<1>6. CASE \E q \in Queries, n \in Names : QueryNamed(q, n)
  BY <1>6 DEF QueryNamed
<1> QED BY GlobalCases, <1>1, <1>2, <1>3, <1>4, <1>5, <1>6

LEMMA LimitsStep ==
  ASSUME GlobalsTyped, ConfigsTyped, GlobalsInv, LimitsInv, [Next]_vars
  PROVE  LimitsInv'
<1> USE ValuesAssumption
    DEF LimitsInv, BuildInv, OwnPools, LimitsMatch, Pending, StoredMatch, Live
<1>1. CASE UNCHANGED <<state, admin, limits, configVars>>
  BY <1>1 DEF configVars
<1>2. CASE /\ UNCHANGED <<limits, configVars>>
           /\ admin.at # "build" /\ admin'.at # "build"
           /\ \A p \in Pools : state'[p] \in {state[p], "deleted"}
  BY <1>2 DEF configVars
<1>3. CASE \E k \in Configs : NewDefault(k)
  <2> PICK k \in Configs : NewDefault(k)  BY <1>3
  <2>1. /\ made[k] = "none" /\ made' = [made EXCEPT ![k] = "blank"]
        /\ stored' = [stored EXCEPT ![k] = Zero]
        /\ UNCHANGED <<state, limits, mpool, want, admin>>
    BY DEF NewDefault, poolVars
  <2> QED BY <2>1 DEF ConfigsTyped
<1>4. CASE \E k \in Configs : NewFull(k)
  <2> PICK k \in Configs : NewFull(k)  BY <1>4
  <2>1. /\ made[k] = "none" /\ made' = [made EXCEPT ![k] = "ready"]
        /\ \E g \in Garbage : stored' = [stored EXCEPT ![k] = g]
        /\ want' = [want EXCEPT ![k] = NoPromise] /\ NoPromise.min = -1
        /\ UNCHANGED <<state, limits, mpool, admin>>
    BY DEF NewFull, poolVars, NoPromise
  <2> QED BY <2>1 DEF ConfigsTyped
<1>5. CASE \E k \in Configs : SetCredentials(k)
  <2> PICK k \in Configs : SetCredentials(k)  BY <1>5
  <2>1. /\ made[k] = "blank" /\ made' = [made EXCEPT ![k] = "ready"]
        /\ UNCHANGED <<state, limits, mpool, stored, want, admin>>
    BY DEF SetCredentials, poolVars
  <2> QED BY <2>1 DEF ConfigsTyped
<1>6. CASE \E k \in Configs : DropConfig(k)
  <2> PICK k \in Configs : DropConfig(k)  BY <1>6
  <2>1. /\ made' = [made EXCEPT ![k] = "none"] /\ mpool' = [mpool EXCEPT ![k] = Null]
        /\ want' = [want EXCEPT ![k] = DefLimits] /\ admin.at = "idle"
        /\ UNCHANGED <<state, limits, stored, admin>>
    BY DEF DropConfig, poolVars
  <2> QED BY <2>1 DEF ConfigsTyped
<1>7. CASE \E k \in Configs, r \in Ranges : SetLinkCount(k, r)
  <2> PICK k \in Configs, r \in Ranges : SetLinkCount(k, r)  BY <1>7
  <2>1. /\ made[k] # "none" /\ admin.at = "idle"
        /\ r.min <= r.max /\ r \in [min : Int, max : Int]
        /\ want' = [want EXCEPT ![k] = r] /\ UNCHANGED <<state, made, mpool, admin>>
    BY DEF SetLinkCount
  <2>2. /\ want'[k] = r /\ \A j \in Configs : j # k => want'[j] = want[j]
        /\ r.min > 0 => r.max > 0
    BY <2>1 DEF ConfigsTyped
  <2>3. BuildInv'
    BY <2>1
  <2>4. CASE mpool[k] = Null /\ stored' = [stored EXCEPT ![k] = r] /\ UNCHANGED limits
    <3>1. stored'[k] = r /\ \A j \in Configs : j # k => stored'[j] = stored[j]
      BY <2>4 DEF ConfigsTyped
    <3>2. OwnPools' /\ LimitsMatch'
      BY <2>1, <2>2, <2>4
    <3>3. StoredMatch'
      BY <2>1, <2>2, <3>1
    <3> QED BY <2>3, <3>2, <3>3
  <2>5. CASE /\ Live(mpool[k]) /\ limits' = [limits EXCEPT ![mpool[k]] = r]
             /\ UNCHANGED stored
    <3>1. /\ limits'[mpool[k]] = r
          /\ \A p \in Pools : p # mpool[k] => limits'[p] = limits[p]
      BY <2>5 DEF ConfigsTyped
    <3>2. OwnPools'
      BY <2>1
    <3>3. LimitsMatch'
      BY <2>1, <2>2, <2>5, <3>1
    <3>4. StoredMatch'
      BY <2>1, <2>2, <2>5
    <3> QED BY <2>1, <2>3, <3>1, <3>2, <3>3, <3>4
  <2> QED BY <2>4, <2>5 DEF SetLinkCount
<1>8. CASE \E k \in Configs, n \in Names, p \in Pools : CreateStart(k, n, p)
  <2> PICK k \in Configs, n \in Names, p \in Pools : CreateStart(k, n, p)  BY <1>8
  <2>1. /\ admin.at = "idle" /\ made[k] = "ready" /\ state[p] = "none"
        /\ state' = [state EXCEPT ![p] = "building"]
        /\ limits' = [limits EXCEPT ![p] = DefLimits]
        /\ mpool' = [mpool EXCEPT ![k] = p]
        /\ admin'.at = "build" /\ admin'.config = k /\ admin'.pool = p
        /\ want' = [want EXCEPT ![k] = Expected(k)]
        /\ UNCHANGED <<made, stored>>
    BY DEF CreateStart
  <2>2. Expected(k) = IF mpool[k] = Null THEN want[k] ELSE NoPromise
    BY DEF Expected
  <2>3. NoPromise.min = -1
    BY DEF NoPromise
  <2>4. /\ state'[p] = "building" /\ limits'[p] = DefLimits /\ mpool'[k] = p
        /\ \A o \in Pools : o # p => state'[o] = state[o] /\ limits'[o] = limits[o]
        /\ \A j \in Configs : j # k => mpool'[j] = mpool[j] /\ mpool[j] # p /\ want'[j] = want[j]
        /\ want'[k] = Expected(k)
    BY <2>1 DEF GlobalsTyped, ConfigsTyped
  <2>5. BuildInv'
    BY <2>1, <2>4
  <2>6. OwnPools'
    BY <2>1, <2>4 DEF ConfigsTyped
  <2>7. LimitsMatch'
    BY <2>1, <2>4 DEF ConfigsTyped
  <2>8. StoredMatch'
    BY <2>1, <2>2, <2>3, <2>4 DEF ConfigsTyped
  <2> QED BY <2>5, <2>6, <2>7, <2>8
<1>9. CASE CreateFail
  <2>1. /\ admin.at = "build" /\ admin.pool \in Pools /\ admin.config \in Configs
        /\ admin'.at = "idle"
        /\ state' = [state EXCEPT ![admin.pool] = "deleted"]
        /\ mpool' = [mpool EXCEPT ![admin.config] = Null]
        /\ UNCHANGED <<limits, made, stored, want>>
    BY <1>9, AdminShapes DEF CreateFail, Working, Idle
  <2> QED BY <2>1 DEF GlobalsTyped, ConfigsTyped
<1>10. CASE CreateBuilt
  <2> DEFINE s == stored[admin.config]
  <2>1. /\ admin.at = "build" /\ admin.pool \in Pools /\ admin.config \in Configs
        /\ admin'.at = "default"
        /\ state' = [state EXCEPT ![admin.pool] = "live"]
        /\ limits' = [limits EXCEPT ![admin.pool] =
                        IF s.min > 0 /\ s.max > 0 THEN s ELSE limits[admin.pool]]
        /\ UNCHANGED <<made, mpool, stored, want>>
    BY <1>10, AdminShapes DEF CreateBuilt, Working, configVars
  <2>2. mpool[admin.config] = admin.pool /\ limits[admin.pool] = DefLimits
    BY <2>1
  <2>3. /\ BuildInv' /\ OwnPools'
    BY <2>1, <2>2 DEF GlobalsTyped
  <2>4. StoredMatch'
    BY <2>1, <2>2 DEF ConfigsTyped
  <2>5. want[admin.config].min > 0 => limits'[admin.pool] = want[admin.config]
    <3>1. CASE s = want[admin.config] /\ want[admin.config].max > 0
      BY <2>1, <3>1 DEF ConfigsTyped
    <3>2. CASE s = Zero /\ want[admin.config] = DefLimits
      BY <2>1, <2>2, <3>2 DEF ConfigsTyped, Zero
    <3> QED BY <2>1, <2>2, <3>1, <3>2
  <2>6. LimitsMatch'
    BY <2>1, <2>2, <2>5 DEF GlobalsTyped, ConfigsTyped
  <2> QED BY <2>3, <2>4, <2>6
<1>11. CASE UNCHANGED <<limits, configVars>>
  BY <1>1, <1>2, <1>8, <1>9, <1>10, <1>11, LimitsAlone
<1> QED
  BY ConfigCases, <1>3, <1>4, <1>5, <1>6, <1>7, <1>8, <1>9, <1>10, <1>11

-----------------------------------------------------------------------------
RegistryInv == TypeOK /\ GlobalsInv /\ UsesInv /\ LimitsInv

LEMMA InitInv == Init => RegistryInv
<1> SUFFICES ASSUME Init PROVE RegistryInv
  OBVIOUS
<1> USE ValuesAssumption DEF Init
<1>1. GlobalsTyped
  BY DEF GlobalsTyped, AdminType
<1>2. ConfigsTyped
  BY DEF ConfigsTyped, LimitsType, Zero
<1>3. QueriesTyped
  BY DEF QueriesTyped
<1>4. GlobalsInv
  BY DEF GlobalsInv, EntriesLive, DefaultLive, NamesDistinct, NoPoolLost, Live, Clearing, Idle
<1>5. UsesInv
  BY DEF UsesInv, QueryPoolAlive, ConnFromOwnPool
<1>6. LimitsInv
  BY DEF LimitsInv, BuildInv, OwnPools, LimitsMatch, StoredMatch, Live, Idle
<1> QED BY <1>1, <1>2, <1>3, <1>4, <1>5, <1>6 DEF RegistryInv, TypeOK

\* The inductive invariant that needs no assumption on the names.
THEOREM RegistryKeeps == Spec => []RegistryInv
<1>1. RegistryInv /\ [Next]_vars => RegistryInv'
  BY GlobalsTypeStep, ConfigsTypeStep, QueriesTypeStep, GlobalsStep, UsesStep, LimitsStep
  DEF RegistryInv, TypeOK
<1> QED BY InitInv, <1>1, PTL DEF Spec

\* The globals and the members of CDBPool and CDBQuery stay in their domains
\* (CDBPool.cpp:3-4).
THEOREM TypeCorrect == Spec => []TypeOK
<1>1. RegistryInv => TypeOK
  BY DEF RegistryInv
<1> QED BY RegistryKeeps, <1>1, PTL

\* No global points at a deleted pool at any step of create and clear, and no
\* pool has two names (CDBPool.cpp:36-93).
THEOREM GlobalsSound == Spec => []NoDanglingGlobal
<1>1. RegistryInv => NoDanglingGlobal
  BY DEF RegistryInv, GlobalsInv, NoDanglingGlobal
<1> QED BY RegistryKeeps, <1>1, PTL

\* Every pool that is up is registered, or in the hands of create or clear.
THEOREM NothingLost == Spec => []NoPoolLost
<1>1. RegistryInv => NoPoolLost
  BY DEF RegistryInv, GlobalsInv
<1> QED BY RegistryKeeps, <1>1, PTL

\* A CDBQuery uses a live pool, if clear overlaps no construction and hits no
\* pool in use.
THEOREM QueriesUseLivePools == Spec => []QueryPoolAlive
<1>1. RegistryInv => QueryPoolAlive
  BY DEF RegistryInv, UsesInv
<1> QED BY RegistryKeeps, <1>1, PTL

\* A CDBQuery gives its connection back to the pool it came from, although the
\* default constructor reads g_defPool twice.
THEOREM ConnectionsReturn == Spec => []ConnFromOwnPool
<1>1. RegistryInv => ConnFromOwnPool
  BY DEF RegistryInv, UsesInv
<1> QED BY RegistryKeeps, <1>1, PTL

\* A pool has the limits its CDBPool's caller set last, or the defaults.
THEOREM LimitsAreKept == Spec => []LimitsKept
<1>1. RegistryInv => LimitsKept
  BY DEF RegistryInv, LimitsInv, LimitsMatch, LimitsKept
<1> QED BY RegistryKeeps, <1>1, PTL

-----------------------------------------------------------------------------
\* The default constructor finds a default pool whenever a name has a pool.
LEMMA WildStep ==
  ASSUME RegistryInv, KnownInv, NoWildQuery, [Next]_vars
  PROVE  NoWildQuery'
<1> USE ValuesAssumption DEF NoWildQuery, RegistryInv, TypeOK, QueriesTyped
<1>1. CASE UNCHANGED queryVars
  BY <1>1 DEF queryVars
<1>2. CASE \E q \in Queries : QueryDefault(q)
  <2> PICK q \in Queries : QueryDefault(q)  BY <1>2
  <2>1. defPool # Null
    BY DEF QueryDefault, SomePool, Live, KnownInv
  <2>2. qpool' = [qpool EXCEPT ![q] = defPool] /\ defPool # Wild
    BY <2>1 DEF QueryDefault, GlobalsTyped
  <2> QED BY <2>2
<1>3. CASE \E q \in Queries, n \in Names : QueryNamed(q, n)
  <2> PICK q \in Queries, n \in Names : QueryNamed(q, n)  BY <1>3
  <2>1. qpool' = [qpool EXCEPT ![q] = reg'[n]] /\ reg'[n] # Wild
    BY DEF QueryNamed, GlobalsTyped
  <2> QED BY <2>1
<1>4. CASE \E q \in Queries, k \in Configs : QueryConfig(q, k)
  BY <1>4 DEF QueryConfig, ConfigsTyped, Live
<1>5. CASE \E q \in Queries : QueryConnect(q)
  BY <1>5 DEF QueryConnect, Connect
<1>6. CASE \E q \in Queries : QueryDestroy(q)
  BY <1>6 DEF QueryDestroy
<1> QED BY QueryCases, <1>1, <1>2, <1>3, <1>4, <1>5, <1>6

LEMMA KnownKept == ASSUME ~UnknownNames PROVE Spec => [](KnownInv /\ NoWildQuery)
<1>1. Init => KnownInv /\ NoWildQuery
  BY ValuesAssumption DEF Init, KnownInv, CreatedIsUsable, NoWildQuery
<1>2. RegistryInv /\ KnownInv /\ NoWildQuery /\ [Next]_vars => (KnownInv /\ NoWildQuery)'
  BY KnownStep, WildStep DEF RegistryInv, TypeOK
<1> QED BY RegistryKeeps, <1>1, <1>2, PTL DEF Spec

\* While CDBQuery(name) is given names that were created, CDBQuery() leaves no
\* member uninitialised as long as a pool is registered (CDBQuery.cpp:6-17).
THEOREM DefaultFound == ASSUME ~UnknownNames PROVE Spec => []NoWildQuery
BY KnownKept, PTL

\* ... and create(n) that returned 0 leaves a live pool under n until it is
\* cleared (CDBPool.h:33).
THEOREM CreatedUsable == ASSUME ~UnknownNames PROVE Spec => []CreatedIsUsable
<1>1. KnownInv => CreatedIsUsable
  BY DEF KnownInv
<1> QED BY KnownKept, <1>1, PTL

-----------------------------------------------------------------------------
\* The contract of a pool's life.  Half of the steps are the administering
\* thread's, under CDBQuery objects that stay as they are, and half are a
\* CDBQuery's, under pools that stay as they are.

\* A step on the pools builds one, ends the building, deletes one nobody has,
\* or leaves them all alone.
LEMMA PoolSteps ==
  ASSUME RegistryInv, [Next]_vars
  PROVE  \/ UNCHANGED state
         \/ /\ UNCHANGED queryVars
            /\ \E p \in Pools : /\ state[p] = "none"
                                /\ state' = [state EXCEPT ![p] = "building"]
         \/ /\ UNCHANGED queryVars
            /\ \E p \in Pools, s \in {"live", "deleted"} :
                 state[p] = "building" /\ state' = [state EXCEPT ![p] = s]
         \/ /\ UNCHANGED queryVars
            /\ \E p \in Pools : /\ state[p] = "live"
                                /\ \A q \in Queries : UsedBy(q) # p
                                /\ state' = [state EXCEPT ![p] = "deleted"]
<1> USE DEF RegistryInv, TypeOK
<1>1. CASE \E k \in Configs, n \in Names, p \in Pools : CreateStart(k, n, p)
  BY <1>1 DEF CreateStart
<1>2. CASE CreateFail \/ CreateBuilt
  <2>1. /\ admin.pool \in Pools /\ UNCHANGED queryVars
        /\ \E s \in {"live", "deleted"} : state' = [state EXCEPT ![admin.pool] = s]
    BY <1>2, AdminShapes DEF CreateFail, CreateBuilt, Working
  <2>2. state[admin.pool] = "building"
    BY <1>2 DEF GlobalsInv, CreateFail, CreateBuilt
  <2> QED BY <2>1, <2>2
<1>3. CASE ClearDelete
  <2>1. CASE admin.pool = Null
    BY <1>3, <2>1 DEF ClearDelete
  <2>2. CASE admin.pool # Null
    <3>1. /\ Clearing /\ UNCHANGED queryVars
          /\ state' = [state EXCEPT ![admin.pool] = "deleted"]
      BY <1>3, <2>2 DEF ClearDelete, Clearing
    <3>2. admin.pool \in Pools /\ state[admin.pool] = "live"
      BY <2>2, <3>1 DEF GlobalsInv, Live
    <3>3. \A q \in Queries : UsedBy(q) # admin.pool
      BY <2>2, <3>1 DEF UsesInv, UsedBy, QueriesTyped
    <3> QED BY <3>1, <3>2, <3>3
  <2> QED BY <2>1, <2>2
<1>4. CASE \E k \in Configs, n \in Names : CreateFound(k, n)
  BY <1>4 DEF CreateFound, poolVars
<1>5. CASE CreateDefault \/ CreateInsert
  BY <1>5 DEF CreateDefault, CreateInsert, poolVars
<1>6. CASE (\E n \in Names : ClearErase(n)) \/ ClearDefault
  BY <1>6 DEF ClearErase, ClearDefault, poolVars
<1>7. CASE \E q \in Queries, n \in Names : QueryNamed(q, n)
  BY <1>7 DEF QueryNamed, poolVars
<1> QED BY GlobalCases, <1>1, <1>2, <1>3, <1>4, <1>5, <1>6, <1>7

\* A step of a CDBQuery gives it a live pool, gives it a connection of its
\* pool, ends it, or changes nothing the contract sees.
LEMMA UserSteps ==
  ASSUME RegistryInv, [Next]_vars
  PROVE  LET used == [q \in Queries |-> UsedBy(q)]
         IN  \/ UNCHANGED <<used, qconn>>
             \/ /\ UNCHANGED <<state, qconn>>
                /\ \E q \in Queries, p \in Pools :
                     /\ used[q] = Null /\ state[p] = "live"
                     /\ used' = [used EXCEPT ![q] = p]
             \/ /\ UNCHANGED <<state, used>>
                /\ \E q \in Queries :
                     /\ used[q] # Null /\ qconn[q] = Null
                     /\ qconn' = [qconn EXCEPT ![q] = used[q]]
             \/ /\ UNCHANGED state
                /\ \E q \in Queries :
                     /\ used[q] # Null
                     /\ used' = [used EXCEPT ![q] = Null]
                     /\ qconn' = [qconn EXCEPT ![q] = Null]
<1> DEFINE used == [q \in Queries |-> UsedBy(q)]
<1> USE ValuesAssumption DEF RegistryInv, TypeOK, QueriesTyped
<1>1. CASE UNCHANGED queryVars
  BY <1>1 DEF queryVars, UsedBy
\* A constructor has picked a pool p, or none.
<1>2. ASSUME NEW q \in Queries, NEW p,
             qpc[q] = "none", UNCHANGED <<state, qconn>>,
             p \in Pools => Live(p),
             qpool' = [qpool EXCEPT ![q] = p],
             \E c \in {"lookup", "connect", "open"} : qpc' = [qpc EXCEPT ![q] = c]
      PROVE  \/ UNCHANGED <<used, qconn>>
             \/ /\ UNCHANGED <<state, qconn>>
                /\ p \in Pools /\ used[q] = Null /\ state[p] = "live"
                /\ used' = [used EXCEPT ![q] = p]
  <2>1. UsedBy(q) = Null /\ UsedBy(q)' = IF p \in Pools THEN p ELSE Null
    BY <1>2 DEF UsedBy
  <2>2. \A o \in Queries : o # q => UsedBy(o)' = UsedBy(o)
    BY <1>2 DEF UsedBy
  <2>3. CASE p \in Pools
    BY <1>2, <2>1, <2>2, <2>3 DEF Live
  <2>4. CASE p \notin Pools
    BY <1>2, <2>1, <2>2, <2>4
  <2> QED BY <2>3, <2>4
<1>3. CASE \E q \in Queries : QueryDefault(q)
  <2> PICK q \in Queries : QueryDefault(q)  BY <1>3
  <2>1. /\ qpc[q] = "none" /\ UNCHANGED <<state, qconn>>
        /\ \/ qpool' = [qpool EXCEPT ![q] = Wild] /\ qpc' = [qpc EXCEPT ![q] = "open"]
           \/ qpool' = [qpool EXCEPT ![q] = defPool] /\ qpc' = [qpc EXCEPT ![q] = "lookup"]
    BY DEF QueryDefault, poolVars
  <2>2. (defPool \in Pools => Live(defPool)) /\ (Wild \in Pools => Live(Wild))
    BY DEF GlobalsInv, DefaultLive
  <2>3. ASSUME NEW p \in {Wild, defPool}, qpool' = [qpool EXCEPT ![q] = p]
        PROVE  \/ UNCHANGED <<used, qconn>>
               \/ /\ UNCHANGED <<state, qconn>>
                  /\ p \in Pools /\ used[q] = Null /\ state[p] = "live"
                  /\ used' = [used EXCEPT ![q] = p]
    <3>1. p \in Pools => Live(p)
      BY <2>2, <2>3
    <3>2. \E c \in {"lookup", "connect", "open"} : qpc' = [qpc EXCEPT ![q] = c]
      BY <2>1
    <3> HIDE DEF used
    <3> QED BY <1>2, <2>1, <2>3, <3>1, <3>2
  <2> HIDE DEF used
  <2>4. \/ UNCHANGED <<used, qconn>>
        \/ /\ UNCHANGED <<state, qconn>>
           /\ \E p \in Pools : /\ used[q] = Null /\ state[p] = "live"
                               /\ used' = [used EXCEPT ![q] = p]
    BY <2>1, <2>3
  <2> QED BY <2>4 DEF used
<1>4. CASE \E q \in Queries, n \in Names : QueryNamed(q, n)
  <2> PICK q \in Queries, n \in Names : QueryNamed(q, n)  BY <1>4
  <2>1. /\ qpc[q] = "none" /\ UNCHANGED <<state, qconn>>
        /\ qpool' = [qpool EXCEPT ![q] = reg'[n]]
        /\ qpc' = [qpc EXCEPT ![q] = IF reg'[n] = Null THEN "open" ELSE "connect"]
    BY DEF QueryNamed, poolVars
  <2>2. reg'[n] \in Pools => Live(reg'[n])
    BY DEF QueryNamed, GlobalsTyped, GlobalsInv, EntriesLive
  <2> QED BY <1>2, <2>1, <2>2
<1>5. CASE \E q \in Queries, k \in Configs : QueryConfig(q, k)
  <2> PICK q \in Queries, k \in Configs : QueryConfig(q, k)  BY <1>5
  <2>1. /\ qpc[q] = "none" /\ UNCHANGED <<state, qconn>> /\ Live(mpool[k])
        /\ qpool' = [qpool EXCEPT ![q] = mpool[k]]
        /\ qpc' = [qpc EXCEPT ![q] = "connect"]
    BY DEF QueryConfig, poolVars
  <2> QED BY <1>2, <2>1
<1>6. CASE \E q \in Queries : QueryConnect(q)
  <2> PICK q \in Queries : QueryConnect(q)  BY <1>6
  <2>1. /\ qpc[q] \in {"lookup", "connect"} /\ UNCHANGED <<state, qpool>>
        /\ qpool[q] \in Pools /\ qconn[q] = Null
        /\ qconn' = [qconn EXCEPT ![q] = qpool[q]] \/ qconn' = [qconn EXCEPT ![q] = Null]
        /\ qpc' = [qpc EXCEPT ![q] = "open"]
    BY DEF QueryConnect, Connect, UsesInv, poolVars
  <2>2. UsedBy(q) = qpool[q] /\ \A o \in Queries : UsedBy(o)' = UsedBy(o)
    BY <2>1 DEF UsedBy
  <2> QED BY <2>1, <2>2
<1>7. CASE \E q \in Queries : QueryDestroy(q)
  <2> PICK q \in Queries : QueryDestroy(q)  BY <1>7
  <2>1. /\ qpc[q] = "open" /\ UNCHANGED state
        /\ qpool' = [qpool EXCEPT ![q] = Null]
        /\ qconn' = [qconn EXCEPT ![q] = Null]
        /\ qpc' = [qpc EXCEPT ![q] = "none"]
    BY DEF QueryDestroy, poolVars
  <2>2. UsedBy(q)' = Null /\ \A o \in Queries : o # q => UsedBy(o)' = UsedBy(o)
    BY <2>1 DEF UsedBy
  <2>3. UsedBy(q) = Null => qconn[q] = Null
    BY <2>1 DEF UsedBy, UsesInv, ConnFromOwnPool
  <2> QED BY <2>1, <2>2, <2>3
<1> QED BY QueryCases, <1>1, <1>3, <1>4, <1>5, <1>6, <1>7

\* Every step is one of the contract's, or one it does not see.
LEMMA LifetimeMaps ==
  RegistryInv /\ [Next]_vars => [Lifetime!LifeNext]_(Lifetime!lifeVars)
<1> SUFFICES ASSUME RegistryInv, [Next]_vars
             PROVE  [Lifetime!LifeNext]_(Lifetime!lifeVars)
  OBVIOUS
<1> DEFINE used == [q \in Queries |-> UsedBy(q)]
<1> USE DEF Lifetime!LifeNext, Lifetime!lifeVars
<1>1. UNCHANGED queryVars => UNCHANGED <<used, qconn>>
  BY DEF queryVars, UsedBy
<1>2. ASSUME NEW p \in Pools, state[p] = "none", UNCHANGED queryVars,
             state' = [state EXCEPT ![p] = "building"]
      PROVE  Lifetime!Build(p)
  BY <1>1, <1>2 DEF Lifetime!Build
<1>3. ASSUME NEW p \in Pools, NEW s \in {"live", "deleted"}, state[p] = "building",
             UNCHANGED queryVars, state' = [state EXCEPT ![p] = s]
      PROVE  Lifetime!Built(p)
  BY <1>1, <1>3 DEF Lifetime!Built
<1>4. ASSUME NEW p \in Pools, state[p] = "live", UNCHANGED queryVars,
             \A q \in Queries : UsedBy(q) # p,
             state' = [state EXCEPT ![p] = "deleted"]
      PROVE  Lifetime!Retire(p)
  BY <1>1, <1>4 DEF Lifetime!Retire
<1>5. ASSUME UNCHANGED state PROVE [Lifetime!LifeNext]_(Lifetime!lifeVars)
  <2>1. CASE UNCHANGED <<used, qconn>>
    BY <1>5, <2>1
  <2>2. ASSUME NEW q \in Queries, NEW p \in Pools, UNCHANGED qconn,
               used[q] = Null, state[p] = "live", used' = [used EXCEPT ![q] = p]
        PROVE  Lifetime!Enter(q, p)
    BY <1>5, <2>2 DEF Lifetime!Enter
  <2>3. ASSUME NEW q \in Queries, UNCHANGED used, used[q] # Null, qconn[q] = Null,
               qconn' = [qconn EXCEPT ![q] = used[q]]
        PROVE  Lifetime!Borrow(q)
    BY <1>5, <2>3 DEF Lifetime!Borrow
  <2>4. ASSUME NEW q \in Queries, used[q] # Null, used' = [used EXCEPT ![q] = Null],
               qconn' = [qconn EXCEPT ![q] = Null]
        PROVE  Lifetime!Leave(q)
    BY <1>5, <2>4 DEF Lifetime!Leave
  <2> QED BY UserSteps, <2>1, <2>2, <2>3, <2>4
<1> QED BY PoolSteps, <1>2, <1>3, <1>4, <1>5

\* The registry implements the contract of a pool's life (CDBPool.cpp:36-93,
\* CDBQuery.cpp:12-69).
THEOREM RegistryImplementsLifetime == Spec => ImplementsLifetime
<1>1. Init => Lifetime!LifeInit
  BY DEF Init, Lifetime!LifeInit, UsedBy
<1> QED BY <1>1, LifetimeMaps, RegistryKeeps, PTL DEF Spec, ImplementsLifetime, Lifetime!LifeSpec

\* Hence a CDBQuery keeps its pool, and a connection its pool, until its
\* destructor gives it back (CDBQuery.cpp:61-69).
THEOREM QueriesKeepPools == Spec => Lifetime!PoolKept
<1>1. Null \notin Pools
  BY ValuesAssumption
<1> QED BY <1>1, Lifetime!PoolsKept, RegistryImplementsLifetime, PTL DEF ImplementsLifetime
=============================================================================
