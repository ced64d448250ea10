------------------------------ MODULE ConnLease ------------------------------
(***************************************************************************)
(* What a connection pool promises its clients, with no lists, counters,    *)
(* mutex or health tests: connections exist, each is leased to at most one  *)
(* client at a time, a new one is opened only when all that exist are in    *)
(* use, and a connection is closed only as its lessee returns it.  What the *)
(* clients can rely on is proved from the contract alone, so that it holds  *)
(* of every pool that implements it.                                        *)
(***************************************************************************)
EXTENDS FiniteSets, TLAPS

CONSTANTS Clients, Conns

VARIABLES
  stage,    \* "filling": the first connections are being opened
  open,     \* the connections that exist
  taken,    \* those a client has or is about to get
  lease     \* lease[k]: the connections client k has

leaseVars == <<stage, open, taken, lease>>

LeaseInit ==
  /\ stage = "filling"
  /\ open = {} /\ taken = {}
  /\ lease = [k \in Clients |-> {}]

\* The pool opens its first connections, and then serves or gives up.
Fill(c) ==
  /\ stage = "filling"
  /\ c \notin open
  /\ open' = open \cup {c}
  /\ stage' \in {"filling", "serving"}
  /\ UNCHANGED <<taken, lease>>

GiveUp ==
  /\ \/ stage = "filling" /\ stage' = "failed" /\ UNCHANGED open
     \/ stage = "failed" /\ stage' = "gone" /\ open' = {}
  /\ UNCHANGED <<taken, lease>>

\* A connection is set aside for a client: a free one, or a new one when
\* there is no free one.
Take(c) ==
  /\ stage = "serving"
  /\ c \notin taken
  /\ c \in open \/ open = taken
  /\ open' = open \cup {c}
  /\ taken' = taken \cup {c}
  /\ UNCHANGED <<stage, lease>>

\* The connection set aside turns out not to work and is put back.
PutBack(c) ==
  /\ c \in taken
  /\ \A k \in Clients : c \notin lease[k]
  /\ taken' = taken \ {c}
  /\ UNCHANGED <<stage, open, lease>>

Grant(k, c) ==
  /\ c \in taken
  /\ \A j \in Clients : c \notin lease[j]
  /\ lease' = [lease EXCEPT ![k] = @ \cup {c}]
  /\ UNCHANGED <<stage, open, taken>>

\* A client returns a connection, which the pool keeps or closes.
Return(k, c) ==
  /\ c \in lease[k]
  /\ lease' = [lease EXCEPT ![k] = @ \ {c}]
  /\ taken' = taken \ {c}
  /\ open' \in {open, open \ {c}}
  /\ UNCHANGED stage

LeaseNext ==
  \/ GiveUp
  \/ \E c \in Conns : Fill(c) \/ Take(c) \/ PutBack(c)
  \/ \E k \in Clients, c \in Conns : Grant(k, c) \/ Return(k, c)

LeaseSpec == LeaseInit /\ [][LeaseNext]_leaseVars

-----------------------------------------------------------------------------
\* A client's connection is open, is set aside for nobody else, and is no other
\* client's.
LeaseSound ==
  /\ \A k \in Clients : lease[k] \subseteq taken
  /\ taken \subseteq open
  /\ \A j, k \in Clients : j # k => lease[j] \cap lease[k] = {}

\* A connection goes from one client to another only through the pool: there is
\* a moment in between at which no client has it.
ThroughPool ==
  [][\A j, k \in Clients : j # k => lease[j] \cap lease'[k] = {}]_leaseVars

\* A connection is closed only in the step in which its one client returns it,
\* or with the whole pool.
LastReturned(c) ==
  /\ \E k \in Clients : c \in lease[k]
  /\ \A k \in Clients : c \notin lease'[k]
ClosedByLast ==
  [][\A c \in open \ open' : stage' = "gone" \/ LastReturned(c)]_leaseVars

-----------------------------------------------------------------------------
\* Leases are given only while the pool serves, so that giving up takes no
\* client's connection away.
LeaseInv ==
  /\ lease \in [Clients -> SUBSET Conns]
  /\ LeaseSound
  /\ stage # "serving" => taken = {}

LEMMA LeaseKeeps == LeaseSpec => []LeaseInv
<1>1. LeaseInit => LeaseInv
  BY DEF LeaseInit, LeaseInv, LeaseSound
<1>2. ASSUME LeaseInv, [LeaseNext]_leaseVars PROVE LeaseInv'
  <2> USE <1>2 DEF LeaseInv, LeaseSound
  <2>1. CASE GiveUp
    BY <2>1 DEF GiveUp
  <2>2. ASSUME NEW c \in Conns, Fill(c) PROVE LeaseInv'
    BY <2>2 DEF Fill
  <2>3. ASSUME NEW c \in Conns, Take(c) PROVE LeaseInv'
    BY <2>3 DEF Take
  <2>4. ASSUME NEW c \in Conns, PutBack(c) PROVE LeaseInv'
    BY <2>4 DEF PutBack
  <2>5. ASSUME NEW k \in Clients, NEW c \in Conns, Grant(k, c) PROVE LeaseInv'
    BY <2>5 DEF Grant
  <2>6. ASSUME NEW k \in Clients, NEW c \in Conns, Return(k, c) PROVE LeaseInv'
    BY <2>6 DEF Return
  <2>7. CASE UNCHANGED leaseVars
    BY <2>7 DEF leaseVars
  <2> QED BY <1>2, <2>1, <2>2, <2>3, <2>4, <2>5, <2>6, <2>7 DEF LeaseNext
<1> QED BY <1>1, <1>2, PTL DEF LeaseSpec

\* No two clients ever have the same connection, and none has a closed one.
THEOREM LeasesSound == LeaseSpec => []LeaseSound
<1>1. LeaseInv => LeaseSound
  BY DEF LeaseInv
<1> QED BY LeaseKeeps, <1>1, PTL

\* Two borrowers of a connection never overlap, not even for one step.
THEOREM HandoverThroughPool == LeaseSpec => ThroughPool
<1>1. LeaseInv /\ [LeaseNext]_leaseVars
        => [\A j, k \in Clients : j # k => lease[j] \cap lease'[k] = {}]_leaseVars
  <2> SUFFICES ASSUME LeaseInv, LeaseNext, NEW j \in Clients, NEW k \in Clients, j # k
               PROVE  lease[j] \cap lease'[k] = {}
    OBVIOUS
  <2> USE DEF LeaseInv, LeaseSound
  <2>1. ASSUME NEW i \in Clients, NEW c \in Conns, Grant(i, c)
        PROVE  lease[j] \cap lease'[k] = {}
    BY <2>1 DEF Grant
  <2>2. ASSUME NEW i \in Clients, NEW c \in Conns, Return(i, c)
        PROVE  lease[j] \cap lease'[k] = {}
    BY <2>2 DEF Return
  <2>3. ASSUME lease' = lease PROVE lease[j] \cap lease'[k] = {}
    BY <2>3
  <2> QED BY <2>1, <2>2, <2>3 DEF LeaseNext, GiveUp, Fill, Take, PutBack
<1> QED BY LeaseKeeps, <1>1, PTL DEF LeaseSpec, ThroughPool

\* A client never finds the connection it still has closed under it by the
\* return of another (CDBConnPool.cpp:181: SDelete of the connection returned).
THEOREM ClosedByLastClient == LeaseSpec => ClosedByLast
<1>1. LeaseInv /\ [LeaseNext]_leaseVars
        => [\A c \in open \ open' : stage' = "gone" \/ LastReturned(c)]_leaseVars
  <2> SUFFICES ASSUME LeaseInv, LeaseNext, NEW c \in open \ open', stage' # "gone"
               PROVE  LastReturned(c)
    OBVIOUS
  <2>1. PICK k \in Clients, d \in Conns : Return(k, d)
    BY DEF LeaseNext, GiveUp, Fill, Take, PutBack, Grant
  <2> QED BY <2>1 DEF Return, LeaseInv, LeaseSound, LastReturned
<1> QED BY LeaseKeeps, <1>1, PTL DEF LeaseSpec, ClosedByLast

=============================================================================
