----------------------------- MODULE PoolLifetime -----------------------------
(***************************************************************************)
(* What CDBPool and CDBQuery promise of the life of a pool object, with no  *)
(* names, default, limits or administering thread: a pool is built once and *)
(* deleted at most once; a client is given one pool, while it is live, for  *)
(* as long as the client exists; its connection comes from that pool; and a *)
(* pool is deleted only when no client has it.  What a client can rely on   *)
(* is proved from the contract alone.                                       *)
(***************************************************************************)
EXTENDS TLAPS

CONSTANTS Clients, Pools, None

VARIABLES
  life,    \* "none" before it is built, "building", "live", "deleted"
  uses,    \* the pool each client was given, or None
  conn     \* the pool each client's connection came from, or None

lifeVars == <<life, uses, conn>>

LifeInit ==
  /\ life = [p \in Pools |-> "none"]
  /\ uses = [k \in Clients |-> None]
  /\ conn = [k \in Clients |-> None]

Build(p) ==
  /\ life[p] = "none"
  /\ life' = [life EXCEPT ![p] = "building"]
  /\ UNCHANGED <<uses, conn>>

\* The pool comes up, or it does not and is deleted at once.
Built(p) ==
  /\ life[p] = "building"
  /\ \E s \in {"live", "deleted"} : life' = [life EXCEPT ![p] = s]
  /\ UNCHANGED <<uses, conn>>

Retire(p) ==
  /\ life[p] = "live"
  /\ \A k \in Clients : uses[k] # p
  /\ life' = [life EXCEPT ![p] = "deleted"]
  /\ UNCHANGED <<uses, conn>>

\* A client appears and is given a pool.
Enter(k, p) ==
  /\ uses[k] = None
  /\ life[p] = "live"
  /\ uses' = [uses EXCEPT ![k] = p]
  /\ UNCHANGED <<life, conn>>

Borrow(k) ==
  /\ uses[k] # None /\ conn[k] = None
  /\ conn' = [conn EXCEPT ![k] = uses[k]]
  /\ UNCHANGED <<life, uses>>

\* The client goes and gives its connection back.
Leave(k) ==
  /\ uses[k] # None
  /\ uses' = [uses EXCEPT ![k] = None]
  /\ conn' = [conn EXCEPT ![k] = None]
  /\ UNCHANGED life

LifeNext ==
  \/ \E p \in Pools : Build(p) \/ Built(p) \/ Retire(p)
  \/ \E k \in Clients : Borrow(k) \/ Leave(k) \/ \E p \in Pools : Enter(k, p)

LifeSpec == LifeInit /\ [][LifeNext]_lifeVars

-----------------------------------------------------------------------------
\* A client's pool is live, and its connection is one of that pool's.
UsesLive ==
  \A k \in Clients :
    /\ uses[k] # None => uses[k] \in Pools /\ life[uses[k]] = "live"
    /\ conn[k] \in {None, uses[k]}

\* A client keeps the pool it was given, and a connection its pool, to the end:
\* what is given back at the end goes where it came from.
PoolKept ==
  [][\A k \in Clients :
       uses'[k] # None =>
         /\ uses[k] \in {None, uses'[k]}
         /\ conn[k] # None => conn'[k] = conn[k]]_lifeVars

-----------------------------------------------------------------------------
LifeInv ==
  /\ life \in [Pools -> {"none", "building", "live", "deleted"}]
  /\ uses \in [Clients -> Pools \cup {None}]
  /\ conn \in [Clients -> Pools \cup {None}]
  /\ UsesLive

LEMMA LifeKeeps ==
  ASSUME None \notin Pools
  PROVE  LifeSpec => []LifeInv
<1>1. LifeInit => LifeInv
  BY DEF LifeInit, LifeInv, UsesLive
<1>2. ASSUME LifeInv, [LifeNext]_lifeVars PROVE LifeInv'
  <2> USE <1>2 DEF LifeInv, UsesLive
  <2>1. ASSUME NEW p \in Pools, Build(p) PROVE LifeInv'
    BY <2>1 DEF Build
  <2>2. ASSUME NEW p \in Pools, Built(p) PROVE LifeInv'
    BY <2>2 DEF Built
  <2>3. ASSUME NEW p \in Pools, Retire(p) PROVE LifeInv'
    BY <2>3 DEF Retire
  <2>4. ASSUME NEW k \in Clients, NEW p \in Pools, Enter(k, p) PROVE LifeInv'
    BY <2>4 DEF Enter
  <2>5. ASSUME NEW k \in Clients, Borrow(k) PROVE LifeInv'
    BY <2>5 DEF Borrow
  <2>6. ASSUME NEW k \in Clients, Leave(k) PROVE LifeInv'
    BY <2>6 DEF Leave
  <2>7. CASE UNCHANGED lifeVars
    BY <2>7 DEF lifeVars
  <2> QED BY <1>2, <2>1, <2>2, <2>3, <2>4, <2>5, <2>6, <2>7 DEF LifeNext
<1> QED BY <1>1, <1>2, PTL DEF LifeSpec

\* No client ever uses a pool that is not up yet or is deleted.
THEOREM UsesAreLive ==
  ASSUME None \notin Pools
  PROVE  LifeSpec => []UsesLive
<1>1. LifeInv => UsesLive
  BY DEF LifeInv
<1> QED BY LifeKeeps, <1>1, PTL

\* A client's pool never changes under it.
THEOREM PoolsKept ==
  ASSUME None \notin Pools
  PROVE  LifeSpec => PoolKept
<1>1. LifeInv /\ [LifeNext]_lifeVars
        => [\A k \in Clients :
              uses'[k] # None =>
                /\ uses[k] \in {None, uses'[k]}
                /\ conn[k] # None => conn'[k] = conn[k]]_lifeVars
  BY DEF LifeInv, LifeNext, Build, Built, Retire, Enter, Borrow, Leave
<1> QED BY LifeKeeps, <1>1, PTL DEF LifeSpec, PoolKept
=============================================================================
