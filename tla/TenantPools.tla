----------------------------- MODULE TenantPools -----------------------------
(***************************************************************************)
(* The connection pools of the databases (internal/db/pool.go): one for    *)
(* each, opened by the first request that needs it, shared by the others,  *)
(* closed when the server stops.                                           *)
(*                                                                         *)
(* The map is guarded by a read-write mutex.  A request that finds no pool *)
(* gives its read lock back and takes the write lock, looks again, and     *)
(* opens and pings the database while it holds that lock, so everybody     *)
(* else waits.  The mutex knows no deadline; the ping has the caller's.    *)
(***************************************************************************)
EXTENDS Naturals, FiniteSets

CONSTANTS
  Caller,   \* calls of Get
  Database, \* names of databases
  NoPool,   \* a database without an entry in the map
  Nobody,   \* the write lock is free
  Closer    \* main, after the server has stopped serving

(* A pool is named by the call that opened it. *)
Pool == Caller \X Database

ASSUME PoolAssumption ==
  /\ NoPool \notin Caller \cup Pool
  /\ Nobody \notin Caller \cup {Closer} /\ Closer \notin Caller

VisitStage == {"out", "missed", "opening", "served", "refused"}

VARIABLES
  pools,   \* m.pools: for each database the call whose pool is registered
  opened,  \* pools with connections, registered or not
  writer,  \* who has m.mu for writing
  visit,   \* progress of each call
  wanted,  \* the database it asked for
  handle   \* the pool it was given

poolVars == <<pools, opened, writer, visit, wanted, handle>>

PoolInit ==
  /\ pools = [d \in Database |-> NoPool]
  /\ opened = {}
  /\ writer = Nobody
  /\ visit = [c \in Caller |-> "out"]
  /\ wanted = [c \in Caller |-> CHOOSE d \in Database : TRUE]
  /\ handle = [c \in Caller |-> NoPool]

-----------------------------------------------------------------------------
Go(c, s) == visit' = [visit EXCEPT ![c] = s]

(* Mutant: the name of the database is taken for its pool. *)
FoundByName(c, d) ==
  /\ pools[d] # NoPool
  /\ handle' = [handle EXCEPT ![c] = d]
  /\ Go(c, "served")

Found(c, d) ==
  /\ pools[d] # NoPool
  /\ handle' = [handle EXCEPT ![c] = <<pools[d], d>>]
  /\ Go(c, "served")

(* Get, under the read lock. *)
Look(c, d) ==
  /\ visit[c] = "out" /\ writer = Nobody
  /\ wanted' = [wanted EXCEPT ![c] = d]
  /\ \/ Found(c, d)
     \/ pools[d] = NoPool /\ Go(c, "missed") /\ UNCHANGED handle
  /\ UNCHANGED <<pools, opened, writer>>

(* Mutant: who missed the pool opens one, without a second look. *)
OpenAtOnce(c) ==
  /\ visit[c] = "missed" /\ writer = Nobody
  /\ writer' = c
  /\ opened' = opened \cup {<<c, wanted[c]>>}
  /\ Go(c, "opening")
  /\ UNCHANGED <<pools, wanted, handle>>

(* Under the write lock, which is kept only if the pool is still missing.  *)
LookAgain(c) ==
  /\ visit[c] = "missed" /\ writer = Nobody
  /\ \/ Found(c, wanted[c]) /\ UNCHANGED <<writer, opened>>
     \/ /\ pools[wanted[c]] = NoPool
        /\ writer' = c
        /\ opened' = opened \cup {<<c, wanted[c]>>}
        /\ Go(c, "opening")
        /\ UNCHANGED handle
  /\ UNCHANGED <<pools, wanted>>

(* The ping succeeds. *)
Register(c) ==
  /\ visit[c] = "opening"
  /\ pools' = [pools EXCEPT ![wanted[c]] = c]
  /\ handle' = [handle EXCEPT ![c] = <<c, wanted[c]>>]
  /\ writer' = Nobody
  /\ Go(c, "served")
  /\ UNCHANGED <<opened, wanted>>

(* Mutant: a pool whose ping failed is closed but stays in the map. *)
RefuseRegistered(c) ==
  /\ visit[c] = "opening"
  /\ pools' = [pools EXCEPT ![wanted[c]] = c]
  /\ opened' = opened \ {<<c, wanted[c]>>}
  /\ writer' = Nobody
  /\ Go(c, "refused")
  /\ UNCHANGED <<wanted, handle>>

(* Mutant: the write lock is not given back when the ping fails. *)
RefuseLocked(c) ==
  /\ visit[c] = "opening"
  /\ opened' = opened \ {<<c, wanted[c]>>}
  /\ Go(c, "refused")
  /\ UNCHANGED <<pools, writer, wanted, handle>>

(* The ping fails or the caller's deadline passes: the pool is closed. *)
Refuse(c) ==
  /\ visit[c] = "opening"
  /\ opened' = opened \ {<<c, wanted[c]>>}
  /\ writer' = Nobody
  /\ Go(c, "refused")
  /\ UNCHANGED <<pools, wanted, handle>>

(* The server stops: all pools are closed under the write lock, which is   *)
(* given back when the process ends.                                       *)
Close ==
  /\ writer = Nobody
  /\ writer' = Closer
  /\ opened' = opened \ {<<pools[d], d>> : d \in Database}
  /\ pools' = [d \in Database |-> NoPool]
  /\ UNCHANGED <<visit, wanted, handle>>

Open(c) == LookAgain(c) \/ Register(c) \/ Refuse(c)

PoolNext ==
  \/ \E c \in Caller : Open(c) \/ \E d \in Database : Look(c, d)
  \/ Close

PoolSpec == PoolInit /\ [][PoolNext]_poolVars

-----------------------------------------------------------------------------
PoolTypeOK ==
  /\ pools \in [Database -> Caller \cup {NoPool}]
  /\ opened \subseteq Pool
  /\ writer \in Caller \cup {Nobody, Closer}
  /\ visit \in [Caller -> VisitStage]
  /\ wanted \in [Caller -> Database]
  /\ handle \in [Caller -> Pool \cup {NoPool}]

(* Connections are not lost and not doubled: what is open is what the map  *)
(* says, besides the one pool whose database is being pinged; however many *)
(* requests met a database without a pool at the same time.                *)
OpenedAreRegistered ==
  opened = {<<pools[d], d>> : d \in {d \in Database : pools[d] # NoPool}}
             \cup {<<c, wanted[c]>> : c \in {c \in Caller : visit[c] = "opening"}}

(* A request works in its tenant's database, and through a pool that       *)
(* nobody closed under it while the server was running.                    *)
HandlesAreGood ==
  \A c \in Caller : visit[c] = "served" =>
    /\ handle[c] # NoPool /\ handle[c][2] = wanted[c]
    /\ writer # Closer => handle[c] \in opened /\ pools[wanted[c]] = handle[c][1]

(* One open pool for each database, and nobody works with another one      *)
(* (pool.go).                                                              *)
PoolsAreSound == OpenedAreRegistered /\ HandlesAreGood
=============================================================================
