----------------------------- MODULE StockService -----------------------------
(***************************************************************************)
(* A stock calculation from its request to its answer: the gate, then the  *)
(* pool of the tenant's database, fetched while both slots are held, then  *)
(* the queries.  Other handlers fetch pools too.                           *)
(***************************************************************************)
EXTENDS StockGate, TenantPools

ASSUME ServiceAssumption == Asker \subseteq Caller /\ Database = Tenant

serviceVars == <<gateVars, poolVars>>

(* busy is who has both slots of a tenant. *)
Slots == INSTANCE StockSlots WITH
  Request <- Asker, Idle <- NoFlight,
  busy <- [t \in Tenant |->
             IF \E r \in HasTenant : TenantOf(r) = t
             THEN CHOOSE r \in HasTenant : TenantOf(r) = t ELSE NoFlight]

ServiceInit == GateInit /\ PoolInit

(* Steps of the gate that need no pool. *)
AtGate(r) ==
  /\ \/ TakeGlobal(r) \/ TakeTenant(r)
     \/ TimeoutGlobal(r) \/ TimeoutTenant(r) \/ Finish(r)
  /\ UNCHANGED poolVars

(* getPool(ctx, tenant), with both slots held. *)
AskPool(r) ==
  /\ stage[r] = "pool"
  /\ Look(r, TenantOf(r))
  /\ UNCHANGED gateVars

(* Get returns. *)
PoolAnswers(r) ==
  /\ \/ visit[r] = "served" /\ GetPool(r)
     \/ visit[r] = "refused" /\ PoolFails(r)
  /\ UNCHANGED poolVars

StockStep(r) == AtGate(r) \/ AskPool(r) \/ PoolAnswers(r)
PoolStep(c) == Open(c) /\ UNCHANGED gateVars

ServiceNext ==
  \/ \E r \in Asker :
       \/ StockStep(r)
       \/ \E c \in StockCalls : Arrive(r, c) /\ UNCHANGED poolVars
  \/ \E c \in Caller : PoolStep(c)
  \/ \E c \in Caller \ Asker, d \in Database : Look(c, d) /\ UNCHANGED gateVars
  \/ Close /\ UNCHANGED gateVars

ServiceSpec == ServiceInit /\ [][ServiceNext]_serviceVars

(* Every wait of the gate has a deadline, and so has the ping; the mutex   *)
(* of the pools has none, but whoever holds it ends.                       *)
StockFairness ==
  /\ \A r \in Asker : WF_serviceVars(StockStep(r))
  /\ \A c \in Caller : WF_serviceVars(PoolStep(c))

ServiceFairSpec == ServiceSpec /\ StockFairness

-----------------------------------------------------------------------------
(* The gate keeps its promise: StockService implements StockSlots. *)
ImplementsSlots == Slots!Spec

(* A request is answered unless the server stops, though it may wait for   *)
(* slots, for another one's flight, and for the pool of another tenant,    *)
(* whose database is slow, with its own slots taken.                       *)
StockAnswered ==
  \A r \in Asker :
    stage[r] # "idle" ~> stage[r] = "answered" \/ writer = Closer
=============================================================================
