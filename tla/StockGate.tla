------------------------------ MODULE StockGate ------------------------------
(***************************************************************************)
(* How requests for stock balances and for demand evidence reach their     *)
(* calculation (internal/handlers/stock_sync.go).  A calculation needs a   *)
(* slot of the process and then the slot of its tenant, both buffered      *)
(* channels.  Requests for the same balances that come while one is at it  *)
(* join its flight (singleflight) and get its result, good or bad.         *)
(*                                                                         *)
(* The pool of the tenant's database, which is fetched with both slots     *)
(* held, is TenantPools; StockService puts the two together.               *)
(***************************************************************************)
EXTENDS Naturals, FiniteSets

CONSTANTS
  Asker,  \* HTTP requests
  Tenant,   \* tenants
  Question, \* normalised bodies
  StockCalls, \* what clients ask for
  Limit,    \* capacity of the channel of the process
  NoFlight, \* nobody calculates this
  NoResult  \* not answered yet

(* shared: balances, which may join a flight; otherwise evidence. *)
StockCall == [tenant : Tenant, question : Question, shared : BOOLEAN]

ASSUME StockCallsAssumption == StockCalls \subseteq StockCall /\ StockCalls # {}
ASSUME LimitAssumption == Limit \in Nat \ {0}
ASSUME NoFlightAssumption == NoFlight \notin Asker
ASSUME RequestsAssumption == IsFiniteSet(Asker)

Stage == {"idle", "joined", "global", "tenant", "pool", "running", "answered"}

ASSUME NoResultAssumption == NoResult \notin Asker

VARIABLES
  stage,      \* progress of each request
  asked,      \* what it asks for
  flight,     \* for each tenant and body the request that calculates
  joins,      \* the flight a request has joined
  globalUsed, \* len(h.global)
  tenantUsed, \* len of each tenant's channel
  result      \* the calculation, good or bad, that a request was answered with

gateVars == <<stage, asked, flight, joins, globalUsed, tenantUsed, result>>

-----------------------------------------------------------------------------
GateInit ==
  /\ stage = [r \in Asker |-> "idle"]
  /\ asked = [r \in Asker |-> CHOOSE c \in StockCalls : TRUE]
  /\ flight = [k \in Tenant \X Question |-> NoFlight]
  /\ joins = [r \in Asker |-> NoFlight]
  /\ globalUsed = 0
  /\ tenantUsed = [t \in Tenant |-> 0]
  /\ result = [r \in Asker |-> NoResult]

(* Mutant: the key of a flight has no tenant. *)
KeyOfBody(c) == <<CHOOSE t \in Tenant : TRUE, c.question>>

FlightKey(c) == <<c.tenant, c.question>>

TenantOf(r) == asked[r].tenant

Enter(r, s) == stage' = [stage EXCEPT ![r] = s]

(* Do: the first request for a key flies, the others wait for its result.  *)
Arrive(r, c) ==
  /\ stage[r] = "idle"
  /\ asked' = [asked EXCEPT ![r] = c]
  /\ LET f == flight[FlightKey(c)]
     IN  IF c.shared /\ f # NoFlight
         THEN /\ Enter(r, "joined")
              /\ joins' = [joins EXCEPT ![r] = f]
              /\ UNCHANGED flight
         ELSE /\ Enter(r, "global")
              /\ flight' = IF c.shared THEN [flight EXCEPT ![FlightKey(c)] = r]
                                       ELSE flight
              /\ UNCHANGED joins
  /\ UNCHANGED <<globalUsed, tenantUsed, result>>

TakeGlobal(r) ==
  /\ stage[r] = "global" /\ globalUsed < Limit
  /\ globalUsed' = globalUsed + 1
  /\ Enter(r, "tenant")
  /\ UNCHANGED <<asked, flight, joins, tenantUsed, result>>

(* Mutant: the tenant's slot does not bind. *)
TakeTenantAnyway(r) ==
  /\ stage[r] = "tenant"
  /\ tenantUsed' = [tenantUsed EXCEPT ![TenantOf(r)] = 1]
  /\ Enter(r, "pool")
  /\ UNCHANGED <<asked, flight, joins, globalUsed, result>>

TakeTenant(r) ==
  /\ stage[r] = "tenant" /\ tenantUsed[TenantOf(r)] = 0
  /\ tenantUsed' = [tenantUsed EXCEPT ![TenantOf(r)] = 1]
  /\ Enter(r, "pool")
  /\ UNCHANGED <<asked, flight, joins, globalUsed, result>>

GetPool(r) ==
  /\ stage[r] = "pool"
  /\ Enter(r, "running")
  /\ UNCHANGED <<asked, flight, joins, globalUsed, tenantUsed, result>>

(* Mutant: the flight of a calculation that is over is kept. *)
EndAndRemember(r) ==
  LET crew == {r} \cup {q \in Asker : stage[q] = "joined" /\ joins[q] = r}
  IN  /\ stage' = [q \in Asker |-> IF q \in crew THEN "answered" ELSE stage[q]]
      /\ result' = [q \in Asker |-> IF q \in crew THEN r ELSE result[q]]
      /\ UNCHANGED <<asked, joins, flight>>

(* The calculation ends, well or not: it is forgotten, and everybody who   *)
(* joined gets its result.                                                 *)
EndFlight(r) ==
  LET crew == {r} \cup {q \in Asker : stage[q] = "joined" /\ joins[q] = r}
  IN  /\ stage' = [q \in Asker |-> IF q \in crew THEN "answered" ELSE stage[q]]
      /\ result' = [q \in Asker |-> IF q \in crew THEN r ELSE result[q]]
      /\ flight' = [k \in DOMAIN flight |-> IF flight[k] = r THEN NoFlight
                                                            ELSE flight[k]]
      /\ UNCHANGED <<asked, joins>>

(* The deadline passes (for evidence: or the client leaves) at the slots.  *)
TimeoutGlobal(r) ==
  /\ stage[r] = "global"
  /\ EndFlight(r)
  /\ UNCHANGED <<globalUsed, tenantUsed>>

(* Mutant: who gives up at the tenant's slot keeps that of the process.    *)
TimeoutKeepsSlot(r) ==
  /\ stage[r] = "tenant"
  /\ EndFlight(r)
  /\ UNCHANGED <<globalUsed, tenantUsed>>

TimeoutTenant(r) ==
  /\ stage[r] = "tenant"
  /\ EndFlight(r)
  /\ globalUsed' = globalUsed - 1
  /\ UNCHANGED tenantUsed

(* Mutant: the slot of the process is given back twice. *)
ReleaseTwice(r) ==
  /\ tenantUsed' = [tenantUsed EXCEPT ![TenantOf(r)] = 0]
  /\ globalUsed' = globalUsed - 2

(* release, deferred: whatever became of the pool and the queries. *)
Release(r) ==
  /\ tenantUsed' = [tenantUsed EXCEPT ![TenantOf(r)] = 0]
  /\ globalUsed' = globalUsed - 1

PoolFails(r) ==
  /\ stage[r] = "pool"
  /\ EndFlight(r)
  /\ Release(r)

Finish(r) ==
  /\ stage[r] = "running"
  /\ EndFlight(r)
  /\ Release(r)

GateStep(r) ==
  \/ TakeGlobal(r) \/ TakeTenant(r) \/ GetPool(r)
  \/ TimeoutGlobal(r) \/ TimeoutTenant(r) \/ PoolFails(r) \/ Finish(r)

GateNext ==
  \E r \in Asker : GateStep(r) \/ \E c \in StockCalls : Arrive(r, c)

GateSpec == GateInit /\ [][GateNext]_gateVars

-----------------------------------------------------------------------------
GateTypeOK ==
  /\ stage \in [Asker -> Stage]
  /\ asked \in [Asker -> StockCalls]
  /\ flight \in [Tenant \X Question -> Asker \cup {NoFlight}]
  /\ joins \in [Asker -> Asker \cup {NoFlight}]
  /\ globalUsed \in 0 .. Limit
  /\ tenantUsed \in [Tenant -> 0 .. 1]
  /\ result \in [Asker -> Asker \cup {NoResult}]

HasGlobal == {r \in Asker : stage[r] \in {"tenant", "pool", "running"}}
HasTenant == {r \in Asker : stage[r] \in {"pool", "running"}}

(* No slot leaks and none is given twice, whichever way a request leaves   *)
(* acquire and the calculation: what the channels hold is held by somebody *)
(* under way.                                                              *)
SlotsAccounted ==
  /\ globalUsed = Cardinality(HasGlobal)
  /\ \A t \in Tenant :
       tenantUsed[t] = Cardinality({r \in HasTenant : TenantOf(r) = t})

(* A request gets the balances it asked for, of its own tenant, although   *)
(* somebody else's calculation may have made them.                         *)
AnswersItsQuestion ==
  \A r \in Asker : result[r] # NoResult =>
    /\ asked[result[r]].tenant = asked[r].tenant
    /\ asked[result[r]].question = asked[r].question

(* A flight is not a cache: who waits for a calculation waits for one that *)
(* is under way, and a calculation that is over is joined by nobody.       *)
FlightsAreFlown ==
  /\ \A r \in Asker : stage[r] = "joined" =>
       stage[joins[r]] \in {"global", "tenant", "pool", "running"}
  /\ \A k \in Tenant \X Question : flight[k] # NoFlight =>
       stage[flight[k]] \in {"global", "tenant", "pool", "running"}

(* Joining another one's flight is as good as a calculation of one's own   *)
(* (stock_sync.go:603).                                                    *)
FlightsAreSound == AnswersItsQuestion /\ FlightsAreFlown
=============================================================================
