------------------------ MODULE StockAndImages_proofs ------------------------
(***************************************************************************)
(* Proofs about StockService and DocumentImages, for any numbers of        *)
(* requests, tenants, questions, slots and documents, and about the run    *)
(* that checks them together.                                              *)
(*                                                                         *)
(* A step of the service is a step of the gate or leaves it alone, and the *)
(* same for the pools, so each half has an invariant of its own.  That of  *)
(* the gate relates who joined a flight to who flies it (CrewInv): only    *)
(* then can the end of a flight, which answers its whole crew at once, be  *)
(* shown to give everybody the balances he asked for.  That of the pools   *)
(* says that the mutex has one holder, who is the one that opens a pool    *)
(* (HolderInv), so what is open and not registered is his.                 *)
(*                                                                         *)
(* Of the images: whoever replaces rows has the lock of that database, so  *)
(* what it deletes is all there is (DoomedInv).  A request whose main      *)
(* transaction lives has the main lock, but one that lost it may still     *)
(* commit in the image database: it will never be told "ok" (AuthorInv).   *)
(***************************************************************************)
EXTENDS MCStockAndImages, FiniteSetTheorems, TLAPS

Flying == {"global", "tenant", "pool", "running"}

SameKey(q, r) == FlightKey(asked[q]) = FlightKey(asked[r])

CrewInv ==
  \A q \in Asker : stage[q] = "joined" =>
    joins[q] \in Asker /\ stage[joins[q]] \in Flying /\ SameKey(q, joins[q])

FlightInv ==
  \A k \in Tenant \X Question : flight[k] # NoFlight =>
    stage[flight[k]] \in Flying /\ FlightKey(asked[flight[k]]) = k

ResultInv ==
  \A q \in Asker : result[q] # NoResult =>
    stage[q] = "answered" /\ stage[result[q]] = "answered" /\ SameKey(q, result[q])

GateInv == GateTypeOK /\ SlotsAccounted /\ CrewInv /\ FlightInv /\ ResultInv

Holders(t) == {r \in HasTenant : TenantOf(r) = t}

-----------------------------------------------------------------------------
LEMMA AskedIsTyped ==
  ASSUME GateTypeOK, NEW r \in Asker
  PROVE  /\ asked[r] \in StockCalls /\ TenantOf(r) \in Tenant
         /\ FlightKey(asked[r]) \in Tenant \X Question
BY StockCallsAssumption DEF GateTypeOK, StockCall, TenantOf, FlightKey

LEMMA CallIsTyped ==
  ASSUME NEW c \in StockCalls
  PROVE  FlightKey(c) \in Tenant \X Question
BY StockCallsAssumption DEF StockCall, FlightKey

LEMMA SlotSetsFinite ==
  /\ IsFiniteSet(HasGlobal) /\ IsFiniteSet(HasTenant)
  /\ \A t : IsFiniteSet(Holders(t))
BY RequestsAssumption, FS_Subset DEF HasGlobal, HasTenant, Holders

LEMMA GateInitInv == GateInit => GateInv
<1> SUFFICES ASSUME GateInit PROVE GateInv
  OBVIOUS
<1>1. (CHOOSE c \in StockCalls : TRUE) \in StockCalls
  BY StockCallsAssumption
<1>2. GateTypeOK
  BY <1>1, LimitAssumption DEF GateInit, GateTypeOK, Stage
<1>3. HasGlobal = {} /\ HasTenant = {} /\ \A t : {r \in HasTenant : TenantOf(r) = t} = {}
  BY DEF GateInit, HasGlobal, HasTenant
<1>4. SlotsAccounted
  BY <1>3, FS_EmptySet DEF GateInit, SlotsAccounted
<1> QED
  BY <1>2, <1>4 DEF GateInit, GateInv, CrewInv, FlightInv, ResultInv

(* Nothing but the stage of r changes, which flies before and after: what  *)
(* is said of flights stays true.                                          *)
LEMMA FlightsKept ==
  ASSUME GateInv, NEW r \in Asker, stage[r] \in Flying,
         NEW s \in Flying, Enter(r, s), UNCHANGED <<asked, flight, joins, result>>
  PROVE  /\ CrewInv' /\ FlightInv' /\ ResultInv'
         /\ stage' \in [Asker -> Stage]
         /\ \A q \in Asker : stage'[q] = IF q = r THEN s ELSE stage[q]
<1>1. GateTypeOK /\ CrewInv /\ FlightInv /\ ResultInv
  BY DEF GateInv
<1>2. \A q \in Asker : stage'[q] = IF q = r THEN s ELSE stage[q]
  BY <1>1 DEF Enter, GateTypeOK
<1>3. \A q, p : SameKey(q, p)' = SameKey(q, p)
  BY DEF SameKey
<1>4. stage' \in [Asker -> Stage]
  BY <1>1 DEF Enter, GateTypeOK, Stage, Flying
<1>5. CrewInv'
  BY <1>1, <1>2, <1>3 DEF CrewInv, Flying
<1>6. FlightInv'
  <2> SUFFICES ASSUME NEW k \in Tenant \X Question, flight[k] # NoFlight
               PROVE  stage'[flight[k]] \in Flying /\ FlightKey(asked[flight[k]]) = k
    BY DEF FlightInv
  <2>1. flight[k] \in Asker
    BY <1>1 DEF GateTypeOK
  <2> QED
    BY <1>1, <1>2, <2>1 DEF FlightInv
<1>7. ResultInv'
  <2> SUFFICES ASSUME NEW q \in Asker, result[q] # NoResult
               PROVE  stage'[q] = "answered" /\ stage'[result[q]] = "answered" /\ SameKey(q, result[q])
    BY <1>3 DEF ResultInv
  <2>1. result[q] \in Asker
    BY <1>1 DEF GateTypeOK
  <2> QED
    BY <1>1, <1>2, <2>1 DEF ResultInv, Flying
<1> QED
  BY <1>2, <1>4, <1>5, <1>6, <1>7

LEMMA ArriveInv ==
  ASSUME GateInv, NEW r \in Asker, NEW c \in StockCalls, Arrive(r, c)
  PROVE  GateInv'
<1>1. GateTypeOK /\ SlotsAccounted /\ CrewInv /\ FlightInv /\ ResultInv
  BY DEF GateInv
<1>2. /\ stage[r] = "idle" /\ asked' = [asked EXCEPT ![r] = c]
      /\ UNCHANGED <<globalUsed, tenantUsed, result>>
  BY DEF Arrive
<1>3. \A q \in Asker : asked'[q] = IF q = r THEN c ELSE asked[q]
  BY <1>1, <1>2 DEF GateTypeOK
<1>4. stage'[r] \in {"joined", "global"}
      /\ \A q \in Asker : q # r => stage'[q] = stage[q] /\ joins'[q] = joins[q]
  BY <1>1 DEF Arrive, Enter, GateTypeOK
<1>5. FlightKey(c) \in Tenant \X Question
  BY CallIsTyped
<1>6. /\ stage'[r] = "joined" =>
           /\ joins'[r] = flight[FlightKey(c)] /\ flight[FlightKey(c)] # NoFlight
           /\ flight' = flight
      /\ stage'[r] = "global" =>
           \A k \in Tenant \X Question :
             flight'[k] = flight[k] \/ (k = FlightKey(c) /\ flight'[k] = r)
  BY <1>1, <1>5 DEF Arrive, Enter, GateTypeOK
<1>7. GateTypeOK'
  BY <1>1, <1>2, <1>5 DEF Arrive, Enter, GateTypeOK, Stage
<1>8. SlotsAccounted'
  <2>1. HasGlobal' = HasGlobal /\ HasTenant' = HasTenant
    BY <1>2, <1>4 DEF HasGlobal, HasTenant
  <2>2. \A q \in HasTenant : TenantOf(q)' = TenantOf(q)
    BY <1>2, <1>3 DEF HasTenant, TenantOf
  <2>3. \A t : {q \in HasTenant' : TenantOf(q)' = t} = {q \in HasTenant : TenantOf(q) = t}
    BY <2>1, <2>2
  <2> QED
    BY <1>1, <1>2, <2>1, <2>3 DEF SlotsAccounted
<1>9. CrewInv'
  <2> SUFFICES ASSUME NEW q \in Asker, stage'[q] = "joined"
               PROVE  /\ joins'[q] \in Asker /\ stage'[joins'[q]] \in Flying
                      /\ FlightKey(asked'[q]) = FlightKey(asked'[joins'[q]])
    BY DEF CrewInv, SameKey
  <2>1. CASE q = r
    <3>1. joins'[r] \in Asker /\ joins'[r] = flight[FlightKey(c)]
      BY <1>1, <1>5, <1>6, <2>1 DEF GateTypeOK
    <3>2. stage[joins'[r]] \in Flying /\ FlightKey(asked[joins'[r]]) = FlightKey(c)
      BY <1>1, <1>5, <1>6, <2>1, <3>1 DEF FlightInv
    <3>3. joins'[r] # r
      BY <1>2, <3>2 DEF Flying
    <3> QED
      BY <1>3, <1>4, <2>1, <3>1, <3>2, <3>3
  <2>2. CASE q # r
    <3>1. joins'[q] = joins[q] /\ joins[q] \in Asker /\ stage[joins[q]] \in Flying /\ SameKey(q, joins[q])
      BY <1>1, <1>4, <2>2 DEF CrewInv
    <3>2. joins[q] # r
      BY <1>2, <3>1 DEF Flying
    <3> QED
      BY <1>3, <1>4, <2>2, <3>1, <3>2 DEF SameKey
  <2> QED
    BY <2>1, <2>2
<1>10. FlightInv'
  <2> SUFFICES ASSUME NEW k \in Tenant \X Question, flight'[k] # NoFlight
               PROVE  stage'[flight'[k]] \in Flying /\ FlightKey(asked'[flight'[k]]) = k
    BY DEF FlightInv
  <2>1. CASE flight'[k] = flight[k]
    <3>1. flight[k] \in Asker /\ stage[flight[k]] \in Flying /\ FlightKey(asked[flight[k]]) = k
      BY <1>1, <2>1 DEF FlightInv, GateTypeOK
    <3>2. flight[k] # r
      BY <1>2, <3>1 DEF Flying
    <3> QED
      BY <1>3, <1>4, <2>1, <3>1, <3>2
  <2>2. CASE flight'[k] # flight[k]
    <3>1. stage'[r] = "global" /\ k = FlightKey(c) /\ flight'[k] = r
      BY <1>4, <1>6, <2>2
    <3> QED
      BY <1>3, <3>1 DEF Flying
  <2> QED
    BY <2>1, <2>2
<1>11. ResultInv'
  <2> SUFFICES ASSUME NEW q \in Asker, result[q] # NoResult
               PROVE  /\ stage'[q] = "answered" /\ stage'[result[q]] = "answered"
                      /\ FlightKey(asked'[q]) = FlightKey(asked'[result[q]])
    BY <1>2 DEF ResultInv, SameKey
  <2>1. result[q] \in Asker /\ q # r /\ result[q] # r
    BY <1>1, <1>2 DEF GateTypeOK, ResultInv
  <2> QED
    BY <1>1, <1>3, <1>4, <2>1 DEF ResultInv, SameKey
<1> QED
  BY <1>7, <1>8, <1>9, <1>10, <1>11 DEF GateInv

(* The end of a flight: its crew, and nobody else, is answered with it.    *)
LEMMA EndFlightInv ==
  ASSUME GateInv, NEW r \in Asker, stage[r] \in Flying, EndFlight(r)
  PROVE  /\ CrewInv' /\ FlightInv' /\ ResultInv'
         /\ stage' \in [Asker -> Stage] /\ UNCHANGED <<asked, joins>>
         /\ flight' \in [Tenant \X Question -> Asker \cup {NoFlight}]
         /\ result' \in [Asker -> Asker \cup {NoResult}]
         /\ HasGlobal' = HasGlobal \ {r} /\ HasTenant' = HasTenant \ {r}
         /\ \A t : Holders(t)' = Holders(t) \ {r}
<1> DEFINE crew == {r} \cup {q \in Asker : stage[q] = "joined" /\ joins[q] = r}
<1>1. GateTypeOK /\ SlotsAccounted /\ CrewInv /\ FlightInv /\ ResultInv
  BY DEF GateInv
<1>2. /\ stage' = [q \in Asker |-> IF q \in crew THEN "answered" ELSE stage[q]]
      /\ result' = [q \in Asker |-> IF q \in crew THEN r ELSE result[q]]
      /\ flight' = [k \in DOMAIN flight |-> IF flight[k] = r THEN NoFlight ELSE flight[k]]
      /\ UNCHANGED <<asked, joins>>
  BY DEF EndFlight
<1>3. \A q, p : SameKey(q, p)' = SameKey(q, p)
  BY <1>2 DEF SameKey
<1>4. stage' \in [Asker -> Stage]
  BY <1>1, <1>2 DEF GateTypeOK, Stage
<1>5. flight' \in [Tenant \X Question -> Asker \cup {NoFlight}]
  BY <1>1, <1>2 DEF GateTypeOK
<1>6. result' \in [Asker -> Asker \cup {NoResult}]
  BY <1>1, <1>2 DEF GateTypeOK
<1>7. \A q \in Asker : stage[q] \in Flying /\ q # r => q \notin crew
  BY DEF Flying
<1>8. CrewInv'
  <2> SUFFICES ASSUME NEW q \in Asker, stage'[q] = "joined"
               PROVE  joins[q] \in Asker /\ stage'[joins[q]] \in Flying /\ SameKey(q, joins[q])
    BY <1>2, <1>3 DEF CrewInv
  <2>1. q \notin crew /\ stage[q] = "joined"
    BY <1>2
  <2>2. joins[q] # r /\ joins[q] \in Asker /\ stage[joins[q]] \in Flying /\ SameKey(q, joins[q])
    BY <1>1, <2>1 DEF CrewInv
  <2> QED
    BY <1>2, <1>7, <2>2
<1>9. FlightInv'
  <2> SUFFICES ASSUME NEW k \in Tenant \X Question, flight'[k] # NoFlight
               PROVE  stage'[flight'[k]] \in Flying /\ FlightKey(asked[flight'[k]]) = k
    BY <1>2 DEF FlightInv
  <2>1. flight'[k] = flight[k] /\ flight[k] # r /\ flight[k] \in Asker
    BY <1>1, <1>2 DEF GateTypeOK
  <2>2. stage[flight[k]] \in Flying /\ FlightKey(asked[flight[k]]) = k
    BY <1>1, <2>1 DEF FlightInv
  <2> QED
    BY <1>2, <1>7, <2>1, <2>2
<1>10. ResultInv'
  <2> SUFFICES ASSUME NEW q \in Asker, result'[q] # NoResult
               PROVE  stage'[q] = "answered" /\ stage'[result'[q]] = "answered" /\ SameKey(q, result'[q])
    BY <1>3 DEF ResultInv
  <2>1. CASE q \in crew
    <3>1. stage'[q] = "answered" /\ result'[q] = r /\ stage'[r] = "answered"
      BY <1>2, <2>1
    <3>2. SameKey(q, r)
      BY <1>1, <2>1 DEF CrewInv, SameKey
    <3> QED
      BY <3>1, <3>2
  <2>2. CASE q \notin crew
    <3>1. result'[q] = result[q] /\ stage'[q] = stage[q] /\ result[q] \in Asker
      BY <1>1, <1>2, <2>2 DEF GateTypeOK
    <3> QED
      BY <1>1, <1>2, <3>1 DEF ResultInv
  <2> QED
    BY <2>1, <2>2
<1>11. HasGlobal' = HasGlobal \ {r} /\ HasTenant' = HasTenant \ {r}
  BY <1>2 DEF HasGlobal, HasTenant, Flying
<1>12. \A t : Holders(t)' = Holders(t) \ {r}
  BY <1>2, <1>11 DEF Holders, TenantOf
<1> QED
  BY <1>2, <1>4, <1>5, <1>6, <1>8, <1>9, <1>10, <1>11, <1>12

(* What the slots say: somebody with a slot is counted, and a tenant's     *)
(* slot has one holder.                                                    *)
LEMMA SlotFacts ==
  ASSUME GateTypeOK, SlotsAccounted
  PROVE  /\ Cardinality(HasGlobal) \in Nat
         /\ \A r \in HasGlobal : globalUsed >= 1
         /\ \A t \in Tenant : tenantUsed[t] = Cardinality(Holders(t))
         /\ \A t \in Tenant : \A r \in Holders(t) : Holders(t) = {r} /\ tenantUsed[t] = 1
         /\ \A t \in Tenant : tenantUsed[t] = 0 => Holders(t) = {}
<1>1. Cardinality(HasGlobal) \in Nat /\ \A r \in HasGlobal : globalUsed >= 1
  BY SlotSetsFinite, FS_CardinalityType, FS_EmptySet DEF SlotsAccounted
<1>2. \A t \in Tenant : tenantUsed[t] = Cardinality(Holders(t))
  BY DEF SlotsAccounted, Holders
<1>3. \A t \in Tenant : tenantUsed[t] = 0 => Holders(t) = {}
  BY <1>2, SlotSetsFinite, FS_EmptySet
<1>4. ASSUME NEW t \in Tenant, NEW r \in Holders(t)
      PROVE  Holders(t) = {r} /\ tenantUsed[t] = 1
  <2>1. IsFiniteSet(Holders(t)) /\ Holders(t) # {} /\ tenantUsed[t] \in {0, 1}
    BY <1>4, SlotSetsFinite DEF GateTypeOK
  <2>2. Cardinality(Holders(t)) = 1
    BY <1>2, <1>3, <2>1
  <2>3. PICK x : Holders(t) = {x}
    BY <2>1, <2>2, FS_Singleton
  <2> QED
    BY <1>2, <1>4, <2>2, <2>3
<1> QED
  BY <1>1, <1>2, <1>3, <1>4

LEMMA TakeGlobalInv ==
  ASSUME GateInv, NEW r \in Asker, TakeGlobal(r)
  PROVE  GateInv'
<1>1. GateTypeOK /\ SlotsAccounted /\ stage[r] = "global" /\ globalUsed < Limit
  BY DEF GateInv, TakeGlobal
<1>2. /\ Enter(r, "tenant") /\ globalUsed' = globalUsed + 1
      /\ UNCHANGED <<asked, flight, joins, tenantUsed, result>>
  BY DEF TakeGlobal
<1>3. /\ CrewInv' /\ FlightInv' /\ ResultInv' /\ stage' \in [Asker -> Stage]
      /\ \A q \in Asker : stage'[q] = IF q = r THEN "tenant" ELSE stage[q]
  BY <1>1, <1>2, FlightsKept DEF Flying
<1>4. HasGlobal' = HasGlobal \cup {r} /\ r \notin HasGlobal /\ HasTenant' = HasTenant
  BY <1>1, <1>3 DEF HasGlobal, HasTenant
<1>5. Cardinality(HasGlobal') = Cardinality(HasGlobal) + 1
  BY <1>4, SlotSetsFinite, FS_AddElement
<1>6. SlotsAccounted'
  BY <1>1, <1>2, <1>4, <1>5 DEF SlotsAccounted, TenantOf
<1>7. GateTypeOK'
  BY <1>1, <1>2, <1>3, LimitAssumption DEF GateTypeOK
<1> QED
  BY <1>3, <1>6, <1>7 DEF GateInv

LEMMA TakeTenantInv ==
  ASSUME GateInv, NEW r \in Asker, TakeTenant(r)
  PROVE  GateInv'
<1>1. GateTypeOK /\ SlotsAccounted /\ stage[r] = "tenant" /\ tenantUsed[TenantOf(r)] = 0
  BY DEF GateInv, TakeTenant
<1>2. /\ Enter(r, "pool") /\ tenantUsed' = [tenantUsed EXCEPT ![TenantOf(r)] = 1]
      /\ UNCHANGED <<asked, flight, joins, globalUsed, result>>
  BY DEF TakeTenant
<1>3. /\ CrewInv' /\ FlightInv' /\ ResultInv' /\ stage' \in [Asker -> Stage]
      /\ \A q \in Asker : stage'[q] = IF q = r THEN "pool" ELSE stage[q]
  BY <1>1, <1>2, FlightsKept DEF Flying
<1>4. HasGlobal' = HasGlobal /\ HasTenant' = HasTenant \cup {r}
  BY <1>1, <1>3 DEF HasGlobal, HasTenant
<1>5. TenantOf(r) \in Tenant /\ \A q : TenantOf(q)' = TenantOf(q)
  BY <1>1, <1>2, AskedIsTyped DEF TenantOf
<1>6. Holders(TenantOf(r))' = {r}
  BY <1>1, <1>4, <1>5, SlotFacts DEF Holders
<1>7. \A t \in Tenant : t # TenantOf(r) => Holders(t)' = Holders(t)
  BY <1>4, <1>5 DEF Holders
<1>8. ASSUME NEW t \in Tenant PROVE tenantUsed'[t] = Cardinality(Holders(t)')
  <2>1. CASE t = TenantOf(r)
    <3>1. tenantUsed'[t] = 1 /\ Holders(t)' = {r}
      BY <1>1, <1>2, <1>5, <1>6, <2>1 DEF GateTypeOK
    <3>2. Cardinality({r}) = 1
      BY FS_Singleton
    <3> QED
      BY <3>1, <3>2
  <2>2. CASE t # TenantOf(r)
    BY <1>1, <1>2, <1>7, <2>2, SlotFacts DEF GateTypeOK
  <2> QED
    BY <2>1, <2>2
<1>9. SlotsAccounted'
  BY <1>1, <1>2, <1>4, <1>8 DEF SlotsAccounted, Holders
<1>10. GateTypeOK'
  BY <1>1, <1>2, <1>3, <1>5 DEF GateTypeOK
<1> QED
  BY <1>3, <1>9, <1>10 DEF GateInv

LEMMA GetPoolInv ==
  ASSUME GateInv, NEW r \in Asker, GetPool(r)
  PROVE  GateInv'
<1>1. GateTypeOK /\ SlotsAccounted /\ stage[r] = "pool"
  BY DEF GateInv, GetPool
<1>2. Enter(r, "running") /\ UNCHANGED <<asked, flight, joins, globalUsed, tenantUsed, result>>
  BY DEF GetPool
<1>3. /\ CrewInv' /\ FlightInv' /\ ResultInv' /\ stage' \in [Asker -> Stage]
      /\ \A q \in Asker : stage'[q] = IF q = r THEN "running" ELSE stage[q]
  BY <1>1, <1>2, FlightsKept DEF Flying
<1>4. HasGlobal' = HasGlobal /\ HasTenant' = HasTenant
  BY <1>1, <1>3 DEF HasGlobal, HasTenant
<1>5. SlotsAccounted'
  BY <1>1, <1>2, <1>4 DEF SlotsAccounted, TenantOf
<1>6. GateTypeOK'
  BY <1>1, <1>2, <1>3 DEF GateTypeOK
<1> QED
  BY <1>3, <1>5, <1>6 DEF GateInv

(* A calculation that ends while it waits for a slot. *)
LEMMA TimeoutInv ==
  ASSUME GateInv, NEW r \in Asker, TimeoutGlobal(r) \/ TimeoutTenant(r)
  PROVE  GateInv'
<1>1. GateTypeOK /\ SlotsAccounted /\ stage[r] \in {"global", "tenant"} /\ EndFlight(r)
  BY DEF GateInv, TimeoutGlobal, TimeoutTenant
<1>2. /\ CrewInv' /\ FlightInv' /\ ResultInv'
      /\ stage' \in [Asker -> Stage] /\ UNCHANGED <<asked, joins>>
      /\ flight' \in [Tenant \X Question -> Asker \cup {NoFlight}]
      /\ result' \in [Asker -> Asker \cup {NoResult}]
      /\ HasGlobal' = HasGlobal \ {r} /\ HasTenant' = HasTenant \ {r}
      /\ \A t : Holders(t)' = Holders(t) \ {r}
  BY <1>1, EndFlightInv DEF Flying
<1>3. tenantUsed' = tenantUsed /\ \A t : Holders(t)' = Holders(t)
  BY <1>1, <1>2 DEF TimeoutGlobal, TimeoutTenant, Holders, HasTenant
<1>4. globalUsed' = Cardinality(HasGlobal') /\ globalUsed' \in 0 .. Limit
  <2>1. CASE TimeoutGlobal(r)
    <3>1. r \notin HasGlobal /\ globalUsed' = globalUsed
      BY <2>1 DEF TimeoutGlobal, HasGlobal
    <3> QED
      BY <1>1, <1>2, <3>1, SlotSetsFinite, FS_RemoveElement DEF SlotsAccounted, GateTypeOK
  <2>2. CASE TimeoutTenant(r)
    <3>1. r \in HasGlobal /\ globalUsed' = globalUsed - 1
      BY <2>2 DEF TimeoutTenant, HasGlobal
    <3>2. Cardinality(HasGlobal') = Cardinality(HasGlobal) - 1
      BY <1>2, <3>1, SlotSetsFinite, FS_RemoveElement
    <3>3. globalUsed >= 1
      BY <1>1, <3>1, SlotFacts
    <3> QED
      BY <1>1, <3>1, <3>2, <3>3, LimitAssumption DEF SlotsAccounted, GateTypeOK
  <2> QED
    BY <2>1, <2>2
<1>5. SlotsAccounted'
  BY <1>1, <1>3, <1>4 DEF SlotsAccounted, Holders
<1>6. GateTypeOK'
  BY <1>1, <1>2, <1>3, <1>4 DEF GateTypeOK
<1> QED
  BY <1>2, <1>5, <1>6 DEF GateInv

(* A calculation that ends with both slots. *)
LEMMA ReleaseInv ==
  ASSUME GateInv, NEW r \in Asker, PoolFails(r) \/ Finish(r)
  PROVE  GateInv'
<1>1. /\ GateTypeOK /\ SlotsAccounted /\ stage[r] \in {"pool", "running"}
      /\ EndFlight(r) /\ Release(r)
  BY DEF GateInv, PoolFails, Finish
<1>2. /\ CrewInv' /\ FlightInv' /\ ResultInv'
      /\ stage' \in [Asker -> Stage] /\ UNCHANGED <<asked, joins>>
      /\ flight' \in [Tenant \X Question -> Asker \cup {NoFlight}]
      /\ result' \in [Asker -> Asker \cup {NoResult}]
      /\ HasGlobal' = HasGlobal \ {r}
      /\ \A t : Holders(t)' = Holders(t) \ {r}
  BY <1>1, EndFlightInv DEF Flying
<1>3. r \in HasGlobal /\ r \in Holders(TenantOf(r)) /\ TenantOf(r) \in Tenant
  BY <1>1, AskedIsTyped DEF HasGlobal, HasTenant, Holders
<1>4. Cardinality(HasGlobal') = Cardinality(HasGlobal) - 1 /\ globalUsed >= 1
  BY <1>1, <1>2, <1>3, SlotSetsFinite, SlotFacts, FS_RemoveElement
<1>5. globalUsed' = globalUsed - 1 /\ tenantUsed' = [tenantUsed EXCEPT ![TenantOf(r)] = 0]
  BY <1>1 DEF Release
<1>6. ASSUME NEW t \in Tenant PROVE tenantUsed'[t] = Cardinality(Holders(t)')
  <2>1. CASE t = TenantOf(r)
    <3>1. Holders(t)' = {}
      BY <1>1, <1>2, <1>3, <2>1, SlotFacts
    <3> QED
      BY <1>1, <1>5, <2>1, <3>1, FS_EmptySet DEF GateTypeOK
  <2>2. CASE t # TenantOf(r)
    <3>1. Holders(t)' = Holders(t)
      BY <1>2, <2>2 DEF Holders
    <3> QED
      BY <1>1, <1>5, <2>2, <3>1, SlotFacts DEF GateTypeOK
  <2> QED
    BY <2>1, <2>2
<1>7. SlotsAccounted'
  BY <1>1, <1>4, <1>5, <1>6 DEF SlotsAccounted, Holders
<1>8. GateTypeOK'
  BY <1>1, <1>2, <1>3, <1>4, <1>5, LimitAssumption DEF GateTypeOK
<1> QED
  BY <1>2, <1>7, <1>8 DEF GateInv

LEMMA GateStepInv ==
  ASSUME GateInv, GateNext
  PROVE  GateInv'
BY ArriveInv, TakeGlobalInv, TakeTenantInv, GetPoolInv, TimeoutInv, ReleaseInv
   DEF GateNext, GateStep

LEMMA GateStutterInv ==
  ASSUME GateInv, UNCHANGED gateVars
  PROVE  GateInv'
BY DEF GateInv, gateVars, GateTypeOK, SlotsAccounted, CrewInv, FlightInv, ResultInv,
       HasGlobal, HasTenant, TenantOf, SameKey

-----------------------------------------------------------------------------
(* The mutex of the pools has one holder at a time: who opens a pool, which *)
(* nobody else has registered meanwhile, or the end of the server.         *)
HolderInv ==
  /\ \A c \in Caller : visit[c] = "opening" <=> writer = c
  /\ \A c \in Caller : visit[c] = "opening" => pools[wanted[c]] = NoPool

PoolInv == PoolTypeOK /\ HolderInv /\ OpenedAreRegistered /\ HandlesAreGood

Registered == {<<pools[d], d>> : d \in {d \in Database : pools[d] # NoPool}}
Pinged == {<<c, wanted[c]>> : c \in {c \in Caller : visit[c] = "opening"}}

(* Nobody is without a database to want; a tenant is one.                  *)
LEMMA SomeDatabase == (CHOOSE d \in Database : TRUE) \in Database
<1>1. PICK c \in StockCalls : TRUE
  BY StockCallsAssumption
<1>2. c.tenant \in Tenant
  BY StockCallsAssumption DEF StockCall
<1> QED
  BY <1>2, ServiceAssumption

LEMMA PoolInitInv == PoolInit => PoolInv
<1> SUFFICES ASSUME PoolInit PROVE PoolInv
  OBVIOUS
<1>1. PoolTypeOK
  BY SomeDatabase DEF PoolInit, PoolTypeOK, VisitStage
<1>2. HolderInv
  BY PoolAssumption DEF PoolInit, HolderInv
<1>3. OpenedAreRegistered
  BY DEF PoolInit, OpenedAreRegistered
<1>4. HandlesAreGood
  BY DEF PoolInit, HandlesAreGood
<1> QED
  BY <1>1, <1>2, <1>3, <1>4 DEF PoolInv

(* A pool in the map is open, and is its own database's.                   *)
LEMMA RegisteredPool ==
  ASSUME PoolInv, NEW d \in Database, pools[d] # NoPool
  PROVE  <<pools[d], d>> \in opened /\ <<pools[d], d>> \in Pool /\ <<pools[d], d>> # NoPool
<1>1. pools[d] \in Caller
  BY DEF PoolInv, PoolTypeOK
<1> QED
  BY <1>1, PoolAssumption DEF PoolInv, OpenedAreRegistered, Pool

(* c is given the pool that the map has for what it wants; the map and the *)
(* pools stay.                                                             *)
LEMMA FoundInv ==
  ASSUME PoolInv, NEW c \in Caller, NEW d \in Database, writer = Nobody,
         Found(c, d), wanted' = [wanted EXCEPT ![c] = d],
         UNCHANGED <<pools, opened, writer>>
  PROVE  PoolInv'
<1>1. PoolTypeOK /\ HolderInv /\ OpenedAreRegistered /\ HandlesAreGood
  BY DEF PoolInv
<1>2. <<pools[d], d>> \in opened /\ <<pools[d], d>> \in Pool /\ <<pools[d], d>> # NoPool
  BY RegisteredPool DEF Found
<1>3. /\ visit' = [visit EXCEPT ![c] = "served"]
      /\ handle' = [handle EXCEPT ![c] = <<pools[d], d>>]
  BY DEF Found, Go
<1>4. \A q \in Caller :
        /\ visit'[q] = IF q = c THEN "served" ELSE visit[q]
        /\ handle'[q] = IF q = c THEN <<pools[d], d>> ELSE handle[q]
        /\ wanted'[q] = IF q = c THEN d ELSE wanted[q]
  BY <1>1, <1>3 DEF PoolTypeOK
<1>5. PoolTypeOK'
  BY <1>1, <1>2, <1>3 DEF PoolTypeOK, VisitStage
<1>6. \A q \in Caller : visit[q] # "opening"
  BY <1>1, PoolAssumption DEF HolderInv
<1>7. HolderInv'
  BY <1>1, <1>4, <1>6, PoolAssumption DEF HolderInv
<1>8. OpenedAreRegistered'
  BY <1>1, <1>4, <1>6 DEF OpenedAreRegistered
<1>9. HandlesAreGood'
  BY <1>1, <1>2, <1>4 DEF HandlesAreGood
<1> QED
  BY <1>5, <1>7, <1>8, <1>9 DEF PoolInv

LEMMA LookInv ==
  ASSUME PoolInv, NEW c \in Caller, NEW d \in Database, Look(c, d)
  PROVE  PoolInv'
<1>1. /\ PoolTypeOK /\ HolderInv /\ OpenedAreRegistered /\ HandlesAreGood
      /\ writer = Nobody /\ wanted' = [wanted EXCEPT ![c] = d]
      /\ UNCHANGED <<pools, opened, writer>>
  BY DEF PoolInv, Look
<1>2. CASE Found(c, d)
  BY <1>1, <1>2, FoundInv
<1>3. CASE Go(c, "missed") /\ UNCHANGED handle
  <2>1. \A q \in Caller :
          /\ visit'[q] = IF q = c THEN "missed" ELSE visit[q]
          /\ wanted'[q] = IF q = c THEN d ELSE wanted[q]
    BY <1>1, <1>3 DEF Go, PoolTypeOK
  <2>2. PoolTypeOK'
    BY <1>1, <1>3 DEF Go, PoolTypeOK, VisitStage
  <2>3. \A q \in Caller : visit[q] # "opening"
    BY <1>1, PoolAssumption DEF HolderInv
  <2>4. HolderInv'
    BY <1>1, <2>1, <2>3, PoolAssumption DEF HolderInv
  <2>5. OpenedAreRegistered'
    BY <1>1, <2>1, <2>3 DEF OpenedAreRegistered
  <2>6. HandlesAreGood'
    BY <1>1, <1>3, <2>1 DEF HandlesAreGood
  <2> QED
    BY <2>2, <2>4, <2>5, <2>6 DEF PoolInv
<1> QED
  BY <1>2, <1>3 DEF Look

LEMMA LookAgainInv ==
  ASSUME PoolInv, NEW c \in Caller, LookAgain(c)
  PROVE  PoolInv'
<1>1. /\ PoolTypeOK /\ HolderInv /\ OpenedAreRegistered /\ HandlesAreGood
      /\ writer = Nobody /\ UNCHANGED <<pools, wanted>> /\ visit[c] = "missed"
  BY DEF PoolInv, LookAgain
<1>2. wanted[c] \in Database
  BY <1>1 DEF PoolTypeOK
<1>3. CASE Found(c, wanted[c]) /\ UNCHANGED <<writer, opened>>
  <2>1. wanted' = [wanted EXCEPT ![c] = wanted[c]]
    BY <1>1 DEF PoolTypeOK
  <2> QED
    BY <1>1, <1>2, <1>3, <2>1, FoundInv
<1>4. CASE /\ pools[wanted[c]] = NoPool /\ writer' = c
           /\ opened' = opened \cup {<<c, wanted[c]>>}
           /\ Go(c, "opening") /\ UNCHANGED handle
  <2>1. \A q \in Caller : visit'[q] = IF q = c THEN "opening" ELSE visit[q]
    BY <1>1, <1>4 DEF Go, PoolTypeOK
  <2>2. \A q \in Caller : visit[q] # "opening"
    BY <1>1, PoolAssumption DEF HolderInv
  <2>3. PoolTypeOK'
    BY <1>1, <1>2, <1>4 DEF Go, PoolTypeOK, VisitStage, Pool
  <2>4. HolderInv'
    BY <1>1, <1>4, <2>1, <2>2 DEF HolderInv
  <2>5. {<<q, wanted[q]>> : q \in {q \in Caller : visit'[q] = "opening"}} = {<<c, wanted[c]>>}
    BY <2>1, <2>2
  <2>6. OpenedAreRegistered'
    BY <1>1, <1>4, <2>2, <2>5 DEF OpenedAreRegistered
  <2>7. HandlesAreGood'
    BY <1>1, <1>4, <2>1, PoolAssumption DEF HandlesAreGood
  <2> QED
    BY <2>3, <2>4, <2>6, <2>7 DEF PoolInv
<1> QED
  BY <1>3, <1>4 DEF LookAgain

LEMMA RegisterInv ==
  ASSUME PoolInv, NEW c \in Caller, Register(c)
  PROVE  PoolInv'
<1>1. /\ PoolTypeOK /\ HolderInv /\ OpenedAreRegistered /\ HandlesAreGood
      /\ visit[c] = "opening" /\ writer = c /\ wanted[c] \in Database
      /\ pools[wanted[c]] = NoPool
  BY DEF PoolInv, Register, HolderInv, PoolTypeOK
<1>2. /\ pools' = [pools EXCEPT ![wanted[c]] = c]
      /\ handle' = [handle EXCEPT ![c] = <<c, wanted[c]>>]
      /\ writer' = Nobody /\ visit' = [visit EXCEPT ![c] = "served"]
      /\ UNCHANGED <<opened, wanted>>
  BY DEF Register, Go
<1>3. /\ \A d \in Database : pools'[d] = IF d = wanted[c] THEN c ELSE pools[d]
      /\ \A q \in Caller : /\ visit'[q] = IF q = c THEN "served" ELSE visit[q]
                           /\ handle'[q] = IF q = c THEN <<c, wanted[c]>> ELSE handle[q]
  BY <1>1, <1>2 DEF PoolTypeOK
<1>4. \A q \in Caller : visit[q] = "opening" <=> q = c
  BY <1>1 DEF HolderInv
<1>5. c # NoPool /\ <<c, wanted[c]>> \in Pool /\ <<c, wanted[c]>> # NoPool
  BY <1>1, PoolAssumption DEF Pool
<1>6. PoolTypeOK'
  BY <1>1, <1>2, <1>5 DEF PoolTypeOK, VisitStage
<1>7. HolderInv'
  BY <1>2, <1>3, <1>4, PoolAssumption DEF HolderInv
<1>8. Pinged = {<<c, wanted[c]>>} /\ Pinged' = {}
  BY <1>2, <1>3, <1>4 DEF Pinged
<1>9. Registered' = Registered \cup {<<c, wanted[c]>>}
  BY <1>1, <1>3, <1>5 DEF Registered
<1>10. OpenedAreRegistered'
  BY <1>1, <1>2, <1>8, <1>9 DEF OpenedAreRegistered, Registered, Pinged
<1>11. <<c, wanted[c]>> \in opened
  BY <1>1, <1>8 DEF OpenedAreRegistered, Pinged
<1>12. HandlesAreGood'
  <2> SUFFICES ASSUME NEW q \in Caller, visit'[q] = "served"
               PROVE  /\ handle'[q] # NoPool /\ handle'[q][2] = wanted[q]
                      /\ handle'[q] \in opened /\ pools'[wanted[q]] = handle'[q][1]
    BY <1>2 DEF HandlesAreGood
  <2>1. CASE q = c
    BY <1>1, <1>3, <1>5, <1>11, <2>1
  <2>2. CASE q # c
    <3>1. /\ handle[q] # NoPool /\ handle[q][2] = wanted[q]
          /\ handle[q] \in opened /\ pools[wanted[q]] = handle[q][1]
      BY <1>1, <1>3, <2>2, PoolAssumption DEF HandlesAreGood
    <3>2. handle[q] \in Pool
      BY <1>1, <3>1 DEF PoolTypeOK
    <3>3. pools[wanted[q]] # NoPool /\ wanted[q] \in Database
      BY <1>1, <3>1, <3>2, PoolAssumption DEF Pool, PoolTypeOK
    <3> QED
      BY <1>1, <1>3, <2>2, <3>1, <3>3
  <2> QED
    BY <2>1, <2>2
<1> QED
  BY <1>6, <1>7, <1>10, <1>12 DEF PoolInv

LEMMA RefuseInv ==
  ASSUME PoolInv, NEW c \in Caller, Refuse(c)
  PROVE  PoolInv'
<1>1. /\ PoolTypeOK /\ HolderInv /\ OpenedAreRegistered /\ HandlesAreGood
      /\ visit[c] = "opening" /\ writer = c /\ pools[wanted[c]] = NoPool
  BY DEF PoolInv, Refuse, HolderInv
<1>2. /\ opened' = opened \ {<<c, wanted[c]>>} /\ writer' = Nobody
      /\ visit' = [visit EXCEPT ![c] = "refused"] /\ UNCHANGED <<pools, wanted, handle>>
  BY DEF Refuse, Go
<1>3. \A q \in Caller : visit'[q] = IF q = c THEN "refused" ELSE visit[q]
  BY <1>1, <1>2 DEF PoolTypeOK
<1>4. \A q \in Caller : visit[q] = "opening" <=> q = c
  BY <1>1 DEF HolderInv
<1>5. PoolTypeOK'
  BY <1>1, <1>2 DEF PoolTypeOK, VisitStage
<1>6. HolderInv'
  BY <1>2, <1>3, <1>4, PoolAssumption DEF HolderInv
<1>7. Pinged = {<<c, wanted[c]>>} /\ Pinged' = {} /\ Registered' = Registered
  BY <1>2, <1>3, <1>4 DEF Pinged, Registered
<1>8. <<c, wanted[c]>> \notin Registered
  BY <1>1 DEF Registered
<1>9. opened = Registered \cup Pinged
  BY <1>1 DEF OpenedAreRegistered, Registered, Pinged
<1>10. opened' = Registered' \cup Pinged'
  BY <1>2, <1>7, <1>8, <1>9
<1>11. OpenedAreRegistered'
  BY <1>10 DEF OpenedAreRegistered, Registered, Pinged
<1>12. HandlesAreGood'
  <2> SUFFICES ASSUME NEW q \in Caller, visit'[q] = "served"
               PROVE  /\ handle[q] # NoPool /\ handle[q][2] = wanted[q]
                      /\ handle[q] \in opened' /\ pools[wanted[q]] = handle[q][1]
    BY <1>2 DEF HandlesAreGood
  <2>1. /\ handle[q] # NoPool /\ handle[q][2] = wanted[q]
        /\ handle[q] \in opened /\ pools[wanted[q]] = handle[q][1]
    BY <1>1, <1>3, PoolAssumption DEF HandlesAreGood
  <2>2. handle[q] \in Pool
    BY <1>1, <2>1 DEF PoolTypeOK
  <2>3. pools[wanted[q]] # NoPool
    BY <2>1, <2>2, PoolAssumption DEF Pool
  <2>4. handle[q] # <<c, wanted[c]>>
    BY <1>1, <2>1, <2>3
  <2> QED
    BY <1>2, <2>1, <2>4
<1> QED
  BY <1>5, <1>6, <1>11, <1>12 DEF PoolInv

LEMMA CloseInv ==
  ASSUME PoolInv, Close
  PROVE  PoolInv'
<1>1. /\ PoolTypeOK /\ HolderInv /\ OpenedAreRegistered /\ HandlesAreGood
      /\ writer = Nobody /\ writer' = Closer
      /\ opened' = opened \ {<<pools[d], d>> : d \in Database}
      /\ pools' = [d \in Database |-> NoPool] /\ UNCHANGED <<visit, wanted, handle>>
  BY DEF PoolInv, Close
<1>2. \A q \in Caller : visit[q] # "opening"
  BY <1>1, PoolAssumption DEF HolderInv
<1>3. PoolTypeOK'
  BY <1>1 DEF PoolTypeOK
<1>4. HolderInv'
  BY <1>1, <1>2, PoolAssumption DEF HolderInv
<1>5. Pinged = {} /\ Pinged' = {} /\ Registered' = {}
  BY <1>1, <1>2 DEF Pinged, Registered
<1>6. opened = Registered \cup Pinged
  BY <1>1 DEF OpenedAreRegistered, Registered, Pinged
<1>7. opened' = {}
  BY <1>1, <1>5, <1>6 DEF Registered
<1>8. OpenedAreRegistered'
  BY <1>5, <1>7 DEF OpenedAreRegistered, Registered, Pinged
<1>9. HandlesAreGood'
  BY <1>1, PoolAssumption DEF HandlesAreGood
<1> QED
  BY <1>3, <1>4, <1>8, <1>9 DEF PoolInv

LEMMA PoolStepInv ==
  ASSUME PoolInv, PoolNext
  PROVE  PoolInv'
BY LookInv, LookAgainInv, RegisterInv, RefuseInv, CloseInv DEF PoolNext, Open

LEMMA PoolStutterInv ==
  ASSUME PoolInv, UNCHANGED poolVars
  PROVE  PoolInv'
BY DEF PoolInv, poolVars, PoolTypeOK, HolderInv, OpenedAreRegistered, HandlesAreGood

-----------------------------------------------------------------------------
ServiceInv == GateInv /\ PoolInv

(* A step of the service is one of the gate or leaves it alone.            *)
LEMMA ServiceSteps ==
  ASSUME ServiceInv, [ServiceNext]_serviceVars
  PROVE  [GateNext]_gateVars /\ [PoolNext]_poolVars
<1>1. \A r \in Asker : r \in Caller /\ TenantOf(r) \in Database
  BY AskedIsTyped, ServiceAssumption DEF ServiceInv, GateInv
<1>2. ASSUME NEW r \in Asker, StockStep(r)
      PROVE  [GateNext]_gateVars /\ [PoolNext]_poolVars
  <2>1. CASE AtGate(r)
    BY <2>1 DEF AtGate, GateNext, GateStep
  <2>2. CASE AskPool(r)
    BY <1>1, <2>2 DEF AskPool, PoolNext
  <2>3. CASE PoolAnswers(r)
    BY <2>3 DEF PoolAnswers, GateNext, GateStep
  <2> QED
    BY <1>2, <2>1, <2>2, <2>3 DEF StockStep
<1>3. ASSUME NEW r \in Asker, NEW c \in StockCalls, Arrive(r, c), UNCHANGED poolVars
      PROVE  [GateNext]_gateVars /\ [PoolNext]_poolVars
  BY <1>3 DEF GateNext
<1>4. ASSUME NEW c \in Caller, PoolStep(c)
      PROVE  [GateNext]_gateVars /\ [PoolNext]_poolVars
  BY <1>4 DEF PoolStep, PoolNext
<1>5. ASSUME NEW c \in Caller, NEW d \in Database, Look(c, d), UNCHANGED gateVars
      PROVE  [GateNext]_gateVars /\ [PoolNext]_poolVars
  BY <1>5 DEF PoolNext
<1>6. ASSUME Close, UNCHANGED gateVars
      PROVE  [GateNext]_gateVars /\ [PoolNext]_poolVars
  BY <1>6 DEF PoolNext
<1>7. UNCHANGED serviceVars => UNCHANGED gateVars /\ UNCHANGED poolVars
  BY DEF serviceVars
<1> QED
  BY <1>2, <1>3, <1>4, <1>5, <1>6, <1>7 DEF ServiceNext

(* The invariants of the gate and of the pools hold in every state of the  *)
(* service, whatever its other half does (StockService.tla).               *)
THEOREM ServiceInvariance == ServiceSpec => []ServiceInv
<1>1. ServiceInit => ServiceInv
  BY GateInitInv, PoolInitInv DEF ServiceInit, ServiceInv
<1>2. ServiceInv /\ [ServiceNext]_serviceVars => ServiceInv'
  BY ServiceSteps, GateStepInv, GateStutterInv, PoolStepInv, PoolStutterInv
     DEF ServiceInv
<1> QED
  BY <1>1, <1>2, PTL DEF ServiceSpec

(* The variables of the gate keep their types; so the process never has    *)
(* more than Limit slots out, and a tenant never more than one.            *)
THEOREM GateTypeCorrect == ServiceSpec => []GateTypeOK
<1>1. ServiceInv => GateTypeOK
  BY DEF ServiceInv, GateInv
<1> QED
  BY <1>1, ServiceInvariance, PTL

(* No path through acquire and the calculation leaks a slot of the process *)
(* or of a tenant, or gives one back twice.                                *)
THEOREM NoSlotLeaks == ServiceSpec => []SlotsAccounted
<1>1. ServiceInv => SlotsAccounted
  BY DEF ServiceInv, GateInv
<1> QED
  BY <1>1, ServiceInvariance, PTL

(* Sharing a flight gives nobody the balances of another tenant or body.   *)
THEOREM AnswersAreOnesOwn == ServiceSpec => []AnswersItsQuestion
<1>1. ServiceInv => AnswersItsQuestion
  <2> SUFFICES ASSUME ServiceInv, NEW r \in Asker, result[r] # NoResult
               PROVE  /\ asked[result[r]].tenant = asked[r].tenant
                      /\ asked[result[r]].question = asked[r].question
    BY DEF AnswersItsQuestion
  <2>1. FlightKey(asked[r]) = FlightKey(asked[result[r]])
    BY DEF ServiceInv, GateInv, ResultInv, SameKey
  <2> QED
    BY <2>1 DEF FlightKey
<1> QED
  BY <1>1, ServiceInvariance, PTL

(* A flight is joined while it is under way, and not after.                *)
THEOREM OnlyFlownFlightsAreJoined == ServiceSpec => []FlightsAreFlown
<1>1. ServiceInv => FlightsAreFlown
  BY DEF ServiceInv, GateInv, CrewInv, FlightInv, FlightsAreFlown, Flying
<1> QED
  BY <1>1, ServiceInvariance, PTL

(* The variables of the pools keep their types.                            *)
THEOREM PoolTypeCorrect == ServiceSpec => []PoolTypeOK
<1>1. ServiceInv => PoolTypeOK
  BY DEF ServiceInv, PoolInv
<1> QED
  BY <1>1, ServiceInvariance, PTL

(* However many requests miss a pool at once, one is opened and registered *)
(* and none is lost with its connections.                                  *)
THEOREM NoPoolLeaks == ServiceSpec => []OpenedAreRegistered
<1>1. ServiceInv => OpenedAreRegistered
  BY DEF ServiceInv, PoolInv
<1> QED
  BY <1>1, ServiceInvariance, PTL

(* A request works with an open pool of the database it asked for, until   *)
(* the server stops.                                                       *)
THEOREM PoolsServeTheirDatabase == ServiceSpec => []HandlesAreGood
<1>1. ServiceInv => HandlesAreGood
  BY DEF ServiceInv, PoolInv
<1> QED
  BY <1>1, ServiceInvariance, PTL

-----------------------------------------------------------------------------
(* The refinement: who has the slot of a tenant is the one who calculates. *)
Calculates ==
  [t \in Tenant |-> IF \E r \in HasTenant : TenantOf(r) = t
                    THEN CHOOSE r \in HasTenant : TenantOf(r) = t ELSE NoFlight]

LEMMA CalculatesIs ==
  ASSUME GateTypeOK, SlotsAccounted, NEW t \in Tenant
  PROVE  /\ Holders(t) = {} => Calculates[t] = NoFlight
         /\ \A r \in Holders(t) : Calculates[t] = r /\ r # NoFlight
         /\ Calculates[t] # NoFlight => Calculates[t] \in Holders(t)
<1>1. Calculates[t] = IF \E r \in HasTenant : TenantOf(r) = t
                      THEN CHOOSE r \in HasTenant : TenantOf(r) = t ELSE NoFlight
  BY DEF Calculates
<1>2. Holders(t) = {} => Calculates[t] = NoFlight
  BY <1>1 DEF Holders
<1>3. ASSUME NEW r \in Holders(t) PROVE Calculates[t] = r /\ r # NoFlight
  <2>1. r \in HasTenant /\ TenantOf(r) = t
    BY <1>3 DEF Holders
  <2>2. (CHOOSE q \in HasTenant : TenantOf(q) = t) \in Holders(t)
    BY <2>1 DEF Holders
  <2>3. Calculates[t] \in Holders(t)
    BY <1>1, <2>1, <2>2
  <2> QED
    BY <1>3, <2>1, <2>3, SlotFacts, NoFlightAssumption DEF HasTenant
<1> QED
  BY <1>2, <1>3

LEMMA CalculatesFromHolders ==
  ASSUME GateTypeOK, SlotsAccounted, GateTypeOK', SlotsAccounted',
         NEW t \in Tenant, Holders(t)' = Holders(t)
  PROVE  Calculates'[t] = Calculates[t]
<1>1. CASE Holders(t) = {}
  <2>1. Calculates[t] = NoFlight
    BY <1>1, CalculatesIs
  <2>2. Calculates'[t] = NoFlight
    <3>1. ~ \E r \in HasTenant' : TenantOf(r)' = t
      BY <1>1 DEF Holders
    <3> QED
      BY <3>1 DEF Calculates
  <2> QED
    BY <2>1, <2>2
<1>2. CASE Holders(t) # {}
  <2>1. PICK r : r \in Holders(t)
    BY <1>2
  <2>2. Holders(t) = {r} /\ Calculates[t] = r
    BY <2>1, CalculatesIs, SlotFacts
  <2>3. {q \in HasTenant' : TenantOf(q)' = t} = {r}
    BY <2>2 DEF Holders
  <2>4. Calculates'[t] = CHOOSE q \in HasTenant' : TenantOf(q)' = t
    BY <2>3 DEF Calculates
  <2>5. (CHOOSE q \in HasTenant' : TenantOf(q)' = t) \in {q \in HasTenant' : TenantOf(q)' = t}
    BY <2>3
  <2> QED
    BY <2>2, <2>3, <2>4, <2>5
<1> QED
  BY <1>1, <1>2

(* Tenants at work are as many as the requests that have both slots, which *)
(* leave room for one who has only that of the process.                    *)
LEMMA RoomForOneMore ==
  ASSUME GateTypeOK, SlotsAccounted, NEW r \in Asker, stage[r] = "tenant"
  PROVE  Cardinality({t \in DOMAIN Calculates : Calculates[t] # NoFlight}) < Limit
<1> DEFINE Working == {t \in DOMAIN Calculates : Calculates[t] # NoFlight}
           Others == HasGlobal \ {r}
           holder == [t \in Working |-> Calculates[t]]
<1>1. DOMAIN Calculates = Tenant
  BY DEF Calculates
<1>2. \A t \in Working : holder[t] \in Others /\ TenantOf(holder[t]) = t
  BY <1>1, CalculatesIs DEF Holders, HasTenant, HasGlobal
<1>3. holder \in Injection(Working, Others)
  BY <1>2 DEF Injection, IsInjective
<1>4. r \in HasGlobal /\ IsFiniteSet(HasGlobal)
  BY SlotSetsFinite DEF HasGlobal
<1>5. /\ IsFiniteSet(Others) /\ Cardinality(Others) = Cardinality(HasGlobal) - 1
  BY <1>4, FS_RemoveElement
<1>6. IsFiniteSet(Working) /\ Cardinality(Working) <= Cardinality(Others)
  BY <1>3, <1>5, FS_Injection
<1>7. /\ Cardinality(Working) \in Nat /\ Cardinality(Others) \in Nat
      /\ Cardinality(HasGlobal) \in Nat
  BY <1>4, <1>5, <1>6, FS_CardinalityType
<1>8. Cardinality(HasGlobal) <= Limit
  BY DEF GateTypeOK, SlotsAccounted
<1> HIDE DEF Working, Others
<1>9. Cardinality(Working) < Limit
  BY <1>5, <1>6, <1>7, <1>8, LimitAssumption
<1> QED
  BY <1>9 DEF Working

LEMMA SlotsStep ==
  ASSUME ServiceInv, ServiceInv', [ServiceNext]_serviceVars
  PROVE  [Slots!Next]_Calculates
<1>0. /\ GateTypeOK /\ SlotsAccounted /\ GateTypeOK' /\ SlotsAccounted'
      /\ [GateNext]_gateVars
  BY ServiceSteps DEF ServiceInv, GateInv
<1>1. DOMAIN Calculates = Tenant /\ DOMAIN Calculates' = Tenant
  BY DEF Calculates
<1>2. ASSUME NEW r \in Asker, TakeTenant(r) PROVE Slots!Next
  <2>1. /\ stage[r] = "tenant" /\ tenantUsed[TenantOf(r)] = 0 /\ UNCHANGED asked
        /\ \A q \in Asker : stage'[q] = IF q = r THEN "pool" ELSE stage[q]
    BY <1>0, <1>2 DEF TakeTenant, Enter, GateTypeOK
  <2>2. TenantOf(r) \in Tenant /\ \A q : TenantOf(q)' = TenantOf(q)
    BY <1>0, <2>1, AskedIsTyped DEF TenantOf
  <2>3. HasTenant' = HasTenant \cup {r}
    BY <2>1 DEF HasTenant
  <2>4. Holders(TenantOf(r)) = {} /\ Calculates[TenantOf(r)] = NoFlight
    BY <1>0, <2>1, <2>2, SlotFacts, CalculatesIs
  <2>5. \A t \in Tenant : t # TenantOf(r) => Calculates'[t] = Calculates[t]
    <3> SUFFICES ASSUME NEW t \in Tenant, t # TenantOf(r)
                 PROVE  Calculates'[t] = Calculates[t]
      OBVIOUS
    <3>1. Holders(t)' = Holders(t)
      BY <2>2, <2>3 DEF Holders
    <3> QED
      BY <1>0, <3>1, CalculatesFromHolders
  <2>6. Calculates'[TenantOf(r)] = r
    <3>1. {q \in HasTenant' : TenantOf(q)' = TenantOf(r)} = {r}
      BY <2>2, <2>3, <2>4 DEF Holders
    <3>2. Calculates'[TenantOf(r)] = CHOOSE q \in HasTenant' : TenantOf(q)' = TenantOf(r)
      BY <2>2, <3>1 DEF Calculates
    <3>3. (CHOOSE q \in HasTenant' : TenantOf(q)' = TenantOf(r))
            \in {q \in HasTenant' : TenantOf(q)' = TenantOf(r)}
      BY <3>1
    <3> QED
      BY <3>1, <3>2, <3>3
  <2>7. Calculates' = [Calculates EXCEPT ![TenantOf(r)] = r]
    <3>1. Calculates' = [t \in Tenant |-> Calculates'[t]]
      BY DEF Calculates
    <3> QED
      BY <1>1, <2>5, <2>6, <3>1
  <2>8. Cardinality({t \in DOMAIN Calculates : Calculates[t] # NoFlight}) < Limit
    BY <1>0, <2>1, RoomForOneMore
  <2>9. Slots!Cardinality(Slots!Busy) = Cardinality(Slots!Busy)
    BY DEF Slots!Cardinality, Cardinality
  <2>10. Slots!Start(r, TenantOf(r))
    BY <2>4, <2>7, <2>8, <2>9 DEF Slots!Start, Slots!Busy, Calculates
  <2> QED
    BY <2>2, <2>10 DEF Slots!Next
<1>3. ASSUME NEW r \in Asker, PoolFails(r) \/ Finish(r) PROVE Slots!Next
  <2>1. /\ stage[r] \in {"pool", "running"} /\ EndFlight(r) /\ UNCHANGED asked
    BY <1>3 DEF PoolFails, Finish, EndFlight
  <2>2. \A t : Holders(t)' = Holders(t) \ {r}
    BY <2>1, EndFlightInv DEF Flying, ServiceInv
  <2>3. r \in Holders(TenantOf(r)) /\ TenantOf(r) \in Tenant
    BY <1>0, <2>1, AskedIsTyped DEF Holders, HasTenant
  <2>4. /\ Calculates[TenantOf(r)] # NoFlight /\ Holders(TenantOf(r)) = {r}
    BY <1>0, <2>3, CalculatesIs, SlotFacts
  <2>5. Calculates'[TenantOf(r)] = NoFlight
    <3>1. \A t : {q \in HasTenant' : TenantOf(q)' = t} = Holders(t) \ {r}
      BY <2>2 DEF Holders
    <3>2. ~ \E q \in HasTenant' : TenantOf(q)' = TenantOf(r)
      BY <2>4, <3>1
    <3> QED
      BY <2>3, <3>2 DEF Calculates
  <2>6. \A t \in Tenant : t # TenantOf(r) => Calculates'[t] = Calculates[t]
    <3> SUFFICES ASSUME NEW t \in Tenant, t # TenantOf(r)
                 PROVE  Calculates'[t] = Calculates[t]
      OBVIOUS
    <3>1. Holders(t)' = Holders(t)
      BY <2>2 DEF Holders
    <3> QED
      BY <1>0, <3>1, CalculatesFromHolders
  <2>7. Calculates' = [Calculates EXCEPT ![TenantOf(r)] = NoFlight]
    <3>1. Calculates' = [t \in Tenant |-> Calculates'[t]]
      BY DEF Calculates
    <3> QED
      BY <1>1, <2>5, <2>6, <3>1
  <2>8. Slots!End(TenantOf(r))
    BY <2>4, <2>7 DEF Slots!End, Calculates
  <2> QED
    BY <2>3, <2>8 DEF Slots!Next
<1>4. ASSUME \A t \in Tenant : Holders(t)' = Holders(t)
      PROVE  UNCHANGED Calculates
  <2>1. \A t \in Tenant : Calculates'[t] = Calculates[t]
    BY <1>0, <1>4, CalculatesFromHolders
  <2>2. /\ Calculates = [t \in Tenant |-> Calculates[t]]
        /\ Calculates' = [t \in Tenant |-> Calculates'[t]]
    BY DEF Calculates
  <2> QED
    BY <2>1, <2>2
<1>5. ASSUME NEW r \in Asker, TimeoutGlobal(r) \/ TimeoutTenant(r)
      PROVE  UNCHANGED Calculates
  <2>1. stage[r] \in {"global", "tenant"} /\ EndFlight(r)
    BY <1>5 DEF TimeoutGlobal, TimeoutTenant
  <2>2. \A t : Holders(t)' = Holders(t) \ {r}
    BY <2>1, EndFlightInv DEF Flying, ServiceInv
  <2>3. \A t : r \notin Holders(t)
    BY <2>1 DEF Holders, HasTenant
  <2>4. \A t : Holders(t)' = Holders(t)
    BY <2>2, <2>3
  <2> QED
    BY <1>4, <2>4
<1>6. ASSUME NEW r \in Asker, TakeGlobal(r) \/ GetPool(r)
      PROVE  UNCHANGED Calculates
  <2>1. /\ UNCHANGED asked
        /\ \A q \in Asker : stage'[q] \in {"pool", "running"} <=> stage[q] \in {"pool", "running"}
    BY <1>0, <1>6 DEF TakeGlobal, GetPool, Enter, GateTypeOK
  <2>2. \A t : Holders(t)' = Holders(t)
    BY <2>1 DEF Holders, HasTenant, TenantOf
  <2> QED
    BY <1>4, <2>2
<1>7. ASSUME NEW r \in Asker, NEW c \in StockCalls, Arrive(r, c)
      PROVE  UNCHANGED Calculates
  <2>1. stage[r] = "idle" /\ asked' = [asked EXCEPT ![r] = c]
        /\ stage'[r] \in {"joined", "global"}
        /\ \A q \in Asker : q # r => stage'[q] = stage[q]
    BY <1>0, <1>7 DEF Arrive, Enter, GateTypeOK
  <2>2. HasTenant' = HasTenant /\ \A q \in HasTenant : TenantOf(q)' = TenantOf(q)
    BY <1>0, <2>1 DEF HasTenant, TenantOf, GateTypeOK
  <2>3. \A t : Holders(t)' = Holders(t)
    BY <2>2 DEF Holders
  <2> QED
    BY <1>4, <2>3
<1>8. ASSUME UNCHANGED gateVars PROVE UNCHANGED Calculates
  <2>1. \A t : Holders(t)' = Holders(t)
    BY <1>8 DEF gateVars, Holders, HasTenant, TenantOf
  <2> QED
    BY <1>4, <2>1
<1> QED
  BY <1>0, <1>2, <1>3, <1>5, <1>6, <1>7, <1>8 DEF GateNext, GateStep

(* The gate of stock_sync.go keeps its promise: a tenant has one           *)
(* calculation at a time and all together have at most Limit.              *)
THEOREM GateImplementsSlots == ServiceSpec => ImplementsSlots
<1>1. ServiceInit => Slots!Init
  BY DEF ServiceInit, GateInit, Slots!Init, HasTenant
<1>2. ServiceInv /\ ServiceInv' /\ [ServiceNext]_serviceVars => [Slots!Next]_Calculates
  BY SlotsStep
<1> QED
  BY <1>1, <1>2, ServiceInvariance, PTL DEF ServiceSpec, ImplementsSlots, Slots!Spec, Calculates

(* Who joins a flight is served as if it had calculated itself.            *)
THEOREM FlightsStaySound == ServiceSpec => []FlightsAreSound
BY AnswersAreOnesOwn, OnlyFlownFlightsAreJoined, PTL DEF FlightsAreSound

(* A database has one open pool, and nobody works with another one.        *)
THEOREM PoolsStaySound == ServiceSpec => []PoolsAreSound
BY NoPoolLeaks, PoolsServeTheirDatabase, PTL DEF PoolsAreSound

-----------------------------------------------------------------------------
LockInv ==
  \A r \in Request :
    /\ pc[r] \in {"locked", "deleted"} => imageLock[DocOf(r)] = r
    /\ alive[r] /\ pc[r] \in {"found", "locked", "deleted", "stored", "replaced"}
         => mainLock[DocOf(r)] = r

(* What a DELETE found is still what is there when the commit comes. *)
DoomedInv ==
  \A r \in Request :
    /\ pc[r] = "deleted" => doomed[r] = imageRows[DocOf(r)]
    /\ pc[r] = "replaced" /\ alive[r] => doomed[r] = mainRows[DocOf(r)]

PhaseInv == \A r \in Request : pc[r] # "done" => outcome[r] = "none"

(* Rows are those of a request that has committed in the image database. *)
MadeBy(stored, d, r) ==
  pc[r] \in {"stored", "replaced", "done"} /\ DocOf(r) = d /\ stored[d] = RowsOf(r)
Made(stored, d) == stored[d] = {} \/ \E r \in Request : MadeBy(stored, d, r)
MadeInv == \A d \in Doc : Made(mainRows, d) /\ Made(imageRows, d)

(* The pages in the image database are of a request that has not been told *)
(* "ok". *)
Unconfirmed(d) ==
  \E r \in Request : MadeBy(imageRows, d, r) /\ outcome[r] \in {"none", "failed"}

AuthorInv ==
  /\ \A d \in Doc : mainRows[d] # imageRows[d] => Unconfirmed(d)
  /\ \A r \in Request : alive[r] /\ pc[r] \in {"stored", "replaced"}
                          => Unconfirmed(DocOf(r))

IInv == TypeOK /\ LockInv /\ DoomedInv /\ PhaseInv /\ MadeInv /\ AuthorInv

-----------------------------------------------------------------------------
LEMMA Typed ==
  ASSUME TypeOK, NEW r \in Request
  PROVE  DocOf(r) \in Doc /\ RowsOf(r) \in SUBSET Row
<1>1. call[r] \in Call
  BY CallsAssumption DEF TypeOK
<1> QED
  BY <1>1 DEF DocOf, RowsOf, Call, Row

LEMMA InitInv == Init => IInv
<1> SUFFICES ASSUME Init PROVE IInv
  OBVIOUS
<1>1. (CHOOSE c \in Calls : TRUE) \in Calls
  BY CallsAssumption
<1>2. TypeOK
  BY <1>1 DEF Init, TypeOK, Phase, Outcome
<1> QED
  BY <1>2 DEF Init, IInv, LockInv, DoomedInv, PhaseInv, MadeInv, Made, AuthorInv

(* Steps that change no rows: what remains to be shown of them. *)
LEMMA RowsKept ==
  ASSUME IInv, UNCHANGED <<rows, call>>,
         \A r \in Request : pc[r] \in {"stored", "replaced", "done"}
                              => pc'[r] \in {"stored", "replaced", "done"},
         \A r \in Request : outcome[r] \in {"none", "failed"}
                              /\ pc[r] \in {"stored", "replaced", "done"}
                              => outcome'[r] \in {"none", "failed"},
         \A r \in Request : alive'[r] /\ pc'[r] \in {"stored", "replaced"}
                              => alive[r] /\ pc[r] \in {"stored", "replaced"}
  PROVE  MadeInv' /\ AuthorInv'
<1>1. mainRows' = mainRows /\ imageRows' = imageRows /\ call' = call
  BY DEF rows
<1>2. \A r \in Request : RowsOf(r)' = RowsOf(r) /\ DocOf(r)' = DocOf(r)
  BY <1>1 DEF RowsOf, DocOf
<1>3. MadeInv'
  BY <1>1, <1>2 DEF IInv, MadeInv, Made, MadeBy
<1>4. \A d \in Doc : Unconfirmed(d) => Unconfirmed(d)'
  BY <1>1, <1>2 DEF Unconfirmed, MadeBy
<1>5. AuthorInv'
  <2>1. ASSUME NEW d \in Doc, mainRows'[d] # imageRows'[d] PROVE Unconfirmed(d)'
    BY <2>1, <1>1, <1>4 DEF IInv, AuthorInv
  <2>2. ASSUME NEW r \in Request, alive'[r], pc'[r] \in {"stored", "replaced"}
        PROVE  Unconfirmed(DocOf(r))'
    <3>1. DocOf(r) \in Doc /\ Unconfirmed(DocOf(r))
      BY <2>2, Typed DEF IInv, AuthorInv
    <3>2. Unconfirmed(DocOf(r))'
      BY <3>1, <1>1, <1>2 DEF Unconfirmed, MadeBy
    <3> QED
      BY <3>2
  <2> QED
    BY <2>1, <2>2 DEF AuthorInv
<1> QED
  BY <1>3, <1>5

LEMMA ReceiveInv ==
  ASSUME IInv, NEW r \in Request, Receive(r)
  PROVE  IInv'
<1>a. TypeOK /\ LockInv /\ DoomedInv /\ PhaseInv /\ MadeInv /\ AuthorInv
  BY DEF IInv
<1>1. /\ UNCHANGED <<outcome, doomed, mainLock, imageLock, mainRows, imageRows>>
      /\ pc[r] = "idle" /\ pc'[r] = "waiting"
      /\ \A q \in Request : q # r => /\ pc'[q] = pc[q] /\ alive'[q] = alive[q]
                                     /\ call'[q] = call[q]
  BY <1>a DEF Receive, locks, rows, TypeOK
<1>2. TypeOK'
  BY <1>a DEF Receive, locks, rows, TypeOK, Phase
<1>3. \A q \in Request : q # r => RowsOf(q)' = RowsOf(q) /\ DocOf(q)' = DocOf(q)
  BY <1>1 DEF RowsOf, DocOf
<1>4. LockInv' /\ DoomedInv' /\ PhaseInv'
  BY <1>a, <1>1, <1>3 DEF LockInv, DoomedInv, PhaseInv
<1>5. \A stored, d, q : q \in Request /\ MadeBy(stored, d, q) => q # r
  BY <1>1 DEF MadeBy
<1>6. MadeInv'
  BY <1>a, <1>1, <1>3, <1>5 DEF MadeInv, Made, MadeBy
<1>7. AuthorInv'
  BY <1>a, <1>1, <1>3, <1>5 DEF AuthorInv, Unconfirmed, MadeBy
<1> QED
  BY <1>2, <1>4, <1>6, <1>7 DEF IInv

(* Getting a lock, or deleting rows that only the commit makes disappear. *)
LEMMA QuietInv ==
  ASSUME IInv, NEW r \in Request,
         LockMain(r) \/ LockImage(r) \/ DeleteImages(r) \/ ReplaceMain(r)
  PROVE  IInv'
<1>a. TypeOK /\ LockInv /\ DoomedInv /\ PhaseInv
  BY DEF IInv
<1>b. \A q \in Request : DocOf(q)' = DocOf(q) /\ DocOf(q) \in Doc
  BY <1>a, Typed DEF LockMain, LockImage, DeleteImages, ReplaceMain, DocOf
<1>1. MadeInv' /\ AuthorInv'
  <2>1. UNCHANGED <<rows, call, outcome, alive>>
    BY DEF LockMain, LockImage, DeleteImages, ReplaceMain, rows
  <2>2. \A q \in Request : pc'[q] = pc[q] \/ (pc[q] \in {"waiting", "found", "locked"}
                                              /\ pc'[q] \in {"found", "locked", "deleted"})
                            \/ (pc[q] = "stored" /\ pc'[q] = "replaced")
    BY <1>a DEF LockMain, LockImage, DeleteImages, ReplaceMain, TypeOK
  <2> QED
    BY <2>1, <2>2, RowsKept
<1>2. CASE LockMain(r)
  <2>1. TypeOK'
    BY <1>2, <1>a, <1>b DEF LockMain, locks, rows, TypeOK, Phase
  <2>2. LockInv'
    BY <1>2, <1>a, <1>b, NoneAssumption DEF LockMain, LockInv, TypeOK
  <2>3. DoomedInv' /\ PhaseInv'
    BY <1>2, <1>a, <1>b DEF LockMain, rows, DoomedInv, PhaseInv, TypeOK
  <2> QED
    BY <2>1, <2>2, <2>3, <1>1 DEF IInv
<1>3. CASE LockImage(r)
  <2>1. TypeOK'
    BY <1>3, <1>a, <1>b DEF LockImage, rows, TypeOK, Phase
  <2>2. LockInv'
    BY <1>3, <1>a, <1>b, NoneAssumption DEF LockImage, LockInv, TypeOK
  <2>3. DoomedInv' /\ PhaseInv'
    BY <1>3, <1>a, <1>b DEF LockImage, rows, DoomedInv, PhaseInv, TypeOK
  <2> QED
    BY <2>1, <2>2, <2>3, <1>1 DEF IInv
<1>4. CASE DeleteImages(r)
  <2>1. TypeOK'
    BY <1>4, <1>a, <1>b DEF DeleteImages, locks, rows, TypeOK, Phase
  <2>2. LockInv' /\ DoomedInv' /\ PhaseInv'
    BY <1>4, <1>a, <1>b DEF DeleteImages, locks, rows, LockInv, DoomedInv, PhaseInv, TypeOK
  <2> QED
    BY <2>1, <2>2, <1>1 DEF IInv
<1>5. CASE ReplaceMain(r)
  <2>1. TypeOK'
    BY <1>5, <1>a, <1>b DEF ReplaceMain, locks, rows, TypeOK, Phase
  <2>2. LockInv' /\ DoomedInv' /\ PhaseInv'
    BY <1>5, <1>a, <1>b DEF ReplaceMain, locks, rows, LockInv, DoomedInv, PhaseInv, TypeOK
  <2> QED
    BY <2>1, <2>2, <1>1 DEF IInv
<1> QED
  BY <1>2, <1>3, <1>4, <1>5

LEMMA WithoutKeeps ==
  ASSUME NEW lock \in [Doc -> Request \cup {NoRequest}], NEW r \in Request
  PROVE  /\ Without(lock, r) \in [Doc -> Request \cup {NoRequest}]
         /\ \A q \in Request, d \in Doc : q # r /\ lock[d] = q => Without(lock, r)[d] = q
BY DEF Without

LEMMA LoseMainInv ==
  ASSUME IInv, NEW r \in Request, LoseMain(r)
  PROVE  IInv'
<1>a. TypeOK /\ LockInv /\ DoomedInv /\ PhaseInv
  BY DEF IInv
<1>b. \A q \in Request : DocOf(q)' = DocOf(q) /\ DocOf(q) \in Doc
  BY <1>a, Typed DEF LoseMain, DocOf
<1>1. /\ UNCHANGED <<pc, call, outcome, doomed, imageLock, rows>>
      /\ mainLock' = Without(mainLock, r) /\ ~alive'[r]
      /\ \A q \in Request : q # r => alive'[q] = alive[q]
  BY <1>a DEF LoseMain, TypeOK
<1>2. MadeInv' /\ AuthorInv'
  BY <1>1, RowsKept
<1>3. TypeOK'
  BY <1>a, WithoutKeeps DEF LoseMain, rows, TypeOK
<1>4. LockInv'
  <2>1. \A q \in Request, d \in Doc : q # r /\ mainLock[d] = q => mainLock'[d] = q
    BY <1>a, <1>1, WithoutKeeps DEF TypeOK
  <2>2. ASSUME NEW q \in Request, alive'[q],
               pc'[q] \in {"found", "locked", "deleted", "stored", "replaced"}
        PROVE  mainLock'[DocOf(q)'] = q
    BY <2>1, <2>2, <1>a, <1>b, <1>1 DEF LockInv
  <2> QED
    BY <2>2, <1>a, <1>b, <1>1 DEF LockInv
<1>5. DoomedInv' /\ PhaseInv'
  BY <1>a, <1>b, <1>1 DEF rows, DoomedInv, PhaseInv
<1> QED
  BY <1>2, <1>3, <1>4, <1>5 DEF IInv

(* What the end of a request does to everything but the rows. *)
LEMMA EndKeeps ==
  ASSUME IInv, NEW r \in Request, NEW a \in Outcome, EndWith(r, a),
         mainRows' \in [Doc -> SUBSET Row], imageRows' \in [Doc -> SUBSET Row]
  PROVE  /\ TypeOK' /\ LockInv' /\ PhaseInv'
         /\ call' = call /\ pc'[r] = "done" /\ outcome'[r] = a /\ ~alive'[r]
         /\ \A q \in Request : q # r => /\ pc'[q] = pc[q] /\ outcome'[q] = outcome[q]
                                        /\ alive'[q] = alive[q] /\ doomed'[q] = doomed[q]
<1>a. TypeOK /\ LockInv /\ PhaseInv
  BY DEF IInv
<1>1. /\ call' = call /\ pc'[r] = "done" /\ outcome'[r] = a /\ ~alive'[r]
      /\ \A q \in Request : q # r => /\ pc'[q] = pc[q] /\ outcome'[q] = outcome[q]
                                     /\ alive'[q] = alive[q] /\ doomed'[q] = doomed[q]
  BY <1>a DEF EndWith, TypeOK
<1>2. mainLock' = Without(mainLock, r) /\ imageLock' = Without(imageLock, r)
  BY DEF EndWith
<1>3. TypeOK'
  <2>1. /\ mainLock' \in [Doc -> Request \cup {NoRequest}]
        /\ imageLock' \in [Doc -> Request \cup {NoRequest}]
    BY <1>a, <1>2, WithoutKeeps DEF TypeOK
  <2>2. /\ pc' \in [Request -> Phase] /\ outcome' \in [Request -> Outcome]
        /\ alive' \in [Request -> BOOLEAN] /\ doomed' \in [Request -> SUBSET Row]
    BY <1>a DEF EndWith, TypeOK, Phase
  <2> QED
    BY <2>1, <2>2, <1>1, <1>a DEF TypeOK
<1>4. \A q \in Request : DocOf(q)' = DocOf(q) /\ DocOf(q) \in Doc
  BY <1>1, <1>a, Typed DEF DocOf
<1>5. LockInv'
  BY <1>a, <1>1, <1>2, <1>4, WithoutKeeps DEF LockInv, TypeOK
<1>6. PhaseInv'
  BY <1>a, <1>1 DEF PhaseInv
<1> QED
  BY <1>1, <1>3, <1>5, <1>6

LEMMA EndInv ==
  ASSUME IInv, NEW r \in Request, NotFound(r) \/ Fail(r) \/ MainGone(r)
  PROVE  IInv'
<1>a. TypeOK /\ DoomedInv
  BY DEF IInv
<1>1. PICK a \in {"not_found", "failed"} :
        EndWith(r, a) /\ (a = "not_found" => pc[r] = "waiting")
  BY DEF NotFound, Fail, MainGone
<1>2. UNCHANGED rows
  BY DEF NotFound, Fail, MainGone
<1>3. a \in Outcome /\ mainRows' \in [Doc -> SUBSET Row] /\ imageRows' \in [Doc -> SUBSET Row]
  BY <1>2, <1>a DEF Outcome, rows, TypeOK
<1>4. /\ TypeOK' /\ LockInv' /\ PhaseInv'
      /\ call' = call /\ pc'[r] = "done" /\ outcome'[r] = a /\ ~alive'[r]
      /\ \A q \in Request : q # r => /\ pc'[q] = pc[q] /\ outcome'[q] = outcome[q]
                                     /\ alive'[q] = alive[q] /\ doomed'[q] = doomed[q]
  BY <1>1, <1>3, EndKeeps
<1>5. MadeInv' /\ AuthorInv'
  BY <1>1, <1>2, <1>4, RowsKept
<1>6. DoomedInv'
  BY <1>a, <1>2, <1>4 DEF DoomedInv, DocOf, rows
<1> QED
  BY <1>4, <1>5, <1>6 DEF IInv

-----------------------------------------------------------------------------
(* A commit in the image database: what was found is all there was, so the *)
(* document has the pages of this request, which was not told "ok" yet.    *)
LEMMA CommitImagesInv ==
  ASSUME IInv, NEW r \in Request, CommitImages(r) \/ CommitImagesUnheard(r)
  PROVE  IInv'
<1>a. TypeOK /\ LockInv /\ DoomedInv /\ PhaseInv /\ MadeInv /\ AuthorInv
  BY DEF IInv
<1>0. PICK d \in Doc : d = DocOf(r)
  BY <1>a, Typed
<1>1. d \in Doc /\ RowsOf(r) \in SUBSET Row /\ doomed[r] = imageRows[d]
      /\ imageLock[d] = r /\ pc[r] = "deleted" /\ outcome[r] = "none"
  BY <1>a, <1>0, Typed DEF CommitImages, CommitImagesUnheard, DoomedInv, LockInv, PhaseInv
<1>2. imageRows' = [imageRows EXCEPT ![d] = (imageRows[d] \ doomed[r]) \cup RowsOf(r)]
      /\ mainRows' = mainRows
  BY <1>0 DEF CommitImages, CommitImagesUnheard, Replaced
<1>3. /\ imageRows' \in [Doc -> SUBSET Row] /\ mainRows' \in [Doc -> SUBSET Row]
      /\ imageRows'[d] = RowsOf(r)
      /\ \A e \in Doc : e # d => imageRows'[e] = imageRows[e]
  BY <1>1, <1>2, <1>a DEF TypeOK
<1>4. /\ TypeOK' /\ LockInv' /\ PhaseInv' /\ call' = call
      /\ pc'[r] \in {"stored", "done"} /\ outcome'[r] \in {"none", "failed"}
      /\ pc'[r] = "stored" => alive'[r] = alive[r]
      /\ pc'[r] = "done" => ~alive'[r]
      /\ \A q \in Request : q # r => /\ pc'[q] = pc[q] /\ outcome'[q] = outcome[q]
                                     /\ alive'[q] = alive[q] /\ doomed'[q] = doomed[q]
  <2>1. CASE CommitImages(r)
    <3>1. /\ UNCHANGED <<call, outcome, alive, mainLock>>
          /\ imageLock' = Without(imageLock, r)
          /\ pc'[r] = "stored"
          /\ \A q \in Request : q # r => pc'[q] = pc[q] /\ doomed'[q] = doomed[q]
      BY <2>1, <1>a DEF CommitImages, TypeOK
    <3>2. TypeOK'
      BY <2>1, <1>3, <1>a, WithoutKeeps DEF CommitImages, TypeOK, Phase
    <3>3. \A q \in Request : DocOf(q)' = DocOf(q) /\ DocOf(q) \in Doc
      BY <3>1, <1>a, Typed DEF DocOf
    <3>4. LockInv'
      BY <3>1, <3>3, <1>1, <1>a, WithoutKeeps DEF LockInv, TypeOK
    <3>5. PhaseInv'
      BY <3>1, <1>1, <1>a DEF PhaseInv
    <3> QED
      BY <3>1, <3>2, <3>4, <3>5, <1>1
  <2>2. CASE CommitImagesUnheard(r)
    <3>1. EndWith(r, "failed") /\ "failed" \in Outcome
      BY <2>2 DEF CommitImagesUnheard, Outcome
    <3> QED
      BY <3>1, <1>3, EndKeeps
  <2> QED
    BY <2>1, <2>2
<1>5. \A q \in Request : RowsOf(q)' = RowsOf(q) /\ DocOf(q)' = DocOf(q) /\ DocOf(q) \in Doc
  BY <1>4, <1>a, Typed DEF RowsOf, DocOf
<1>6. \A q \in Request : q # r /\ pc[q] = "deleted" => DocOf(q) # d
  BY <1>1, <1>a DEF LockInv
<1>7. DoomedInv'
  BY <1>a, <1>2, <1>3, <1>4, <1>5, <1>6 DEF DoomedInv
<1>8. MadeBy(imageRows, d, r)' /\ Unconfirmed(d)'
  BY <1>0, <1>3, <1>4, <1>5 DEF MadeBy, Unconfirmed
<1>9. MadeInv'
  <2>1. ASSUME NEW e \in Doc PROVE Made(mainRows, e)'
    BY <1>a, <1>1, <1>2, <1>4, <1>5 DEF MadeInv, Made, MadeBy
  <2>2. ASSUME NEW e \in Doc PROVE Made(imageRows, e)'
    <3>1. CASE e = d
      BY <3>1, <1>8 DEF Made
    <3>2. CASE e # d
      BY <3>2, <1>a, <1>1, <1>3, <1>4, <1>5 DEF MadeInv, Made, MadeBy
    <3> QED
      BY <3>1, <3>2
  <2> QED
    BY <2>1, <2>2 DEF MadeInv
<1>10. \A e \in Doc : Unconfirmed(e) => Unconfirmed(e)'
  <2> SUFFICES ASSUME NEW e \in Doc, Unconfirmed(e) PROVE Unconfirmed(e)'
    OBVIOUS
  <2>1. CASE e = d
    BY <2>1, <1>8
  <2>2. CASE e # d
    BY <2>2, <1>1, <1>3, <1>4, <1>5 DEF Unconfirmed, MadeBy
  <2> QED
    BY <2>1, <2>2
<1>11. AuthorInv'
  <2>1. ASSUME NEW e \in Doc, mainRows'[e] # imageRows'[e] PROVE Unconfirmed(e)'
    BY <2>1, <1>a, <1>2, <1>3, <1>8, <1>10 DEF AuthorInv
  <2>2. ASSUME NEW q \in Request, alive'[q], pc'[q] \in {"stored", "replaced"}
        PROVE  Unconfirmed(DocOf(q))'
    <3>1. DocOf(q)' = DocOf(q) /\ DocOf(q) \in Doc
      BY <1>5
    <3>2. \E e \in Doc : e = DocOf(q) /\ Unconfirmed(e)'
      <4>1. CASE q = r
        BY <4>1, <3>1, <1>0, <1>8
      <4>2. CASE q # r
        BY <4>2, <2>2, <3>1, <1>4, <1>10, <1>a DEF AuthorInv
      <4> QED
        BY <4>1, <4>2
    <3> QED
      BY <3>1, <3>2 DEF Unconfirmed, MadeBy
  <2> QED
    BY <2>1, <2>2 DEF AuthorInv
<1> QED
  BY <1>4, <1>7, <1>9, <1>11 DEF IInv

(* A commit in the main database: nobody else has the lock, and the pages  *)
(* in the image database are the same or those of an unconfirmed request.  *)
LEMMA CommitMainInv ==
  ASSUME IInv, NEW r \in Request, CommitMain(r) \/ CommitMainUnheard(r)
  PROVE  IInv'
<1>a. TypeOK /\ LockInv /\ DoomedInv /\ PhaseInv /\ MadeInv /\ AuthorInv
  BY DEF IInv
<1>0. PICK d \in Doc : d = DocOf(r)
  BY <1>a, Typed
<1>1. d \in Doc /\ RowsOf(r) \in SUBSET Row /\ doomed[r] = mainRows[d]
      /\ mainLock[d] = r /\ pc[r] = "replaced" /\ alive[r] /\ Unconfirmed(d)
  BY <1>a, <1>0, Typed DEF CommitMain, CommitMainUnheard, DoomedInv, LockInv, AuthorInv
<1>2. mainRows' = [mainRows EXCEPT ![d] = (mainRows[d] \ doomed[r]) \cup RowsOf(r)]
      /\ imageRows' = imageRows
  BY <1>0 DEF CommitMain, CommitMainUnheard, Replaced
<1>3. /\ imageRows' \in [Doc -> SUBSET Row] /\ mainRows' \in [Doc -> SUBSET Row]
      /\ mainRows'[d] = RowsOf(r)
      /\ \A e \in Doc : e # d => mainRows'[e] = mainRows[e]
  BY <1>1, <1>2, <1>a DEF TypeOK
<1>4. PICK a \in {"ok", "failed"} : EndWith(r, a)
  BY DEF CommitMain, CommitMainUnheard
<1>5. /\ TypeOK' /\ LockInv' /\ PhaseInv'
      /\ call' = call /\ pc'[r] = "done" /\ outcome'[r] = a /\ ~alive'[r]
      /\ \A q \in Request : q # r => /\ pc'[q] = pc[q] /\ outcome'[q] = outcome[q]
                                     /\ alive'[q] = alive[q] /\ doomed'[q] = doomed[q]
  <2>1. a \in Outcome
    BY DEF Outcome
  <2> QED
    BY <2>1, <1>3, <1>4, EndKeeps
<1>6. \A q \in Request : RowsOf(q)' = RowsOf(q) /\ DocOf(q)' = DocOf(q) /\ DocOf(q) \in Doc
  BY <1>5, <1>a, Typed DEF RowsOf, DocOf
<1>7. \A q \in Request : q # r /\ alive[q] /\ pc[q] \in {"stored", "replaced"} => DocOf(q) # d
  BY <1>1, <1>a DEF LockInv
<1>8. DoomedInv'
  BY <1>a, <1>2, <1>3, <1>5, <1>6, <1>7 DEF DoomedInv
<1>9. MadeInv'
  <2>1. ASSUME NEW e \in Doc PROVE Made(mainRows, e)'
    <3>1. CASE e = d
      BY <3>1, <1>0, <1>3, <1>5, <1>6 DEF Made, MadeBy
    <3>2. CASE e # d
      BY <3>2, <1>a, <1>1, <1>3, <1>5, <1>6, <1>0 DEF MadeInv, Made, MadeBy
    <3> QED
      BY <3>1, <3>2
  <2>2. ASSUME NEW e \in Doc PROVE Made(imageRows, e)'
    BY <1>a, <1>1, <1>2, <1>5, <1>6 DEF MadeInv, Made, MadeBy
  <2> QED
    BY <2>1, <2>2 DEF MadeInv
<1>10. \A e \in Doc : e # d /\ Unconfirmed(e) => Unconfirmed(e)'
  BY <1>0, <1>2, <1>5, <1>6 DEF Unconfirmed, MadeBy
<1>11. mainRows'[d] = imageRows'[d] \/ Unconfirmed(d)'
  <2>1. PICK q \in Request : MadeBy(imageRows, d, q) /\ outcome[q] \in {"none", "failed"}
    BY <1>1 DEF Unconfirmed
  <2>2. CASE q = r
    BY <2>1, <2>2, <1>2, <1>3 DEF MadeBy
  <2>3. CASE q # r
    BY <2>1, <2>3, <1>2, <1>5, <1>6 DEF Unconfirmed, MadeBy
  <2> QED
    BY <2>2, <2>3
<1>12. AuthorInv'
  <2>1. ASSUME NEW e \in Doc, mainRows'[e] # imageRows'[e] PROVE Unconfirmed(e)'
    BY <2>1, <1>a, <1>2, <1>3, <1>10, <1>11 DEF AuthorInv
  <2>2. ASSUME NEW q \in Request, alive'[q], pc'[q] \in {"stored", "replaced"}
        PROVE  Unconfirmed(DocOf(q))'
    <3>1. q # r /\ DocOf(q)' = DocOf(q) /\ DocOf(q) \in Doc /\ DocOf(q) # d
      BY <2>2, <1>5, <1>6, <1>7
    <3>2. \E e \in Doc : e = DocOf(q) /\ Unconfirmed(e)'
      BY <2>2, <3>1, <1>5, <1>10, <1>a DEF AuthorInv
    <3> QED
      BY <3>1, <3>2 DEF Unconfirmed, MadeBy
  <2> QED
    BY <2>1, <2>2 DEF AuthorInv
<1> QED
  BY <1>5, <1>8, <1>9, <1>12 DEF IInv

-----------------------------------------------------------------------------
LEMMA StutterInv == IInv /\ UNCHANGED vars => IInv'
BY DEF vars, IInv, TypeOK, LockInv, DoomedInv, PhaseInv, MadeInv, Made, MadeBy, AuthorInv,
       Unconfirmed, RowsOf, DocOf

LEMMA NextInv == IInv /\ [Next]_vars => IInv'
<1> SUFFICES ASSUME IInv, [Next]_vars PROVE IInv'
  OBVIOUS
<1>1. ASSUME NEW r \in Request, Receive(r) PROVE IInv'
  BY <1>1, ReceiveInv
<1>2. ASSUME NEW r \in Request, Step(r) PROVE IInv'
  BY <1>2, QuietInv, CommitImagesInv, CommitMainInv, EndInv DEF Step
<1>3. ASSUME NEW r \in Request, NotFound(r) \/ Fail(r) PROVE IInv'
  BY <1>3, EndInv
<1>4. ASSUME NEW r \in Request, CommitImagesUnheard(r) \/ CommitMainUnheard(r) PROVE IInv'
  BY <1>4, CommitImagesInv, CommitMainInv
<1>5. ASSUME NEW r \in Request, LoseMain(r) PROVE IInv'
  BY <1>5, LoseMainInv
<1>6. CASE UNCHANGED vars
  BY <1>6, StutterInv
<1> QED
  BY <1>1, <1>2, <1>3, <1>4, <1>5, <1>6 DEF Next

LEMMA Invariance == Spec => []IInv
<1>1. IInv /\ [Next]_vars => IInv'
  BY NextInv
<1> QED
  BY <1>1, InitInv, PTL DEF Spec

-----------------------------------------------------------------------------
(* The variables keep their types through every interleaving of the        *)
(* replacements of document_image.go.                                      *)
THEOREM ImageTypes == Spec => []TypeOK
<1>1. IInv => TypeOK
  BY DEF IInv
<1> QED
  BY <1>1, Invariance, PTL

(* Retries and concurrent replacements never mix or double the pages of a  *)
(* document, in either database, not even when the main transaction of a   *)
(* request is lost with its lock.                                          *)
THEOREM PagesNeverMix == Spec => []OneSnapshot
<1>1. IInv => OneSnapshot
  BY DEF IInv, MadeInv, Made, MadeBy, OneSnapshot, Whole
<1> QED
  BY <1>1, Invariance, PTL

(* Two databases that disagree are always known to a client that was not   *)
(* told "ok": the handler never confirms pages and leaves them behind in   *)
(* one database only.                                                      *)
THEOREM DivergenceIsKnown == Spec => []DivergenceIsReported
<1>1. IInv => DivergenceIsReported
  BY DEF IInv, AuthorInv, Unconfirmed, MadeBy, DivergenceIsReported
<1> QED
  BY <1>1, Invariance, PTL

-----------------------------------------------------------------------------
(* The run in which one of the two runs and the other rests is a behaviour *)
(* of each, so that whatever is proved of either holds in it.              *)
THEOREM EachRunsAlone == MCInit /\ [][MCNext]_allVars => ServiceSpec /\ Spec
<1>1. MCInit => ServiceInit /\ Init
  BY DEF MCInit
<1>2. [MCNext]_allVars => [ServiceNext]_serviceVars /\ [Next]_vars
  BY DEF MCNext, allVars
<1> QED
  BY <1>1, <1>2, PTL DEF ServiceSpec, Spec

(* The variables of the gate, of the pools and of the replacements keep    *)
(* their types in that run, whatever its constants.                        *)
THEOREM BothKeepTheirTypes == MCFairSpec => []BothTypeOK
<1>1. MCFairSpec => ServiceSpec /\ Spec
  BY EachRunsAlone DEF MCFairSpec
<1>2. GateTypeOK /\ PoolTypeOK /\ TypeOK => BothTypeOK
  BY DEF BothTypeOK
<1> QED
  BY <1>1, <1>2, GateTypeCorrect, PoolTypeCorrect, ImageTypes, PTL
=============================================================================
