------------------------------ MODULE StockSlots ------------------------------
(***************************************************************************)
(* What the gate of the stock calculations promises: a tenant has one      *)
(* calculation at a time, all tenants together at most Limit.              *)
(***************************************************************************)
EXTENDS Naturals, FiniteSets

CONSTANTS Request, Tenant, Limit,
  Idle  \* no request calculates for a tenant

VARIABLE busy  \* for each tenant the request that calculates

Busy == {t \in DOMAIN busy : busy[t] # Idle}

Init == busy = [t \in Tenant |-> Idle]

Start(r, t) ==
  /\ busy[t] = Idle
  /\ Cardinality(Busy) < Limit
  /\ busy' = [busy EXCEPT ![t] = r]

End(t) ==
  /\ busy[t] # Idle
  /\ busy' = [busy EXCEPT ![t] = Idle]

Next == \E t \in Tenant : End(t) \/ \E r \in Request : Start(r, t)

Spec == Init /\ [][Next]_busy
=============================================================================
