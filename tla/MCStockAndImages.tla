-------------------------- MODULE MCStockAndImages --------------------------
(***************************************************************************)
(* StockService and DocumentImages, which share nothing, on small          *)
(* instances: in each behaviour one of them runs and the other rests.      *)
(***************************************************************************)
EXTENDS StockService, DocumentImages

VARIABLE part  \* which of them runs

allVars == <<part, serviceVars, vars>>

CONSTANTS r1, r2, r3, v1, t1, t2, q1, d1, d2, p1, p2

MCTenant == {t1, t2}

(* The same balances of two tenants; evidence of the first. *)
MCStockCalls ==
  {[tenant |-> t1, question |-> q1, shared |-> TRUE],
   [tenant |-> t2, question |-> q1, shared |-> TRUE],
   [tenant |-> t1, question |-> q1, shared |-> FALSE]}

(* One page, two pages, and another document. *)
MCImageCalls ==
  {[doc |-> d1, pages |-> {p1}], [doc |-> d1, pages |-> {p1, p2}],
   [doc |-> d2, pages |-> {p1}]}

MCInit == part \in {"stock", "images"} /\ ServiceInit /\ Init

(* Requests are interchangeable: they come in the order of their names.    *)
InOrder(progress) ==
  /\ progress[r2] # "idle" => progress[r1] # "idle"
  /\ progress[r3] # "idle" => progress[r2] # "idle"

(* The other handlers want the pool of the first tenant.                   *)
OneWish == visit[v1] # "out" => wanted[v1] = t1

MCNext ==
  /\ UNCHANGED part
  /\ \/ part = "stock" /\ ServiceNext /\ UNCHANGED vars
     \/ part = "images" /\ Next /\ UNCHANGED serviceVars
  /\ InOrder(stage)' /\ InOrder(pc)' /\ OneWish'

(* The variables of both have their types.                                 *)
BothTypeOK == GateTypeOK /\ PoolTypeOK /\ TypeOK

(* The fairness of both; who rests is asked nothing and has no step.       *)
MCFairSpec ==
  /\ MCInit /\ [][MCNext]_allVars
  /\ StockFairness /\ ImageFairness
=============================================================================
