----------------------------- MODULE SignedOrder -----------------------------
(***************************************************************************)
(* A purchase order while it is changed by some requests, frozen by        *)
(* others, and edited and cancelled in the ERP.  The requests meet at the  *)
(* row: the UPDATE that freezes it waits for a change, and the other way   *)
(* round.                                                                  *)
(***************************************************************************)
EXTENDS PurchaseOrderUpdate, DocumentLock

signedVars == <<rowVars, orderVars, signVars>>

SignedInit == RowInit /\ OrderInit /\ SignInit

SignedNext ==
  \/ OrderNext /\ UNCHANGED signVars
  \/ \E q \in Signer : (SignStep(q) \/ SignFail(q)) /\ UNCHANGED orderVars
  \/ ErpStep /\ UNCHANGED <<orderVars, signVars>>

SignedSpec == SignedInit /\ [][SignedNext]_signedVars

(* What the requests about an order were told holds on: a change stands,   *)
(* the log has it, a frozen document is frozen (write.go, lock.go).        *)
OrderAnswersHold == AnsweredChangesStand /\ LogFollowsOrder /\ LockAnswersAreTrue
=============================================================================
