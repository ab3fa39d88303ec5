------------------------------- MODULE MCParts -------------------------------
(***************************************************************************)
(* The parts of the service that share nothing with one another, on small  *)
(* instances: in each behaviour one of them runs and the others rest, so   *)
(* their states add up.  Of the two calculations a behaviour is one input. *)
(***************************************************************************)
EXTENDS SignedOrder, TenantImages, SigningWatch, RelatedGraph, DetailDiff,
        SetAllocation, Transactions, MCArReceipt

VARIABLE part  \* which of them runs

allVars == <<part, signedVars, tenantVars, watchVars, graphVars, vars,
             transactionVars, lines, linesNow, setLine>>

CONSTANTS va, vb, none, zero

Creditor(n, o) == [field |-> "cust_code", new |-> n, old |-> o,
                   remark |-> NoValue, dry |-> FALSE]
Reference(n, o, m, d) == [field |-> "doc_ref", new |-> n, old |-> o,
                          remark |-> m, dry |-> d]

(* Two creditors, one of them no supplier and the other only if it         *)
(* replaces the first; a reference, with all that may be expected of it,   *)
(* and as a trial.                                                         *)
MCUpdates ==
  {Creditor(va, NoValue), Creditor(vb, va), Reference(vb, va, va, FALSE),
   Reference(vb, NoValue, NoValue, TRUE)}

MCHeaders == {[f \in Field \cup {"remark_5"} |-> va]}

(* Up to three references among four documents, circles among them; MCInit *)
(* has at most one document without a header, and asks for the first or    *)
(* the third.                                                              *)
MCLinkings == {s \in SUBSET Link : Cardinality(s) <= 3}

(* Lines with and without a code and a number; blank ones, numbered or     *)
(* not, with nothing or a zero; and pairs that only the rest tells apart,  *)
(* of lines that say something and of blank ones.                          *)
ScreenLine(m, n, c, x) == [item |-> m, line |-> n, content |-> c, rest |-> x]

MCLines ==
  {ScreenLine(va, vb, va, va), ScreenLine(va, vb, va, vb),
   ScreenLine(va, NoText, zero, va), ScreenLine(NoText, vb, va, va),
   ScreenLine(NoText, vb, zero, va), ScreenLine(NoText, vb, none, va),
   ScreenLine(NoText, NoText, va, va), ScreenLine(NoText, NoText, none, va),
   ScreenLine(NoText, NoText, none, vb)}

Parts == {"order", "tenant", "watch", "graph", "diff", "set", "receipt",
          "transaction"}

MCInit ==
  /\ part \in Parts
  /\ SignedInit
  /\ IF part = "tenant" THEN shape \in [Db -> Shape]
     ELSE shape = [d \in Db |-> "complete"]
  /\ TenantInit
  /\ WatchInit
  /\ Init
  /\ TransactionsInit
  /\ IF part = "graph"
     THEN root \in {1, 3}
     ELSE link = {} /\ root = 1 /\ depth = 1 /\ present = {1}
  /\ GraphInit
  /\ part = "graph" => Cardinality(Doc \ present) <= 1
  /\ IF part = "diff" THEN DiffInit /\ Len(lines) >= Len(linesNow)
     ELSE lines = <<>> /\ linesNow = <<>>
  /\ IF part = "set" THEN AllocInit
     ELSE setLine = [net |-> 0, vat |-> 0, weights |-> <<1>>]

MCNext ==
  /\ UNCHANGED <<part, lines, linesNow, setLine>>
  /\ \/ /\ part = "order" /\ SignedNext
        /\ UNCHANGED <<tenantVars, watchVars, graphVars, vars,
                       transactionVars>>
     \/ /\ part = "tenant" /\ TenantNext
        /\ UNCHANGED <<signedVars, watchVars, graphVars, vars, transactionVars>>
     \/ /\ part = "watch" /\ WatchNext
        /\ UNCHANGED <<signedVars, tenantVars, graphVars, vars, transactionVars>>
     \/ /\ part = "graph" /\ GraphNext
        /\ UNCHANGED <<signedVars, tenantVars, watchVars, vars, transactionVars>>
     \/ /\ part = "receipt" /\ Next
        /\ UNCHANGED <<signedVars, tenantVars, watchVars, graphVars,
                       transactionVars>>
     \/ /\ part = "transaction" /\ TransactionsNext
        /\ UNCHANGED <<signedVars, tenantVars, watchVars, graphVars, vars>>

MCSpec == MCInit /\ [][MCNext]_allVars

(* The variables of all parts have their types.                            *)
PartsTypeOK ==
  /\ OrderTypeOK /\ SignTypeOK /\ TenantTypeOK /\ WatchTypeOK /\ GraphTypeOK
  /\ TypeOK /\ TransactionsTypeOK

(* Writer, Caller, Request and Client are one set. *)
Symmetry == Permutations(Request)
=============================================================================
