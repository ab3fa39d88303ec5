----------------------------- MODULE MCArReceipt -----------------------------
(* Small instances of ArReceipt for TLC. *)
EXTENDS ArReceipt, TLC

CONSTANTS o1, o2, i1, i2

MCOrderOf == i1 :> o1 @@ i2 :> o2

(* One order with a number, two without one: the second names the invoice  *)
(* of the first.                                                           *)
MCReceiptCalls == {[number |-> 1, lines |-> o1 :> i1],
            [number |-> NoNumber, lines |-> o1 :> NoInvoice @@ o2 :> i1]}

(* Calls for one invoice. *)
MCOneInvoice == {[number |-> NoNumber, lines |-> o1 :> NoInvoice],
                 [number |-> 2, lines |-> o1 :> i1]}
=============================================================================
