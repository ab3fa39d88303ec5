------------------------- MODULE MCSaleCancellation -------------------------
(* Small instances of SaleCancellation for TLC. *)
EXTENDS SaleCancellation, TLC

CONSTANTS i1, i2, o1, n1, n2, pay1, pay2

Profile(k, s, n, p) ==
  [kind |-> k, src |-> s, no |-> n, profile |-> TRUE, intent |-> p,
   timed |-> TRUE, preview |-> FALSE]
Legacy(k, s, n) == [Profile(k, s, n, pay1) EXCEPT !.profile = FALSE]
Untimed(k, s, n, p) == [Profile(k, s, n, p) EXCEPT !.timed = FALSE]
Preview(c) == [c EXCEPT !.preview = TRUE]

(* One invoice: a void and its retry, the same with another body and with  *)
(* another number, the legacy void, the credit note, a preview.            *)
InvoiceCalls ==
  {Profile("void", i1, n1, pay1), Profile("void", i1, n2, pay2),
   Legacy("void", i1, n1), Profile("credit", i1, n1, pay1),
   Preview(Profile("credit", i1, n1, pay1)), Untimed("void", i1, n1, pay1)}

(* A void and a credit note of one invoice, another invoice that wants the *)
(* same number, and an order.                                              *)
NumberCalls ==
  {Profile("void", i1, n1, pay1), Profile("credit", i1, n1, pay1),
   Profile("credit", i2, n1, pay1),
   Profile("ssc", o1, n1, pay1), Profile("ssc", o1, n2, pay1)}

(* One invoice voided with and without a time in the body, while the clock *)
(* moves, under either number and with two bodies.                         *)
ClockCalls ==
  {Untimed("void", i1, n1, pay1), Untimed("void", i1, n2, pay1),
   Profile("void", i1, n1, pay1), Profile("void", i1, n1, pay2)}

Symmetry == Permutations(Request)
=============================================================================
