---------------------------- MODULE SetAllocation ----------------------------
(***************************************************************************)
(* How a line for a set of products is split into lines for its components *)
(* (AllocateCents in internal/setproducts/setproducts.go, called three     *)
(* times by prepareDocumentItems in internal/handlers/compat/write.go).    *)
(* Amounts are whole cents.  Shares are rounded half up, away from zero,   *)
(* and the last component gets what is left.                               *)
(***************************************************************************)
EXTENDS Integers, Sequences, SequencesExt

CONSTANTS
  Weight,         \* weights of components, by WeightMethod
  MaxComponents,  \* bound
  MaxNet, MaxVat  \* bounds: cents of a line

ASSUME WeightAssumption ==
  /\ Weight \subseteq Nat \ {0}
  /\ MaxComponents \in Nat /\ MaxNet \in Nat /\ MaxVat \in Nat

VARIABLE setLine  \* a line: its amounts, the weights of its components

AllocInit ==
  \E w \in BoundedSeq(Weight, MaxComponents) \ {<<>>}, n \in 0 .. MaxNet, v \in 0 .. MaxVat :
    setLine = [net |-> n, vat |-> v, weights |-> w]

Total(s) ==
  LET upTo[k \in 0 .. Len(s)] == IF k = 0 THEN 0 ELSE upTo[k - 1] + s[k]
  IN  upTo[Len(s)]

(* Not the code: what is over is dropped.                                  *)
roundDown(n, d) == n \div d

(* roundRatToInt64; amounts are not negative here.                         *)
roundRat(n, d) == n \div d + (IF 2 * (n % d) >= d THEN 1 ELSE 0)

Share(total, weights, i) == roundRat(total * weights[i], Total(weights))

(* Not the code: the last share is one like the others.                    *)
AllocateRounded(total, weights) ==
  [i \in DOMAIN weights |-> Share(total, weights, i)]

AllocateCents(total, weights) ==
  LET n == Len(weights)
      first == [i \in 1 .. n - 1 |-> Share(total, weights, i)]
  IN  Append(first, total - Total(first))

(* Not the code: the tax is split evenly.                                  *)
ComponentsTaxedEvenly(s) ==
  [sum |-> AllocateCents(s.net + s.vat, s.weights),
   net |-> AllocateCents(s.net, s.weights),
   vat |-> AllocateCents(s.vat, [i \in DOMAIN s.weights |-> 1])]

(* prepareDocumentItems: sum_amount, sum_amount_exclude_vat and            *)
(* total_vat_value of the components, each split by itself.                *)
Components(s) ==
  [sum |-> AllocateCents(s.net + s.vat, s.weights),
   net |-> AllocateCents(s.net, s.weights),
   vat |-> AllocateCents(s.vat, s.weights)]

-----------------------------------------------------------------------------
Gap(a, b) == IF a > b THEN a - b ELSE b - a

(* No cent is lost or made, in none of the three amounts                   *)
(* (setproducts_test.go:25).                                               *)
CentsAreKept ==
  LET c == Components(setLine)
  IN  /\ Total(c.sum) = setLine.net + setLine.vat
      /\ Total(c.net) = setLine.net
      /\ Total(c.vat) = setLine.vat

(* Each share is within half a cent of what is due by weight, and the last *)
(* one within half a cent for each of the others; it is negative only if   *)
(* less than that was due to it.                                           *)
SharesAreDue ==
  LET w == setLine.weights
      share == AllocateCents(setLine.net, w)
  IN  \A i \in DOMAIN w :
        2 * Gap(share[i] * Total(w), setLine.net * w[i])
          <= Total(w) * (IF i < Len(w) THEN 1 ELSE Len(w) - 1)

(* The amounts are split separately and rounded three times: of a          *)
(* component other than the last, net and tax add up to the sum, give or   *)
(* take a cent.                                                            *)
ComponentsAddUp ==
  LET c == Components(setLine)
  IN  \A i \in 1 .. Len(setLine.weights) - 1 :
        Gap(c.sum[i], c.net[i] + c.vat[i]) <= 1

(* A set costs what it costs and each component its part of it, in all     *)
(* three amounts (AllocateCents, prepareDocumentItems).                    *)
SplitIsFair == CentsAreKept /\ SharesAreDue /\ ComponentsAddUp
=============================================================================
