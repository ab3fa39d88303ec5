--------------------------- MODULE MCProfileWrite ---------------------------
(* Small instances of ProfileWrite for TLC. *)
EXTENDS ProfileWrite, TLC

CONSTANTS k1, c1, h1, f1, f2

B(f) == [core |-> c1, head |-> h1, fine |-> f]

(* A legacy call, and two payloads that only their hashes tell apart. *)
MCCalls ==
  {[key |-> k1, profile |-> FALSE, body |-> B(f1)],
   [key |-> k1, profile |-> TRUE, body |-> B(f1)],
   [key |-> k1, profile |-> TRUE, body |-> B(f2)]}

Symmetry == Permutations(Request)
=============================================================================
