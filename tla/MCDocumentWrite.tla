-------------------------- MODULE MCDocumentWrite --------------------------
(* Small instances of DocumentWrite for TLC. *)
EXTENDS DocumentWrite, TLC

CONSTANTS k1, k2, c1, c2, h1, h2, f1, f2

B(c, h, f) == [core |-> c, head |-> h, fine |-> f]
Profile(k, b) == [key |-> k, profile |-> TRUE, body |-> b]
Legacy(k, b) == [key |-> k, profile |-> FALSE, body |-> b]

(* Two calls that race for a number, with their retries. *)
RaceCalls == {Profile(k1, B(c1, h1, f1)), Profile(k1, B(c1, h1, f2)),
              Legacy(k1, B(c1, h1, f1))}

=============================================================================
