------------------------------ MODULE MCErpLog ------------------------------
(* Small instances of ErpLog for TLC. *)
EXTENDS ErpLog

CONSTANTS k1, k2, b1, b2

(* Two payloads of one document, and another document. *)
MCJobs ==
  {[key |-> k1, profile |-> FALSE, body |-> b1],
   [key |-> k1, profile |-> TRUE, body |-> b1],
   [key |-> k1, profile |-> TRUE, body |-> b2],
   [key |-> k2, profile |-> FALSE, body |-> b1]}
=============================================================================
