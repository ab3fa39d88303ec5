---------------------------- MODULE DocumentLock ----------------------------
(***************************************************************************)
(* Freezing a signed document (internal/handlers/lock.go): two probes for  *)
(* the active row with the number, then an UPDATE of that row.  There is   *)
(* no transaction around them: each statement commits by itself and sees   *)
(* what is committed when it starts.                                       *)
(***************************************************************************)
EXTENDS OrderRow

CONSTANTS
  Signer,  \* requests to lock the document
  NoRow    \* no row found

ASSUME SignerAssumption == NoRow \notin Row

SignStage == {"idle", "probed", "found", "answered"}
SignAnswer == {"none", "locked", "already_locked", "not_found", "no_rows",
               "failed"}

VARIABLES
  signStage, \* progress of each request
  at,        \* the row it has found
  signed     \* what it answered

signVars == <<signStage, at, signed>>

SignInit ==
  /\ signStage = [q \in Signer |-> "idle"]
  /\ at = [q \in Signer |-> NoRow]
  /\ signed = [q \in Signer |-> "none"]

SignEnd(q, answer) ==
  /\ signStage' = [signStage EXCEPT ![q] = "answered"]
  /\ signed' = [signed EXCEPT ![q] = answer]

(* An active row: its lock is read with it, and is the answer if it is 1.  *)
Locate(q, x) ==
  /\ Active(x)
  /\ at' = [at EXCEPT ![q] = x]
  /\ IF x \in frozen
     THEN SignEnd(q, "already_locked")
     ELSE /\ signStage' = [signStage EXCEPT ![q] = "found"]
          /\ UNCHANGED signed

ProbeTrans(q) ==
  /\ signStage[q] = "idle"
  /\ \/ \E x \in InTrans : Locate(q, x)
     \/ /\ \A x \in InTrans : ~Active(x)
        /\ signStage' = [signStage EXCEPT ![q] = "probed"]
        /\ UNCHANGED <<at, signed>>
  /\ UNCHANGED rowVars

(* Mutant: an error code of its own for bills. *)
ProbeBillsOtherCode(q) ==
  /\ signStage[q] = "probed"
  /\ \/ Locate(q, "bill")
     \/ ~Active("bill") /\ SignEnd(q, "bill_not_found") /\ UNCHANGED at
  /\ UNCHANGED rowVars

ProbeBills(q) ==
  /\ signStage[q] = "probed"
  /\ \/ Locate(q, "bill")
     \/ ~Active("bill") /\ SignEnd(q, "not_found") /\ UNCHANGED at
  /\ UNCHANGED rowVars

(* Mutant: the UPDATE is not asked how many rows it changed. *)
FreezeBlindly(q) ==
  /\ signStage[q] = "found" /\ (at[q] = "purchase" => rowLock = Unlocked)
  /\ frozen' = IF Active(at[q]) THEN frozen \cup {at[q]} ELSE frozen
  /\ SignEnd(q, "locked")
  /\ UNCHANGED <<at, status, header, detail, writtenBy, rowLock>>

(* The UPDATE waits for the row, and changes it if it is still active. *)
Freeze(q) ==
  /\ signStage[q] = "found" /\ (at[q] = "purchase" => rowLock = Unlocked)
  /\ IF Active(at[q])
     THEN frozen' = frozen \cup {at[q]} /\ SignEnd(q, "locked")
     ELSE UNCHANGED frozen /\ SignEnd(q, "no_rows")
  /\ UNCHANGED <<at, status, header, detail, writtenBy, rowLock>>

(* A statement fails or the deadline passes; the UPDATE may have taken     *)
(* effect nevertheless.                                                    *)
SignFail(q) ==
  /\ signStage[q] # "answered"
  /\ SignEnd(q, "failed")
  /\ \/ UNCHANGED frozen
     \/ /\ signStage[q] = "found" /\ Active(at[q])
        /\ at[q] = "purchase" => rowLock = Unlocked
        /\ frozen' = frozen \cup {at[q]}
  /\ UNCHANGED <<at, status, header, detail, writtenBy, rowLock>>

SignStep(q) == ProbeTrans(q) \/ ProbeBills(q) \/ Freeze(q)

-----------------------------------------------------------------------------
SignTypeOK ==
  /\ signStage \in [Signer -> SignStage]
  /\ at \in [Signer -> Row \cup {NoRow}]
  /\ signed \in [Signer -> SignAnswer]

(* Who is told that the document is locked may rely on it: the row that    *)
(* the answer names carries the lock, though it was found in one statement *)
(* and changed in another, and was perhaps cancelled or locked by somebody *)
(* else in between.                                                        *)
LockAnswersAreTrue ==
  \A q \in Signer : signed[q] \in {"locked", "already_locked"} => at[q] \in frozen
=============================================================================
