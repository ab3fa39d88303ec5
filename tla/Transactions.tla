----------------------------- MODULE Transactions -----------------------------
(***************************************************************************)
(* The endpoints for documents of any kind                                 *)
(* (internal/handlers/transaction.go): a client asks for the next number   *)
(* (internal/handlers/doc_no.go), sends a document with it, is refused if  *)
(* the number is taken, and sends it again if it hears of a failure.  The  *)
(* ERP files and voids documents of the kind beside it.                    *)
(***************************************************************************)
EXTENDS Naturals

CONSTANTS
  Client,    \* clients that create documents
  ErpUser,   \* whose documents the ERP files
  Nil,       \* no document has the number
  LastSeq,   \* bound: the largest number
  FirstLong, \* the first number that takes more digits than the format has
  LineCount  \* lines of a document

ASSUME TransactionsAssumption ==
  /\ ErpUser \notin Client /\ Nil \notin Client /\ Nil # ErpUser
  /\ LastSeq \in Nat \ {0} /\ LineCount \in Nat \ {0}

SeqNo == 1 .. LastSeq
CreateAnswer == {"none", "created", "exists", "failed"}

VARIABLES
  filed,   \* for each number who filed its document; the number is unique
  lineRows, \* lines of the document that are committed
  voided,  \* numbers of cancelled documents (last_status)
  creating, wants, inserted, \* progress of each client's call, its number, lines
  answered, \* what the client was told last
  offer,   \* the number it was offered
  usedThen, \* the numbers of active documents at that time (history)
  reading, reads, sees  \* Get: its stage, the number, the lines it found

filedVars == <<filed, lineRows, voided>>
offerVars == <<offer, usedThen>>
readVars == <<reading, reads, sees>>
transactionVars ==
  <<filedVars, creating, wants, inserted, answered, offerVars, readVars>>

TransactionsInit ==
  /\ filed = [n \in SeqNo |-> Nil]
  /\ lineRows = [n \in SeqNo |-> 0]
  /\ voided = {}
  /\ creating = [c \in Client |-> "idle"]
  /\ wants = [c \in Client |-> 1]
  /\ inserted = [c \in Client |-> 0]
  /\ answered = [c \in Client |-> "none"]
  /\ offer = [c \in Client |-> 0]
  /\ usedThen = [c \in Client |-> {}]
  /\ reading = "no" /\ reads = 1 /\ sees = 0

Filed == {n \in SeqNo : filed[n] # Nil}
Standing == Filed \ voided

Largest(s) == IF s = {} THEN 0 ELSE CHOOSE n \in s : \A m \in s : m <= n

-----------------------------------------------------------------------------
(* Not the code: the first row of ORDER BY doc_no DESC, where a number with *)
(* more digits comes after those with fewer.                               *)
NextByText ==
  LET short == {n \in Standing : n < FirstLong}
  IN  1 + Largest(IF short = {} THEN Standing ELSE short)

(* nextDocNoFromExisting: one more than the largest number of an active    *)
(* document, however many digits it has.                                   *)
NextSeq == 1 + Largest(Standing)

AskNext(c) ==
  /\ creating[c] = "idle" /\ NextSeq <= LastSeq
  /\ offer[c] = 0 \/ answered[c] = "exists"
  /\ offer' = [offer EXCEPT ![c] = NextSeq]
  /\ usedThen' = [usedThen EXCEPT ![c] = Standing]
  /\ answered' = [answered EXCEPT ![c] = "none"]
  /\ UNCHANGED <<filedVars, creating, wants, inserted, readVars>>

(* A client uses what it was offered, or a number of its own.              *)
SendCreate(c, n) ==
  /\ creating[c] = "idle"
  /\ creating' = [creating EXCEPT ![c] = "header"]
  /\ wants' = [wants EXCEPT ![c] = n]
  /\ answered' = [answered EXCEPT ![c] = "none"]
  /\ UNCHANGED <<filedVars, inserted, offerVars, readVars>>

(* The call of c ends, and its transaction with it; the offer is kept for  *)
(* a retry.                                                                *)
Reply(c, a) ==
  /\ answered' = [answered EXCEPT ![c] = a]
  /\ creating' = [creating EXCEPT ![c] = "idle"]
  /\ inserted' = [inserted EXCEPT ![c] = 0]
  /\ IF a = "created"
       THEN /\ offer' = [offer EXCEPT ![c] = 0]
            /\ usedThen' = [usedThen EXCEPT ![c] = {}]
       ELSE UNCHANGED offerVars
  /\ UNCHANGED <<wants, readVars>>

(* Not the code: nobody waits for an index entry that is not committed.    *)
HeaderWithoutWaiting(c) ==
  /\ creating[c] = "header"
  /\ IF filed[wants[c]] # Nil
       THEN Reply(c, "exists")
       ELSE /\ creating' = [creating EXCEPT ![c] = "lines"]
            /\ UNCHANGED <<wants, inserted, answered, offerVars, readVars>>
  /\ UNCHANGED filedVars

(* Not the code: no transaction around the statements.                     *)
HeaderAtOnce(c) ==
  /\ creating[c] = "header"
  /\ IF filed[wants[c]] # Nil
       THEN Reply(c, "exists") /\ UNCHANGED filedVars
       ELSE /\ creating' = [creating EXCEPT ![c] = "lines"]
            /\ filed' = [filed EXCEPT ![wants[c]] = c]
            /\ UNCHANGED <<lineRows, voided, wants, inserted, answered, offerVars,
                           readVars>>

(* INSERT INTO ic_trans: it waits for whoever has inserted the number and  *)
(* not committed, and the number of a cancelled document is taken too.     *)
InsertHeader(c) ==
  /\ creating[c] = "header"
  /\ \A q \in Client : creating[q] = "lines" => wants[q] # wants[c]
  /\ IF filed[wants[c]] # Nil
       THEN Reply(c, "exists")
       ELSE /\ creating' = [creating EXCEPT ![c] = "lines"]
            /\ UNCHANGED <<wants, inserted, answered, offerVars, readVars>>
  /\ UNCHANGED filedVars

InsertLine(c) ==
  /\ creating[c] = "lines" /\ inserted[c] < LineCount
  /\ inserted' = [inserted EXCEPT ![c] = @ + 1]
  /\ UNCHANGED <<filedVars, creating, wants, answered, offerVars, readVars>>

(* Not the code: the commit is in the loop over the lines.                 *)
CommitInLoop(c, a) ==
  /\ creating[c] = "lines" /\ inserted[c] > 0
  /\ filed' = [filed EXCEPT ![wants[c]] = c]
  /\ lineRows' = [lineRows EXCEPT ![wants[c]] = inserted[c]]
  /\ Reply(c, a)
  /\ UNCHANGED voided

(* The commit takes effect; the client hears of it, or of a failure.       *)
CommitCreate(c, a) ==
  /\ creating[c] = "lines" /\ inserted[c] = LineCount
  /\ filed' = [filed EXCEPT ![wants[c]] = c]
  /\ lineRows' = [lineRows EXCEPT ![wants[c]] = inserted[c]]
  /\ Reply(c, a)
  /\ UNCHANGED voided

(* A statement fails, or the deadline passes: the deferred Rollback.       *)
FailCreate(c) ==
  /\ creating[c] # "idle"
  /\ Reply(c, "failed")
  /\ UNCHANGED filedVars

CreateStep(c) ==
  \/ InsertHeader(c) \/ InsertLine(c) \/ FailCreate(c)
  \/ \E a \in {"created", "failed"} : CommitCreate(c, a)

-----------------------------------------------------------------------------
(* Get reads the header and then, in another query, the lines.             *)
GetHeader(n) ==
  /\ reading = "no" /\ n \in Standing
  /\ reading' = "header" /\ reads' = n
  /\ UNCHANGED <<filedVars, creating, wants, inserted, answered, offerVars, sees>>

GetLines ==
  /\ reading = "header"
  /\ reading' = "lines"
  /\ sees' = IF reads \in voided THEN 0 ELSE lineRows[reads]
  /\ UNCHANGED <<filedVars, creating, wants, inserted, answered, offerVars, reads>>

ErpFiles(n) ==
  /\ filed[n] = Nil
  /\ \A c \in Client : creating[c] = "lines" => wants[c] # n
  /\ filed' = [filed EXCEPT ![n] = ErpUser]
  /\ lineRows' = [lineRows EXCEPT ![n] = LineCount]
  /\ UNCHANGED <<voided, creating, wants, inserted, answered, offerVars, readVars>>

ErpVoids(n) ==
  /\ n \in Standing
  /\ voided' = voided \cup {n}
  /\ UNCHANGED <<filed, lineRows, creating, wants, inserted, answered, offerVars,
                 readVars>>

TransactionsNext ==
  \/ \E c \in Client :
       \/ AskNext(c) \/ CreateStep(c)
       \/ \E n \in SeqNo : offer[c] \in {0, n} /\ SendCreate(c, n)
  \/ \E n \in SeqNo : GetHeader(n) \/ ErpFiles(n) \/ ErpVoids(n)
  \/ GetLines

TransactionsSpec == TransactionsInit /\ [][TransactionsNext]_transactionVars

-----------------------------------------------------------------------------
(* The variables have their types, and a document that is stored has all   *)
(* its lines.                                                              *)
TransactionsTypeOK ==
  /\ filed \in [SeqNo -> Client \cup {ErpUser, Nil}]
  /\ lineRows \in [SeqNo -> {0, LineCount}]
  /\ voided \subseteq Filed
  /\ creating \in [Client -> {"idle", "header", "lines"}]
  /\ wants \in [Client -> SeqNo]
  /\ inserted \in [Client -> 0 .. LineCount]
  /\ answered \in [Client -> CreateAnswer]
  /\ offer \in [Client -> 0 .. LastSeq]
  /\ usedThen \in [Client -> SUBSET SeqNo]
  /\ reading \in {"no", "header", "lines"} /\ reads \in SeqNo
  /\ sees \in 0 .. LineCount

(* A client that was told "created" has its document, whoever wanted the   *)
(* number at the same time; one that was told that the number exists will  *)
(* find a document, and not one that was rolled back (isUniqueViolation).  *)
CreateAnswersAreTrue ==
  \A c \in Client :
    /\ answered[c] = "created" => filed[wants[c]] = c
    /\ answered[c] = "exists" => filed[wants[c]] # Nil

(* Header and lines are read one after the other: a reader may miss the    *)
(* lines of a document that is cancelled in between, but it never sees     *)
(* some of them, nor a header whose lines are still to come                *)
(* (transaction.go:169, "within one transaction").                         *)
ReadsAreWhole ==
  reading = "lines" => sees = LineCount \/ (sees = 0 /\ reads \in voided)

(* Who is refused the number it was offered lost it to somebody who filed  *)
(* it meanwhile, or to a document that was cancelled already: the offer is *)
(* beyond all active documents, also when the digits of the format are     *)
(* used up (doc_no.go, "(\d{n,})").                                        *)
OfferWasFree ==
  \A c \in Client :
    answered[c] = "exists" /\ offer[c] = wants[c] => offer[c] \notin usedThen[c]

(* What clients are told, offered and shown of documents is so, whoever    *)
(* creates and voids them meanwhile (transaction.go, doc_no.go).           *)
DocumentsAreSound == CreateAnswersAreTrue /\ ReadsAreWhole /\ OfferWasFree
=============================================================================
