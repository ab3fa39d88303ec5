----------------------------- MODULE WriteOnce -----------------------------
(***************************************************************************)
(* What the write endpoints promise, without transactions, snapshots or    *)
(* locks: a call is decided in one step, by the document as it is then.  A *)
(* number is given to one document and for good; "created" is said to the  *)
(* call that made it, in that step; "already_exists" is said while the     *)
(* document is there and agrees with the call, and a call is refused       *)
(* because of a document only while that document stands in its way.       *)
(*                                                                         *)
(* A call that is told "internal_error" has done all of what it asked for  *)
(* or nothing: its client has to ask again.  A call told of any other      *)
(* failure has done nothing.                                               *)
(*                                                                         *)
(* The payloads of a document are those that calls with a profile were     *)
(* accepted with.  A document made with its profile has one for ever; of   *)
(* any other the specification does not promise so much.                   *)
(***************************************************************************)
CONSTANTS Request, Key, Core, Header, Calls, Edited, Erp, NoDoc

VARIABLES
  ask,       \* what each request asks for: nothing yet, or one call
  document,  \* the document of each number
  payloads,  \* the payloads accepted for it
  answer     \* what each request is told

Failure == {"rejected", "serialization_failure", "internal_error"}

Init ==
  /\ ask = [r \in Request |-> {}]
  /\ document = [k \in Key |-> NoDoc]
  /\ payloads = [k \in Key |-> {}]
  /\ answer = [r \in Request |-> "none"]

Active(k) == document[k] # NoDoc /\ document[k].active

(* A retry agrees with a document if it would make the same one; with a    *)
(* profile, if it would also make the same header.                         *)
Agrees(c, doc) ==
  doc.core = c.body.core /\ (c.profile => doc.head = c.body.head)

(* Somebody sent a payload for the document that is not that of c.         *)
OtherPayload(c) == c.profile /\ \E p \in payloads[c.key] : p # c.body

(* The document was made by a call with a profile, and has its payload.    *)
Sealed(k) == document[k].by # Erp /\ \E c \in ask[document[k].by] : c.profile

(* The call is told one of the words. *)
Told(r, words) ==
  /\ answer[r] = "none"
  /\ \E word \in words : answer' = [answer EXCEPT ![r] = word]
  /\ UNCHANGED ask

-----------------------------------------------------------------------------
Ask(r) ==
  /\ ask[r] = {}
  /\ \E c \in Calls : ask' = [ask EXCEPT ![r] = {c}]
  /\ UNCHANGED <<document, payloads, answer>>

Create(r, c) ==
  /\ document[c.key] = NoDoc
  /\ document' = [document EXCEPT ![c.key] =
                    [core |-> c.body.core, head |-> c.body.head,
                     active |-> TRUE, by |-> r]]
  /\ payloads' = [payloads EXCEPT ![c.key] = IF c.profile THEN {c.body} ELSE {}]
  /\ Told(r, {"created", "internal_error"})

(* The document is there and is the one asked for. *)
Confirm(r, c) ==
  /\ Active(c.key)
  /\ Agrees(c, document[c.key])
  /\ c.profile /\ Sealed(c.key) => payloads[c.key] = {c.body}
  /\ payloads' = [payloads EXCEPT ![c.key] =
                    IF c.profile THEN @ \cup {c.body} ELSE @]
  /\ UNCHANGED document
  /\ Told(r, {"already_exists", "internal_error"})

Refuse(r, c) ==
  /\ Active(c.key)
  /\ ~Agrees(c, document[c.key]) \/ OtherPayload(c)
  /\ UNCHANGED <<document, payloads>>
  /\ Told(r, {"payload_mismatch"})

(* A cancelled document keeps its number. *)
Taken(r, c) ==
  /\ document[c.key] # NoDoc /\ ~Active(c.key)
  /\ UNCHANGED <<document, payloads>>
  /\ Told(r, {"duplicate_doc_no"})

(* A call may always fail before it does anything. *)
Fail(r) ==
  /\ Told(r, Failure)
  /\ UNCHANGED <<document, payloads>>

(* The ERP makes documents, edits and cancels them; it gives none back.    *)
Elsewhere(k) ==
  /\ \/ /\ document[k] = NoDoc
        /\ \E c \in Core, h \in Header :
             document' = [document EXCEPT ![k] =
                            [core |-> c, head |-> h, active |-> TRUE,
                             by |-> Erp]]
     \/ /\ Active(k)
        /\ \/ document' = [document EXCEPT ![k].core = Edited]
           \/ document' = [document EXCEPT ![k].active = FALSE]
  /\ UNCHANGED <<ask, payloads, answer>>

Next ==
  \/ \E r \in Request :
       \/ Ask(r) \/ Fail(r)
       \/ \E c \in ask[r] :
            Create(r, c) \/ Confirm(r, c) \/ Refuse(r, c) \/ Taken(r, c)
  \/ \E k \in Key : Elsewhere(k)

Spec == Init /\ [][Next]_<<ask, document, payloads, answer>>
=============================================================================
