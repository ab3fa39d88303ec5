----------------------------- MODULE CancelOnce -----------------------------
(***************************************************************************)
(* What the cancellation endpoints promise, without transactions,          *)
(* snapshots or locks: a source is cancelled in one step, by one document  *)
(* and for good; a request is told that it created the cancellation only   *)
(* in the step in which it does; and "already exists" is only ever said of *)
(* a cancellation that is there.                                           *)
(***************************************************************************)
CONSTANTS Request, Source, Document

VARIABLES
  outcome,  \* the cancellation documents of each source
  answer    \* what each request was told

Answer == {"none", "created", "already_exists", "refused", "lost"}

Init ==
  /\ outcome = [s \in Source |-> {}]
  /\ answer = [r \in Request |-> "none"]

Cancelled(s, d) ==
  /\ outcome[s] = {}
  /\ outcome' = [outcome EXCEPT ![s] = {d}]

(* A request cancels a source and is told so. *)
Create(r, s) ==
  /\ answer[r] = "none"
  /\ \E d \in Document : Cancelled(s, d)
  /\ answer' = [answer EXCEPT ![r] = "created"]

(* Somebody else cancels a source. *)
Elsewhere(s) ==
  /\ \E d \in Document : Cancelled(s, d)
  /\ UNCHANGED answer

Confirm(r, s) ==
  /\ answer[r] = "none"
  /\ outcome[s] # {}
  /\ answer' = [answer EXCEPT ![r] = "already_exists"]
  /\ UNCHANGED outcome

Refuse(r) ==
  /\ answer[r] = "none"
  /\ answer' = [answer EXCEPT ![r] = "refused"]
  /\ UNCHANGED outcome

(* The client never sees an answer that was given. *)
Lose(r) ==
  /\ answer[r] \in {"created", "already_exists"}
  /\ answer' = [answer EXCEPT ![r] = "lost"]
  /\ UNCHANGED outcome

Next ==
  \/ \E r \in Request, s \in Source : Create(r, s) \/ Confirm(r, s)
  \/ \E r \in Request : Refuse(r) \/ Lose(r)
  \/ \E s \in Source : Elsewhere(s)

Spec == Init /\ [][Next]_<<outcome, answer>>
=============================================================================
