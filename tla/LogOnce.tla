------------------------------ MODULE LogOnce ------------------------------
(***************************************************************************)
(* What logging a document promises, without transactions, locks or a      *)
(* memory: a document has one row or none; a call adds it, gives a row     *)
(* without content its own, or finds it there, in one step, the one in     *)
(* which it is answered.  A call that warns may have done any of this, or  *)
(* nothing.  What a row says is never changed, and no row is lost.         *)
(***************************************************************************)
CONSTANTS Request, Key, Jobs, NoBody

VARIABLES
  ask,    \* what each request has to log: nothing yet, or one job
  entry,  \* the row of each document, if there is one
  answer  \* what each request is told

Init ==
  /\ ask = [r \in Request |-> {}]
  /\ entry = [k \in Key |-> {}]
  /\ answer = [r \in Request |-> "none"]

Told(r, words) ==
  /\ answer[r] = "none"
  /\ \E word \in words : answer' = [answer EXCEPT ![r] = word]

-----------------------------------------------------------------------------
Ask(r, j) ==
  /\ ask[r] = {}
  /\ ask' = [ask EXCEPT ![r] = {j}]
  /\ UNCHANGED <<entry, answer>>

(* A call that does not get through, perhaps from the outset.              *)
Warn(r) ==
  /\ \/ UNCHANGED ask
     \/ ask[r] = {} /\ \E j \in Jobs : ask' = [ask EXCEPT ![r] = {j}]
  /\ Told(r, {"warning"})
  /\ UNCHANGED entry

Add(r, j) ==
  /\ entry[j.key] = {}
  /\ entry' = [entry EXCEPT ![j.key] =
                 {[by |-> r, data |-> IF j.profile THEN j.body ELSE NoBody]}]
  /\ Told(r, {"created", "warning"})
  /\ UNCHANGED ask

(* A call with a profile gives a row without content its own.              *)
Fill(r, j) ==
  /\ j.profile
  /\ \E row \in entry[j.key] :
       /\ row.data = NoBody
       /\ entry' = [entry EXCEPT ![j.key] = {[row EXCEPT !.data = j.body]}]
  /\ Told(r, {"updated", "warning"})
  /\ UNCHANGED ask

Find(r, j) ==
  /\ \E row \in entry[j.key] : j.profile => row.data # NoBody
  /\ Told(r, {"skipped", "warning"})
  /\ UNCHANGED <<ask, entry>>

Next ==
  \E r \in Request :
    \/ Warn(r)
    \/ \E j \in Jobs : Ask(r, j)
    \/ \E j \in ask[r] : Add(r, j) \/ Fill(r, j) \/ Find(r, j)

Spec == Init /\ [][Next]_<<ask, entry, answer>>
=============================================================================
