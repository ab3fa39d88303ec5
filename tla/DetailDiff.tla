----------------------------- MODULE DetailDiff -----------------------------
(***************************************************************************)
(* What an edit changed in the lines of a document (diffERPDetail in       *)
(* internal/handlers/erp_log_diff.go): the lines of two snapshots of the   *)
(* ERP's screen are matched by item code and line number, not by position. *)
(* An empty difference lets a signed document pass (SigningWatch), so it   *)
(* must mean that nothing was edited, and a mere save must give one.       *)
(*                                                                         *)
(* Values are normalised already (normalizeERPValue): different texts of   *)
(* one number are one value here, and so are null and the empty string.    *)
(* An empty field and a zero are two values, which a comparison tells      *)
(* apart and the test for a blank line does not.                           *)
(***************************************************************************)
EXTENDS Naturals, Sequences, FiniteSets, SequencesExt

CONSTANTS
  Item,     \* item codes
  LineNo,   \* line numbers
  NoText,   \* an empty code or number
  Content,  \* name, quantity, price and amount, one of them given
  Void,     \* the same, the name empty and each number empty or zero
  Rest,     \* the other fields: discount, unit, warehouse, remark and so on
  Lines,    \* bound: the lines of which snapshots are made
  MaxLines  \* bound: lines of a snapshot

DetailLine ==
  [item : Item \cup {NoText}, line : LineNo \cup {NoText},
   content : Content \cup Void, rest : Rest]

ASSUME DiffAssumption ==
  /\ NoText \notin Item \cup LineNo
  /\ Content \cap Void = {}
  /\ Lines \subseteq DetailLine
  /\ MaxLines \in Nat

VARIABLES lines, linesNow  \* data_old and data_new

DiffInit == lines \in BoundedSeq(Lines, MaxLines)
            /\ linesNow \in BoundedSeq(Lines, MaxLines)

(* Not the code: a number makes a line.                                    *)
IsBlankAndUnnumbered(r) ==
  r.item = NoText /\ r.content \in Void /\ r.line = NoText

(* erpDetailRowIsBlank: it does not look at the rest of the line.          *)
IsBlank(r) == r.item = NoText /\ r.content \in Void

HasIdentity(r) == r.item # NoText \/ r.line # NoText
SameIdentity(r, s) == r.item = s.item /\ r.line = s.line

(* Not the code: lines with the same identity replace one another.         *)
KeyUnsuffixed(rows, i) ==
  [item |-> rows[i].item, line |-> rows[i].line,
   at |-> IF HasIdentity(rows[i]) THEN 0 ELSE i]

(* erpDetailRowKey, with the position of a line that has no identity or    *)
(* the same one as an earlier line.                                        *)
KeyOfLine(rows, i) ==
  [item |-> rows[i].item, line |-> rows[i].line,
   at |-> IF ~HasIdentity(rows[i])
             \/ \E j \in 1 .. i - 1 : SameIdentity(rows[j], rows[i])
            THEN i ELSE 0]

Keys(rows) == {KeyOfLine(rows, i) : i \in DOMAIN rows}

(* The line of a key; of several the last, as in a map.                    *)
LineOf(rows, k) ==
  rows[CHOOSE i \in DOMAIN rows :
         /\ KeyOfLine(rows, i) = k
         /\ \A j \in DOMAIN rows : KeyOfLine(rows, j) = k => j <= i]

(* row_added, row_removed and the lines with changed fields; the line      *)
(* number is an ignored field.                                             *)
Extra(rows, others) ==
  {k \in Keys(rows) \ Keys(others) : ~IsBlank(LineOf(rows, k))}

SameFields(r, s) == r.content = s.content /\ r.rest = s.rest

Edits(old, new) ==
  {k \in Keys(old) \cap Keys(new) :
     ~SameFields(LineOf(old, k), LineOf(new, k))}

diffERPDetail(old, new) == Extra(new, old) \cup Extra(old, new) \cup Edits(old, new)

-----------------------------------------------------------------------------
(* A line that names an item or says what was sold.  One with nothing but  *)
(* a number, a discount, a unit, a warehouse or a remark does not.         *)
Says(r) == r.item # NoText \/ r.content \in Content

Alike(r, s) == r.item = s.item /\ r.content = s.content /\ r.rest = s.rest

(* How many lines say what r says.                                         *)
Count(rows, r) ==
  Cardinality({i \in DOMAIN rows : Says(rows[i]) /\ Alike(rows[i], r)})

(* "an empty diff genuinely means nothing a user cares about changed"      *)
(* (erp_log_diff.go:38), of the lines that say something: both snapshots   *)
(* have the same ones with all their fields, each as many times, also      *)
(* where several have one identity or none.  Of the others it is not so: a *)
(* line with a remark and nothing sold comes and goes unseen.              *)
EmptyDiffMeansNoEdit ==
  diffERPDetail(lines, linesNow) = {} =>
    \A r \in Lines : Count(lines, r) = Count(linesNow, r)

Identified(rows) ==
  \A i, j \in DOMAIN rows :
    /\ Says(rows[i]) => HasIdentity(rows[i])
    /\ i # j /\ HasIdentity(rows[i]) => ~SameIdentity(rows[i], rows[j])

Written(rows) == {r \in ToSet(rows) : Says(r)}

(* Lines that say nothing come and go, but one that stays, by its number   *)
(* or else by its place, stays as it is: a zero where there was nothing is *)
(* shown, also in a blank line.                                            *)
BlanksStay(old, new) ==
  \A i \in DOMAIN old, j \in DOMAIN new :
    /\ ~Says(old[i]) /\ ~Says(new[j]) /\ SameIdentity(old[i], new[j])
    /\ HasIdentity(old[i]) \/ i = j
    => Alike(old[i], new[j])

(* A save that moves lines, or adds or drops blank ones, numbered or not,  *)
(* is no edit, as long as identities are unique (erp_log_diff.go:357-365). *)
SaveGivesNoDiff ==
  /\ Identified(lines) /\ Identified(linesNow)
  /\ Written(lines) = Written(linesNow)
  /\ BlanksStay(lines, linesNow)
  => diffERPDetail(lines, linesNow) = {}

(* The difference shows every edit of a line that says something, and of a *)
(* mere save it shows nothing (diffERPDetail).                             *)
DiffIsRight == EmptyDiffMeansNoEdit /\ SaveGivesNoDiff
=============================================================================
