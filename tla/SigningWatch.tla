---------------------------- MODULE SigningWatch ----------------------------
(***************************************************************************)
(* Has anybody touched a document since its signing began?                 *)
(* internal/handlers/erp_log_status.go answers from the ERP's audit log:   *)
(* the number (roworder) of the newest row when the job starts is the      *)
(* baseline, and later checks look at the rows beyond it.  Rows get their  *)
(* number when they are inserted and are visible when they are committed,  *)
(* and the ERP may have several open at a time.                            *)
(***************************************************************************)
EXTENDS Naturals, Sequences

CONSTANT LastRow  \* bound: rows the log gets

ASSUME LastRowAssumption == LastRow \in Nat

Roworder == 1 .. LastRow

(* What a row is about: this service wrote it (paperlessLogFilter), or the *)
(* ERP for a document created, deleted, edited, saved again as it was, or  *)
(* edited with a payload that cannot be read.                              *)
Kind == {"own", "create", "delete", "edit", "resave", "unreadable"}

VARIABLES
  kind,      \* of each row, by number
  open,      \* rows inserted and not committed
  committed, \* rows that readers see
  baseline,  \* what the caller keeps; its job has not begun before
  watching,
  verdict,   \* of the last check
  current,   \* CurrentRoworder of the last check
  priorRows, \* rows visible when the baseline was read (history)
  checked,   \* rows visible at the last check (history)
  overtaken  \* a row was committed after one with a higher number (history)

jobVars == <<baseline, watching, verdict, current, priorRows, checked>>
watchVars == <<kind, open, committed, overtaken, jobVars>>

Newest(rows, otherwise) ==
  IF rows = {} THEN otherwise
  ELSE CHOOSE i \in rows : \A j \in rows : j <= i

WatchInit ==
  /\ kind = <<>>
  /\ open = {} /\ committed = {} /\ overtaken = FALSE
  /\ baseline = 0 /\ watching = FALSE
  /\ verdict = "none" /\ current = 0
  /\ priorRows = {} /\ checked = {}

-----------------------------------------------------------------------------
(* The ERP, or a write of this service.                                    *)
InsertRow(k) ==
  /\ Len(kind) < LastRow
  /\ kind' = Append(kind, k)
  /\ open' = open \cup {Len(kind) + 1}
  /\ UNCHANGED <<committed, overtaken, jobVars>>

CommitRow(i) ==
  /\ i \in open
  /\ open' = open \ {i}
  /\ committed' = committed \cup {i}
  /\ overtaken' = (overtaken \/ \E j \in committed : j > i)
  /\ UNCHANGED <<kind, jobVars>>

AbortRow(i) ==
  /\ i \in open
  /\ open' = open \ {i}
  /\ UNCHANGED <<kind, committed, overtaken, jobVars>>

-----------------------------------------------------------------------------
(* Not the code: all rows, those of this service included.                 *)
AnyRow == committed

(* paperlessLogFilter. *)
Foreign == {i \in committed : kind[i] # "own"}

(* What a row says of the document; an edit that cannot be read counts, as *)
(* would what this service writes if it were looked at.                    *)
Blocking(i) == kind[i] # "resave"

(* Baseline. *)
ReadBaseline ==
  /\ ~watching
  /\ watching' = TRUE
  /\ baseline' = Newest(Foreign, 0)
  /\ priorRows' = committed
  /\ UNCHANGED <<kind, open, committed, overtaken, verdict, current, checked>>

(* Status: one query (loadERPLogStatus).                                   *)
CheckStatus ==
  LET after == {i \in Foreign : i > baseline}
  IN  /\ watching
      /\ verdict' = IF \E i \in after : Blocking(i) THEN "changed" ELSE "unchanged"
      /\ current' = Newest(after, baseline)
      /\ checked' = committed
      /\ UNCHANGED <<kind, open, committed, overtaken, baseline, watching,
                     priorRows>>

(* Not the code: the newest row of the moment, not that of the check.      *)
AcceptLatest ==
  /\ verdict # "none"
  /\ baseline' = Newest(Foreign, baseline) /\ priorRows' = checked
  /\ verdict' = "none"
  /\ UNCHANGED <<kind, open, committed, overtaken, watching, current, checked>>

(* Not the code: the row before, for a comparison that includes it.        *)
AcceptInclusive ==
  /\ verdict # "none"
  /\ baseline' = current - 1 /\ priorRows' = checked
  /\ verdict' = "none"
  /\ UNCHANGED <<kind, open, committed, overtaken, watching, current, checked>>

(* The caller accepts what the check showed and stores CurrentRoworder.    *)
Accept ==
  /\ verdict # "none"
  /\ baseline' = current /\ priorRows' = checked
  /\ verdict' = "none"
  /\ UNCHANGED <<kind, open, committed, overtaken, watching, current, checked>>

WatchNext ==
  \/ \E k \in Kind : InsertRow(k)
  \/ \E i \in Roworder : CommitRow(i) \/ AbortRow(i)
  \/ ReadBaseline \/ CheckStatus \/ Accept

WatchSpec == WatchInit /\ [][WatchNext]_watchVars

-----------------------------------------------------------------------------
WatchTypeOK ==
  /\ kind \in Seq(Kind) /\ Len(kind) <= LastRow
  /\ open \cup committed \subseteq 1 .. Len(kind)
  /\ open \cap committed = {}
  /\ baseline \in 0 .. LastRow /\ current \in 0 .. LastRow
  /\ watching \in BOOLEAN /\ overtaken \in BOOLEAN
  /\ verdict \in {"none", "changed", "unchanged"}
  /\ priorRows \cup checked \subseteq committed

(* Touched since the baseline, or the last accepted check.                 *)
Touched ==
  {i \in checked \ priorRows :
     kind[i] \in {"create", "delete", "edit", "unreadable"}}

(* "roworder is monotonic within the table and needs no clock at all"      *)
(* (erp_log_status.go:90): as long as rows are committed in the order of   *)
(* their numbers, a check that finds nothing means that nobody has         *)
(* created, deleted or edited the document since the baseline was read, or *)
(* since the check that was accepted last; rows committed between a check  *)
(* and its acceptance are left for the next one.                           *)
UnchangedIsUntouched == verdict = "unchanged" /\ ~overtaken => Touched = {}

(* A check blames nobody for what was there before, for a save without an  *)
(* edit, or for what this service wrote itself (paperlessLogFilter).       *)
ChangedIsTouched == verdict = "changed" => Touched # {}

(* What a check says of the document is so (erp_log_status.go).            *)
VerdictIsRight == UnchangedIsUntouched /\ ChangedIsTouched
=============================================================================
