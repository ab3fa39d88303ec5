----------------------------- MODULE Parts_proofs -----------------------------
(***************************************************************************)
(* Proofs about smaller parts that MCParts checks together: SigningWatch,  *)
(* Transactions, SetAllocation and RelatedGraph, for any bounds, clients,  *)
(* weights and documents.  They share facts about numbers: what is so of 0 *)
(* and goes from k - 1 to k is so up to n (Upwards), and a recursion has a *)
(* solution up to n (Recursion); on these rest sums and distances, which   *)
(* the model defines by recursive functions.                               *)
(***************************************************************************)
EXTENDS MCParts, SignedOrder_proofs, TenantImages_proofs, ArReceipt_proofs,
        FiniteSetTheorems, TLAPS

(* A bounded set of numbers has a greatest one: of the sets of elements    *)
(* beyond one of them, one has no proper subset among the others.          *)
LEMMA GreatestExists ==
  ASSUME NEW n \in Nat, NEW s \in SUBSET (1 .. n), s # {}
  PROVE  \E x \in s : \A y \in s : y <= x
<1> DEFINE beyond(x) == {y \in s : x <= y}
           tails == {t \in SUBSET s : \E x \in s : t = beyond(x)}
           R == StrictSubsetOrdering(s)
<1>1. IsFiniteSet(s)
  <2>1. IsFiniteSet(1 .. n)
    BY FS_Interval
  <2> QED
    BY <2>1, FS_Subset
<1>2. IsWellFoundedOn(R, SUBSET s)
  BY <1>1, FS_FiniteSubsetsOfFinite, FS_StrictSubsetOrderingWellFounded
<1>3. tails \subseteq SUBSET s /\ tails # {}
  OBVIOUS
<1> HIDE DEF R, tails
<1>4. PICK p \in tails : \A q \in tails : ~ (<<q, p>> \in R)
  BY <1>2, <1>3, WFMin
<1>5. PICK x \in s : p = beyond(x)
  BY DEF tails
<1>6. ASSUME NEW y \in s, ~(y <= x) PROVE FALSE
  <2>1. x < y /\ \A z \in s : z \in Nat
    BY <1>6
  <2>2. beyond(y) \in tails
    BY DEF tails
  <2>3. \A z \in s : y <= z => x <= z
    BY <2>1
  <2>4. beyond(y) \subseteq beyond(x)
    BY <2>3
  <2>5. x \in beyond(x) /\ x \notin beyond(y)
    BY <1>6, <2>1
  <2>6. <<beyond(y), p>> \in (SUBSET s) \X (SUBSET s)
    BY <1>3, <2>2
  <2> QED
    BY <1>4, <1>5, <2>2, <2>4, <2>5, <2>6 DEF R, StrictSubsetOrdering
<1> QED
  BY <1>6


(* A set of numbers below a bound has a least one.                         *)
LEMMA LeastExists ==
  ASSUME NEW n \in Nat, NEW s \in SUBSET (0 .. n), s # {}
  PROVE  \E x \in s : \A y \in s : x <= y
<1> DEFINE t == {i \in 1 .. n + 1 : n + 1 - i \in s}
<1>1. t \in SUBSET (1 .. n + 1) /\ n + 1 \in Nat
  OBVIOUS
<1>2. PICK y \in s : TRUE
  OBVIOUS
<1>3. n + 1 - y \in t
  <2>1. y \in Nat /\ y <= n
    OBVIOUS
  <2>2. n + 1 - y \in 1 .. n + 1 /\ n + 1 - (n + 1 - y) = y
    BY <2>1
  <2> QED
    BY <2>2
<1>4. PICK i \in t : \A j \in t : j <= i
  <2> HIDE DEF t
  <2> QED
  BY <1>1, <1>3, GreatestExists
<1>5. ASSUME NEW z \in s PROVE n + 1 - i <= z
  <2>1. z \in Nat /\ z <= n
    OBVIOUS
  <2>2. n + 1 - z \in 1 .. n + 1 /\ n + 1 - (n + 1 - z) = z
    BY <2>1
  <2>3. n + 1 - z <= i
    BY <1>4, <2>2
  <2> QED
    BY <2>1, <2>3, <1>4
<1> QED
  BY <1>4, <1>5

(* What is so of 0, and of k if of k - 1, is so up to n.                    *)
LEMMA Upwards ==
  ASSUME NEW n \in Nat, NEW s \in SUBSET (0 .. n), 0 \in s,
         \A k \in 1 .. n : k - 1 \in s => k \in s
  PROVE  s = 0 .. n
<1> DEFINE t == (0 .. n) \ s
<1> SUFFICES ASSUME t # {} PROVE FALSE
  OBVIOUS
<1>1. PICK x \in t : \A y \in t : x <= y
  BY LeastExists
<1>2. x # 0 /\ x - 1 \notin t /\ x - 1 \in 0 .. n /\ x \in 1 .. n
  BY <1>1
<1> QED
  BY <1>2

(* rule[<<x, k>>] takes the k-th step of a recursion.                       *)
StaysIn(rule, S, n) == \A k \in 1 .. n, x \in S : rule[<<x, k>>] \in S

(* A recursion has a solution up to n.                                     *)
LEMMA Recursion ==
  ASSUME NEW n \in Nat, NEW S, NEW c \in S, NEW rule, StaysIn(rule, S, n)
  PROVE  \E g \in [0 .. n -> S] :
           g[0] = c /\ \A k \in 1 .. n : g[k] = rule[<<g[k - 1], k>>]
<1> DEFINE good(m) == \E g \in [0 .. m -> S] :
             g = [k \in 0 .. m |-> IF k = 0 THEN c ELSE rule[<<g[k - 1], k>>]]
           s == {m \in 0 .. n : good(m)}
<1>1. 0 \in s
  <2> DEFINE h == [k \in 0 .. 0 |-> c]
  <2>1. h \in [0 .. 0 -> S]
    OBVIOUS
  <2>2. h = [k \in 0 .. 0 |-> IF k = 0 THEN c ELSE rule[<<h[k - 1], k>>]]
    OBVIOUS
  <2>3. good(0)
    BY <2>1, <2>2
  <2> QED
    BY <2>3
<1>2. ASSUME NEW m \in 1 .. n, m - 1 \in s PROVE m \in s
  <2>1. PICK g \in [0 .. m - 1 -> S] :
         g = [k \in 0 .. m - 1 |-> IF k = 0 THEN c ELSE rule[<<g[k - 1], k>>]]
    BY <1>2
  <2> DEFINE h == [k \in 0 .. m |-> IF k = m THEN rule[<<g[m - 1], m>>] ELSE g[k]]
  <2>2. /\ m - 1 \in 0 .. m - 1 /\ m \in 0 .. m
        /\ \A k \in 0 .. m : k # m => k \in 0 .. m - 1
        /\ \A k \in 0 .. m : k # 0 => k - 1 \in 0 .. m - 1 /\ k - 1 # m /\ k - 1 \in 0 .. m
    OBVIOUS
  <2>3. \A k \in 0 .. m - 1 : g[k] = IF k = 0 THEN c ELSE rule[<<g[k - 1], k>>]
    BY <2>1
  <2>4. h \in [0 .. m -> S]
    <3>1. rule[<<g[m - 1], m>>] \in S
      BY <2>2 DEF StaysIn
    <3> QED
      BY <2>2, <3>1
  <2>5. \A k \in 0 .. m : h[k] = IF k = 0 THEN c ELSE rule[<<h[k - 1], k>>]
    <3> SUFFICES ASSUME NEW k \in 0 .. m
                 PROVE  h[k] = IF k = 0 THEN c ELSE rule[<<h[k - 1], k>>]
      OBVIOUS
    <3>1. CASE k = m
      <4>1. h[m - 1] = g[m - 1]
        BY <2>2
      <4>2. h[m] = rule[<<g[m - 1], m>>] /\ m # 0
        BY <2>2
      <4> QED
        BY <3>1, <4>1, <4>2
    <3>2. CASE k # m
      BY <2>2, <2>3, <3>2
    <3> QED
      BY <3>1, <3>2
  <2> HIDE DEF h
  <2>6. h = [k \in 0 .. m |-> IF k = 0 THEN c ELSE rule[<<h[k - 1], k>>]]
    BY <2>4, <2>5
  <2>7. good(m)
    BY <2>4, <2>6
  <2>8. m \in 0 .. n
    OBVIOUS
  <2> HIDE DEF good
  <2> QED
    BY <2>7, <2>8
<1>3. s = 0 .. n
  <2> HIDE DEF s
  <2>1. s \in SUBSET (0 .. n)
    BY DEF s
  <2> QED
    BY <1>1, <1>2, <2>1, Upwards
<1>4. PICK g \in [0 .. n -> S] :
        g = [k \in 0 .. n |-> IF k = 0 THEN c ELSE rule[<<g[k - 1], k>>]]
  BY <1>3
<1>5. \A k \in 0 .. n : g[k] = IF k = 0 THEN c ELSE rule[<<g[k - 1], k>>]
  BY <1>4
<1>6. 0 \in 0 .. n /\ \A k \in 1 .. n : k \in 0 .. n /\ k # 0
  OBVIOUS
<1>7. g[0] = c /\ \A k \in 1 .. n : g[k] = rule[<<g[k - 1], k>>]
  BY <1>5, <1>6
<1> QED
  BY <1>7

-----------------------------------------------------------------------------
(* SigningWatch: while rows are committed in the order of their numbers,   *)
(* what is committed after a look has a higher number than all it saw.     *)

(* The newest of some rows is beyond all of them.                          *)
LEMMA NewestIs ==
  ASSUME NEW rows \in SUBSET Roworder, NEW other
  PROVE  /\ rows = {} => Newest(rows, other) = other
         /\ rows # {} => /\ Newest(rows, other) \in rows
                         /\ \A i \in rows : i <= Newest(rows, other)
<1>1. rows # {} => \E x \in rows : \A y \in rows : y <= x
  BY LastRowAssumption, GreatestExists DEF Roworder
<1> QED
  BY <1>1 DEF Newest

WatchInv ==
  /\ WatchTypeOK
  /\ verdict # "none" => watching
  /\ baseline \in priorRows \cup {0}
  /\ verdict # "none" => priorRows \subseteq checked /\ current \in checked \cup {0}
  /\ watching /\ ~overtaken => \A i \in committed \ priorRows : i > baseline
  /\ verdict # "none" /\ ~overtaken => \A i \in committed \ checked : i > current
  /\ watching => \A i \in priorRows : kind[i] # "own" => i <= baseline
  /\ verdict # "none" => \A i \in checked : kind[i] # "own" => i <= current
  /\ UnchangedIsUntouched
  /\ ChangedIsTouched

LEMMA WatchInitInv == WatchInit => WatchInv
<1> SUFFICES ASSUME WatchInit PROVE WatchInv
  OBVIOUS
<1>1. kind \in Seq(Kind) /\ Len(kind) = 0
  BY DEF WatchInit
<1>0. 0 \in 0 .. LastRow /\ 0 <= LastRow
  BY LastRowAssumption
<1>2. WatchTypeOK
  BY <1>0, <1>1 DEF WatchInit, WatchTypeOK
<1> QED
  BY <1>2 DEF WatchInit, WatchInv, UnchangedIsUntouched, ChangedIsTouched

LEMMA InsertRowInv ==
  ASSUME WatchInv, NEW k \in Kind, InsertRow(k)
  PROVE  WatchInv'
<1>1. kind \in Seq(Kind) /\ Len(kind) \in Nat /\ Len(kind) < LastRow
  BY DEF WatchInv, WatchTypeOK, InsertRow
<1>2. /\ kind' \in Seq(Kind) /\ Len(kind') = Len(kind) + 1
      /\ \A i \in 1 .. Len(kind) : kind'[i] = kind[i]
  BY <1>1 DEF InsertRow
<1>3. committed \subseteq 1 .. Len(kind) /\ priorRows \cup checked \subseteq committed
  BY DEF WatchInv, WatchTypeOK
<1>4. \A i \in priorRows \cup checked : kind'[i] = kind[i]
  BY <1>2, <1>3
<1>5. WatchTypeOK'
  BY <1>1, <1>2, LastRowAssumption DEF WatchInv, WatchTypeOK, InsertRow, jobVars
<1>6. Touched' = Touched
  BY <1>4 DEF Touched, InsertRow, jobVars
<1>7. UnchangedIsUntouched' /\ ChangedIsTouched'
  BY <1>6 DEF WatchInv, UnchangedIsUntouched, ChangedIsTouched, InsertRow, jobVars
<1> QED
  BY <1>4, <1>5, <1>7 DEF WatchInv, InsertRow, jobVars

LEMMA CommitRowInv ==
  ASSUME WatchInv, NEW i \in Roworder, CommitRow(i)
  PROVE  WatchInv'
<1>1. WatchTypeOK'
  BY DEF WatchInv, WatchTypeOK, CommitRow, jobVars
<1>2. /\ i \notin committed /\ committed' = committed \cup {i}
      /\ ~overtaken' => ~overtaken /\ \A j \in committed : ~(j > i)
      /\ UNCHANGED <<kind, jobVars>>
  BY DEF WatchInv, WatchTypeOK, CommitRow
<1>3. i \in Nat /\ i > 0 /\ committed \subseteq Nat
  BY LastRowAssumption DEF WatchInv, WatchTypeOK, Roworder
<1>4. ~overtaken' => \A j \in committed \cup {0} : i > j
  BY <1>2, <1>3
<1>5. UnchangedIsUntouched' /\ ChangedIsTouched'
  BY <1>2 DEF WatchInv, UnchangedIsUntouched, ChangedIsTouched, Touched, jobVars
<1> QED
  BY <1>1, <1>2, <1>4, <1>5 DEF WatchInv, WatchTypeOK, jobVars

LEMMA AbortRowInv ==
  ASSUME WatchInv, NEW i \in Roworder, AbortRow(i)
  PROVE  WatchInv'
BY DEF WatchInv, WatchTypeOK, AbortRow, jobVars, UnchangedIsUntouched, ChangedIsTouched,
   Touched

LEMMA ForeignRows ==
  ASSUME WatchInv
  PROVE  Foreign \subseteq committed /\ Foreign \subseteq Roworder
         /\ committed \subseteq 1 .. LastRow
BY LastRowAssumption DEF WatchInv, WatchTypeOK, Foreign, Roworder

LEMMA ReadBaselineInv ==
  ASSUME WatchInv, ReadBaseline
  PROVE  WatchInv'
<1>1. Foreign \subseteq committed /\ Foreign \subseteq Roworder
      /\ committed \subseteq 1 .. LastRow
  BY ForeignRows
<1>2. /\ Foreign = {} => baseline' = 0
      /\ Foreign # {} => baseline' \in Foreign /\ \A j \in Foreign : j <= baseline'
  BY <1>1, NewestIs DEF ReadBaseline
<1>3. verdict' = "none" /\ watching' = TRUE /\ priorRows' = committed
      /\ UNCHANGED <<kind, open, committed, overtaken, current, checked>>
  BY DEF WatchInv, ReadBaseline
<1>4. WatchTypeOK'
  <2>1. baseline' \in 0 .. LastRow
    <3>1. CASE Foreign = {}
      BY <1>2, <3>1, LastRowAssumption
    <3>2. CASE Foreign # {}
      <4>1. baseline' \in 1 .. LastRow
        BY <1>1, <1>2, <3>2 DEF Roworder
      <4> QED
        BY <4>1, LastRowAssumption
    <3> QED
      BY <3>1, <3>2
  <2> QED
    BY <1>3, <2>1 DEF WatchInv, WatchTypeOK
<1>5. \A j \in committed : kind[j] # "own" => j <= baseline'
  BY <1>2 DEF Foreign
<1> QED
  BY <1>1, <1>2, <1>3, <1>4, <1>5 DEF WatchInv, UnchangedIsUntouched, ChangedIsTouched

LEMMA CheckStatusInv ==
  ASSUME WatchInv, CheckStatus
  PROVE  WatchInv'
<1> DEFINE after == {i \in Foreign : i > baseline}
<1>1. after \subseteq committed /\ after \subseteq Roworder /\ committed \subseteq 1 .. LastRow
  BY ForeignRows
<1>2. /\ after = {} => current' = baseline
      /\ after # {} => current' \in after /\ \A j \in after : j <= current'
  BY <1>1, NewestIs DEF CheckStatus
<1>3. /\ verdict' = IF \E i \in after : kind[i] # "resave" THEN "changed" ELSE "unchanged"
      /\ watching /\ watching' = watching /\ checked' = committed
      /\ UNCHANGED <<kind, open, committed, overtaken, baseline, priorRows>>
  BY DEF CheckStatus, Blocking
<1> HIDE DEF after
<1>4. WatchTypeOK'
  <2>1. current' \in 0 .. LastRow
    <3>1. CASE after = {}
      BY <1>2, <3>1 DEF WatchInv, WatchTypeOK
    <3>2. CASE after # {}
      <4>1. current' \in 1 .. LastRow
        BY <1>1, <1>2, <3>2 DEF Roworder
      <4> QED
        BY <4>1, LastRowAssumption
    <3> QED
      BY <3>1, <3>2
  <2>2. verdict' \in {"none", "changed", "unchanged"}
    BY <1>3
  <2> QED
    BY <1>3, <2>1, <2>2 DEF WatchInv, WatchTypeOK
<1>5. baseline \in priorRows \cup {0} /\ priorRows \subseteq committed /\ baseline \in Nat
  BY DEF WatchInv, WatchTypeOK
<1>6. current' \in committed \cup {0}
  BY <1>1, <1>2, <1>5
<1>7. current' \in Nat /\ baseline <= current' /\ \A j \in after : j <= current'
  BY <1>1, <1>2, <1>5 DEF after, Roworder
<1>8. \A j \in committed : kind[j] # "own" => j <= current'
  <2> SUFFICES ASSUME NEW j \in committed, kind[j] # "own" PROVE j <= current'
    OBVIOUS
  <2>1. j \in Foreign /\ j \in Nat
    BY <1>1 DEF Foreign
  <2>2. j > baseline => j \in after
    BY <2>1 DEF after
  <2> QED
    BY <1>5, <1>7, <2>1, <2>2
<1>9. UnchangedIsUntouched'
  <2> SUFFICES ASSUME verdict' = "unchanged", ~overtaken,
                      NEW j \in committed \ priorRows,
                      kind[j] \in {"create", "delete", "edit", "unreadable"}
               PROVE  FALSE
    BY <1>3 DEF UnchangedIsUntouched, Touched
  <2>1. j > baseline /\ j \in Foreign
    BY <1>3 DEF WatchInv, Foreign
  <2> QED
    BY <1>3, <2>1 DEF after
<1>10. ChangedIsTouched'
  <2> SUFFICES ASSUME verdict' = "changed"
               PROVE  \E j \in committed \ priorRows :
                        kind[j] \in {"create", "delete", "edit", "unreadable"}
    BY <1>3 DEF ChangedIsTouched, Touched
  <2>1. PICK j \in after : kind[j] # "resave"
    BY <1>3
  <2>2. j \in committed /\ j > baseline /\ kind[j] # "own"
    BY DEF after, Foreign
  <2>3. j \notin priorRows
    BY <1>1, <1>3, <1>5, <2>2 DEF WatchInv
  <2>4. kind[j] \in Kind
    BY <2>2 DEF WatchInv, WatchTypeOK
  <2> QED
    BY <2>1, <2>2, <2>3, <2>4 DEF Kind
<1> QED
  BY <1>3, <1>4, <1>5, <1>6, <1>8, <1>9, <1>10 DEF WatchInv

LEMMA AcceptInv ==
  ASSUME WatchInv, Accept
  PROVE  WatchInv'
BY DEF WatchInv, WatchTypeOK, Accept, UnchangedIsUntouched, ChangedIsTouched

LEMMA WatchInvariance == WatchSpec => []WatchInv
<1>1. WatchInv /\ [WatchNext]_watchVars => WatchInv'
  <2> SUFFICES ASSUME WatchInv, [WatchNext]_watchVars PROVE WatchInv'
    OBVIOUS
  <2>1. CASE UNCHANGED watchVars
    BY <2>1 DEF watchVars, jobVars, WatchInv, WatchTypeOK, UnchangedIsUntouched,
       ChangedIsTouched, Touched
  <2> QED
    BY <2>1, InsertRowInv, CommitRowInv, AbortRowInv, ReadBaselineInv, CheckStatusInv,
       AcceptInv DEF WatchNext
<1> QED
  BY <1>1, WatchInitInv, PTL DEF WatchSpec

(* The variables of the log rows and of the watch keep their types.        *)
THEOREM WatchTypeCorrect == WatchSpec => []WatchTypeOK
<1>1. WatchInv => WatchTypeOK
  BY DEF WatchInv
<1> QED
  BY <1>1, WatchInvariance, PTL

(* If rows are committed in the order of their numbers, "unchanged" means  *)
(* that nobody touched the document since the baseline or the last         *)
(* accepted check, however many rows there are (erp_log_status.go).        *)
THEOREM UnchangedMeansUntouched == WatchSpec => []UnchangedIsUntouched
<1>1. WatchInv => UnchangedIsUntouched
  BY DEF WatchInv
<1> QED
  BY <1>1, WatchInvariance, PTL

(* "changed" is never said of what was there before, of a save without an  *)
(* edit, or of what this service wrote itself.                             *)
THEOREM ChangedMeansTouched == WatchSpec => []ChangedIsTouched
<1>1. WatchInv => ChangedIsTouched
  BY DEF WatchInv
<1> QED
  BY <1>1, WatchInvariance, PTL


(* What a check says of a document is so (erp_log_status.go).              *)
THEOREM VerdictsAreRight == WatchSpec => []VerdictIsRight
BY UnchangedMeansUntouched, ChangedMeansTouched, PTL DEF VerdictIsRight

-----------------------------------------------------------------------------
(* Transactions: whoever inserts lines has the number to itself, and it is *)
(* not filed; whatever is filed has all its lines; an offer is beyond all  *)
(* the numbers that stood when it was made.                                *)

NumberIsHeld ==
  \A c \in Client :
    creating[c] = "lines" =>
      /\ filed[wants[c]] = Nil
      /\ \A q \in Client \ {c} : creating[q] = "lines" => wants[q] # wants[c]

FiledIsWhole ==
  \A n \in SeqNo : lineRows[n] = IF filed[n] = Nil THEN 0 ELSE LineCount

ReaderFound == reading = "header" => reads \in Filed

OfferIsBeyond == \A c \in Client : offer[c] \notin usedThen[c]

TransactionsInv ==
  /\ TransactionsTypeOK /\ NumberIsHeld /\ FiledIsWhole /\ CreateAnswersAreTrue
  /\ ReaderFound /\ ReadsAreWhole /\ OfferIsBeyond

(* What is in the database and has been read stays true as long as         *)
(* documents are filed whole and voided, never changed or removed.         *)
OnlyFiles ==
  /\ filed' \in [SeqNo -> Client \cup {ErpUser, Nil}]
  /\ lineRows' \in [SeqNo -> {0, LineCount}]
  /\ voided' \subseteq Filed' /\ voided \subseteq voided'
  /\ \A n \in SeqNo : filed[n] # Nil => filed'[n] = filed[n]
  /\ FiledIsWhole'

LEMMA TransactionsInitInv == TransactionsInit => TransactionsInv
BY TransactionsAssumption DEF TransactionsInit, TransactionsInv, TransactionsTypeOK, NumberIsHeld,
   FiledIsWhole, CreateAnswersAreTrue, ReaderFound, ReadsAreWhole, OfferIsBeyond, SeqNo,
   Filed, CreateAnswer

(* One more than the greatest number that stands is that of no document.   *)
LEMMA NextIsFree ==
  ASSUME TransactionsTypeOK
  PROVE  NextSeq \in Nat \ {0} /\ NextSeq \notin Standing
<1>1. LastSeq \in Nat /\ Standing \in SUBSET (1 .. LastSeq)
  BY TransactionsAssumption DEF Standing, Filed, SeqNo
<1>2. CASE Standing = {}
  BY <1>2 DEF NextSeq, Largest
<1>3. CASE Standing # {}
  <2>1. \E n \in Standing : \A m \in Standing : m <= n
    BY <1>1, <1>3, GreatestExists
  <2>2. Largest(Standing) \in Standing /\ \A m \in Standing : m <= Largest(Standing)
    BY <1>3, <2>1 DEF Largest
  <2>3. PICK top \in Standing : top = Largest(Standing)
    BY <2>2
  <2>4. top \in 1 .. LastSeq
    BY <1>1
  <2>5. top \in Nat /\ NextSeq = 1 + top
    BY <1>1, <2>3, <2>4 DEF NextSeq
  <2> QED
    BY <2>2, <2>3, <2>5
<1> QED
  BY <1>2, <1>3

LEMMA AskNextInv ==
  ASSUME TransactionsInv, NEW c \in Client, AskNext(c)
  PROVE  TransactionsInv'
<1>0. /\ TransactionsTypeOK /\ NumberIsHeld /\ FiledIsWhole /\ CreateAnswersAreTrue
      /\ ReaderFound /\ ReadsAreWhole /\ OfferIsBeyond
  BY DEF TransactionsInv
<1>1. NextSeq \in 0 .. LastSeq /\ NextSeq \notin Standing /\ Standing \in SUBSET SeqNo
  BY <1>0, NextIsFree, TransactionsAssumption DEF AskNext, Standing, Filed
<1>2. /\ offer' = [offer EXCEPT ![c] = NextSeq]
      /\ usedThen' = [usedThen EXCEPT ![c] = Standing]
      /\ answered' = [answered EXCEPT ![c] = "none"]
      /\ UNCHANGED <<filed, lineRows, voided, creating, wants, inserted, reading, reads, sees>>
  BY DEF AskNext, filedVars, readVars
<1> HIDE DEF NextSeq, Standing
<1>3. TransactionsTypeOK'
  BY <1>0, <1>1, <1>2 DEF TransactionsTypeOK, CreateAnswer, Filed
<1>4. NumberIsHeld' /\ FiledIsWhole' /\ ReaderFound' /\ ReadsAreWhole'
  BY <1>0, <1>2 DEF NumberIsHeld, FiledIsWhole, ReaderFound, ReadsAreWhole, Filed
<1>5. CreateAnswersAreTrue'
  BY <1>0, <1>2 DEF CreateAnswersAreTrue, TransactionsTypeOK
<1>6. OfferIsBeyond'
  BY <1>0, <1>1, <1>2 DEF OfferIsBeyond, TransactionsTypeOK
<1> QED
  BY <1>3, <1>4, <1>5, <1>6 DEF TransactionsInv

LEMMA SendCreateInv ==
  ASSUME TransactionsInv, NEW c \in Client, NEW n \in SeqNo, SendCreate(c, n)
  PROVE  TransactionsInv'
<1>0. /\ TransactionsTypeOK /\ NumberIsHeld /\ FiledIsWhole /\ CreateAnswersAreTrue
      /\ ReaderFound /\ ReadsAreWhole /\ OfferIsBeyond
  BY DEF TransactionsInv
<1>1. /\ creating' = [creating EXCEPT ![c] = "header"]
      /\ wants' = [wants EXCEPT ![c] = n]
      /\ answered' = [answered EXCEPT ![c] = "none"]
      /\ UNCHANGED <<filed, lineRows, voided, inserted, offer, usedThen, reading, reads, sees>>
  BY DEF SendCreate, filedVars, offerVars, readVars
<1>2. TransactionsTypeOK'
  BY <1>0, <1>1 DEF TransactionsTypeOK, CreateAnswer, Filed
<1>3. FiledIsWhole' /\ ReaderFound' /\ ReadsAreWhole' /\ OfferIsBeyond'
  BY <1>0, <1>1 DEF FiledIsWhole, ReaderFound, ReadsAreWhole, OfferIsBeyond, Filed
<1>4. NumberIsHeld' /\ CreateAnswersAreTrue'
  BY <1>0, <1>1 DEF NumberIsHeld, CreateAnswersAreTrue, TransactionsTypeOK
<1> QED
  BY <1>2, <1>3, <1>4 DEF TransactionsInv

(* A call ends: its client is told what is true of its number.             *)
LEMMA ReplyInv ==
  ASSUME TransactionsInv, NEW c \in Client, NEW a \in CreateAnswer, Reply(c, a), OnlyFiles,
         a = "created" => filed'[wants[c]] = c,
         a = "exists" => filed'[wants[c]] # Nil,
         \A q \in Client \ {c} : creating[q] = "lines" => filed'[wants[q]] = Nil
  PROVE  TransactionsInv'
<1>0. /\ TransactionsTypeOK /\ NumberIsHeld /\ FiledIsWhole /\ CreateAnswersAreTrue
      /\ ReaderFound /\ ReadsAreWhole /\ OfferIsBeyond
  BY DEF TransactionsInv
<1>1. /\ answered' = [answered EXCEPT ![c] = a]
      /\ creating' = [creating EXCEPT ![c] = "idle"]
      /\ inserted' = [inserted EXCEPT ![c] = 0]
      /\ UNCHANGED <<wants, reading, reads, sees>>
  BY DEF Reply, readVars
<1>2. \/ /\ offer' = [offer EXCEPT ![c] = 0]
         /\ usedThen' = [usedThen EXCEPT ![c] = {}]
      \/ UNCHANGED <<offer, usedThen>>
  BY DEF Reply, offerVars
<1>3. TransactionsTypeOK'
  <2>1. /\ offer' \in [Client -> 0 .. LastSeq]
        /\ usedThen' \in [Client -> SUBSET SeqNo]
    BY <1>0, <1>2, TransactionsAssumption DEF TransactionsTypeOK
  <2>2. /\ creating' \in [Client -> {"idle", "header", "lines"}]
        /\ inserted' \in [Client -> 0 .. LineCount]
        /\ answered' \in [Client -> CreateAnswer]
    BY <1>0, <1>1, TransactionsAssumption DEF TransactionsTypeOK
  <2> QED
    BY <1>0, <1>1, <2>1, <2>2 DEF TransactionsTypeOK, OnlyFiles
<1>4. NumberIsHeld'
  BY <1>0, <1>1 DEF NumberIsHeld, TransactionsTypeOK
<1>5. CreateAnswersAreTrue'
  BY <1>0, <1>1, TransactionsAssumption DEF CreateAnswersAreTrue, TransactionsTypeOK, OnlyFiles
<1>6. ReaderFound' /\ ReadsAreWhole' /\ FiledIsWhole'
  BY <1>0, <1>1 DEF ReaderFound, ReadsAreWhole, OnlyFiles, Filed
<1>7. OfferIsBeyond'
  BY <1>0, <1>2 DEF OfferIsBeyond, TransactionsTypeOK
<1> QED
  BY <1>3, <1>4, <1>5, <1>6, <1>7 DEF TransactionsInv

LEMMA UnfiledReplyInv ==
  ASSUME TransactionsInv, NEW c \in Client, NEW a \in {"exists", "failed"}, Reply(c, a),
         UNCHANGED filedVars, a = "exists" => filed[wants[c]] # Nil
  PROVE  TransactionsInv'
<1>1. OnlyFiles
  BY DEF OnlyFiles, filedVars, TransactionsInv, TransactionsTypeOK, FiledIsWhole, Filed
<1>2. \A q \in Client : creating[q] = "lines" => filed'[wants[q]] = Nil
  BY DEF filedVars, TransactionsInv, NumberIsHeld
<1>3. a \in CreateAnswer /\ a # "created" /\ filed' = filed
  BY DEF CreateAnswer, filedVars
<1> QED
  BY <1>1, <1>2, <1>3, ReplyInv

LEMMA InsertHeaderInv ==
  ASSUME TransactionsInv, NEW c \in Client, InsertHeader(c)
  PROVE  TransactionsInv'
<1>1. CASE filed[wants[c]] # Nil
  BY <1>1, UnfiledReplyInv DEF InsertHeader
<1>2. CASE filed[wants[c]] = Nil
  <2>0. /\ TransactionsTypeOK /\ NumberIsHeld /\ FiledIsWhole /\ CreateAnswersAreTrue
        /\ ReaderFound /\ ReadsAreWhole /\ OfferIsBeyond
    BY DEF TransactionsInv
  <2>1. /\ creating' = [creating EXCEPT ![c] = "lines"]
        /\ UNCHANGED <<filed, lineRows, voided, wants, inserted, answered, offer, usedThen,
                       reading, reads, sees>>
        /\ \A q \in Client : creating[q] = "lines" => wants[q] # wants[c]
    BY <1>2 DEF InsertHeader, filedVars, offerVars, readVars
  <2>2. TransactionsTypeOK'
    BY <2>0, <2>1 DEF TransactionsTypeOK, Filed
  <2>3. FiledIsWhole' /\ ReaderFound' /\ ReadsAreWhole' /\ OfferIsBeyond'
        /\ CreateAnswersAreTrue'
    BY <2>0, <2>1 DEF FiledIsWhole, ReaderFound, ReadsAreWhole, OfferIsBeyond, Filed,
       CreateAnswersAreTrue
  <2>4. NumberIsHeld'
    BY <1>2, <2>0, <2>1 DEF NumberIsHeld, TransactionsTypeOK
  <2> QED
    BY <2>2, <2>3, <2>4 DEF TransactionsInv
<1> QED
  BY <1>1, <1>2

LEMMA InsertLineInv ==
  ASSUME TransactionsInv, NEW c \in Client, InsertLine(c)
  PROVE  TransactionsInv'
<1>0. /\ TransactionsTypeOK /\ NumberIsHeld /\ FiledIsWhole /\ CreateAnswersAreTrue
      /\ ReaderFound /\ ReadsAreWhole /\ OfferIsBeyond
  BY DEF TransactionsInv
<1>1. /\ inserted' = [inserted EXCEPT ![c] = @ + 1] /\ inserted[c] < LineCount
      /\ UNCHANGED <<filed, lineRows, voided, creating, wants, answered, offer, usedThen,
                     reading, reads, sees>>
  BY DEF InsertLine, filedVars, offerVars, readVars
<1>2. inserted' \in [Client -> 0 .. LineCount]
  BY <1>0, <1>1, TransactionsAssumption DEF TransactionsTypeOK
<1>3. TransactionsTypeOK'
  BY <1>0, <1>1, <1>2 DEF TransactionsTypeOK, Filed
<1>4. /\ NumberIsHeld' /\ FiledIsWhole' /\ CreateAnswersAreTrue'
      /\ ReaderFound' /\ ReadsAreWhole' /\ OfferIsBeyond'
  BY <1>0, <1>1 DEF FiledIsWhole, ReaderFound, ReadsAreWhole, OfferIsBeyond, Filed,
     CreateAnswersAreTrue, NumberIsHeld
<1> QED
  BY <1>3, <1>4 DEF TransactionsInv

LEMMA CommitCreateInv ==
  ASSUME TransactionsInv, NEW c \in Client, NEW a \in {"created", "failed"}, CommitCreate(c, a)
  PROVE  TransactionsInv'
<1>0. TransactionsTypeOK /\ NumberIsHeld /\ FiledIsWhole
  BY DEF TransactionsInv
<1>1. /\ filed' = [filed EXCEPT ![wants[c]] = c]
      /\ lineRows' = [lineRows EXCEPT ![wants[c]] = LineCount]
      /\ voided' = voided /\ Reply(c, a) /\ creating[c] = "lines"
      /\ wants[c] \in SeqNo /\ filed[wants[c]] = Nil
  BY <1>0 DEF CommitCreate, TransactionsTypeOK, NumberIsHeld
<1>2. OnlyFiles
  BY <1>0, <1>1, TransactionsAssumption DEF OnlyFiles, TransactionsTypeOK, FiledIsWhole, Filed
<1>3. \A q \in Client \ {c} : creating[q] = "lines" => filed'[wants[q]] = Nil
  BY <1>0, <1>1 DEF NumberIsHeld, TransactionsTypeOK
<1>4. a \in CreateAnswer /\ a # "exists" /\ filed'[wants[c]] = c
  BY <1>0, <1>1 DEF CreateAnswer, TransactionsTypeOK
<1> QED
  BY <1>1, <1>2, <1>3, <1>4, ReplyInv

(* The reader and the ERP.                                                 *)
LEMMA OthersInv ==
  ASSUME TransactionsInv, NEW n \in SeqNo,
         GetHeader(n) \/ ErpFiles(n) \/ ErpVoids(n) \/ GetLines
  PROVE  TransactionsInv'
<1>0. /\ TransactionsTypeOK /\ NumberIsHeld /\ FiledIsWhole /\ CreateAnswersAreTrue
      /\ ReaderFound /\ ReadsAreWhole /\ OfferIsBeyond
  BY DEF TransactionsInv
<1>1. CASE GetHeader(n) \/ GetLines
  <2>1. /\ UNCHANGED <<filed, lineRows, voided, creating, wants, inserted, answered, offer,
                       usedThen>>
        /\ reading' \in {"no", "header", "lines"} /\ reads' \in SeqNo
    BY <1>0, <1>1 DEF GetHeader, GetLines, filedVars, offerVars, TransactionsTypeOK
  <2>2. sees' \in 0 .. LineCount
    BY <1>0, <1>1, TransactionsAssumption DEF GetHeader, GetLines, TransactionsTypeOK
  <2>3. TransactionsTypeOK'
    BY <1>0, <2>1, <2>2 DEF TransactionsTypeOK, Filed
  <2>4. NumberIsHeld' /\ FiledIsWhole' /\ CreateAnswersAreTrue' /\ OfferIsBeyond'
    BY <1>0, <2>1 DEF NumberIsHeld, FiledIsWhole, CreateAnswersAreTrue, OfferIsBeyond
  <2>5. ReaderFound' /\ ReadsAreWhole'
    BY <1>0, <1>1 DEF GetHeader, GetLines, filedVars, ReaderFound, ReadsAreWhole, FiledIsWhole,
       TransactionsTypeOK, Filed, Standing
  <2> QED
    BY <2>3, <2>4, <2>5 DEF TransactionsInv
<1>2. CASE ErpFiles(n) \/ ErpVoids(n)
  <2>1. UNCHANGED <<creating, wants, inserted, answered, offer, usedThen, reading, reads, sees>>
    BY <1>2 DEF ErpFiles, ErpVoids, offerVars, readVars
  <2>2. OnlyFiles
    <3>1. CASE ErpFiles(n)
      BY <1>0, <3>1, TransactionsAssumption DEF ErpFiles, OnlyFiles, TransactionsTypeOK,
         FiledIsWhole, Filed
    <3>2. CASE ErpVoids(n)
      BY <1>0, <3>2 DEF ErpVoids, OnlyFiles, TransactionsTypeOK, FiledIsWhole, Filed, Standing
    <3> QED
      BY <1>2, <3>1, <3>2
  <2>3. TransactionsTypeOK'
    BY <1>0, <2>1, <2>2 DEF TransactionsTypeOK, OnlyFiles
  <2>4. NumberIsHeld'
    BY <1>0, <1>2, <2>1 DEF ErpFiles, ErpVoids, NumberIsHeld, TransactionsTypeOK
  <2>5. CreateAnswersAreTrue' /\ ReaderFound' /\ ReadsAreWhole' /\ OfferIsBeyond'
    BY <1>0, <2>1, <2>2, TransactionsAssumption DEF CreateAnswersAreTrue, ReaderFound,
       ReadsAreWhole, OfferIsBeyond, OnlyFiles, TransactionsTypeOK, Filed
  <2> QED
    BY <2>2, <2>3, <2>4, <2>5 DEF TransactionsInv, OnlyFiles
<1> QED
  BY <1>1, <1>2

LEMMA TransactionsInvariance == TransactionsSpec => []TransactionsInv
<1>1. TransactionsInv /\ [TransactionsNext]_transactionVars => TransactionsInv'
  <2> SUFFICES ASSUME TransactionsInv, [TransactionsNext]_transactionVars
               PROVE  TransactionsInv'
    OBVIOUS
  <2>1. CASE UNCHANGED transactionVars
    BY <2>1 DEF transactionVars, filedVars, offerVars, readVars, TransactionsInv,
       TransactionsTypeOK, NumberIsHeld, FiledIsWhole, CreateAnswersAreTrue, ReaderFound,
       ReadsAreWhole, OfferIsBeyond, Filed
  <2>2. ASSUME NEW c \in Client, CreateStep(c) PROVE TransactionsInv'
    <3>1. CASE FailCreate(c)
      BY <3>1, UnfiledReplyInv DEF FailCreate
    <3> QED
      BY <2>2, <3>1, InsertHeaderInv, InsertLineInv, CommitCreateInv DEF CreateStep
  <2>3. 1 \in SeqNo
    BY TransactionsAssumption DEF SeqNo
  <2> QED
    BY <2>1, <2>2, <2>3, AskNextInv, SendCreateInv, OthersInv DEF TransactionsNext
<1> QED
  BY <1>1, TransactionsInitInv, PTL DEF TransactionsSpec

(* The variables have their types, and a stored document has all its       *)
(* lines, whatever fails (the deferred Rollback in transaction.go).        *)
THEOREM TransactionsTypeCorrect == TransactionsSpec => []TransactionsTypeOK
<1>1. TransactionsInv => TransactionsTypeOK
  BY DEF TransactionsInv
<1> QED
  BY <1>1, TransactionsInvariance, PTL

(* "created" is only said to the client whose document it is, "exists"     *)
(* only of a number that has one (isUniqueViolation).                      *)
THEOREM AnswersAreTrue == TransactionsSpec => []CreateAnswersAreTrue
<1>1. TransactionsInv => CreateAnswersAreTrue
  BY DEF TransactionsInv
<1> QED
  BY <1>1, TransactionsInvariance, PTL

(* A reader sees all lines of a document or, if it was cancelled between   *)
(* the two queries, none (transaction.go:169).                             *)
THEOREM ReadsSeeWhole == TransactionsSpec => []ReadsAreWhole
<1>1. TransactionsInv => ReadsAreWhole
  BY DEF TransactionsInv
<1> QED
  BY <1>1, TransactionsInvariance, PTL

(* An offered number was beyond every active document, however many        *)
(* digits the numbers have (doc_no.go).                                    *)
THEOREM OffersWereFree == TransactionsSpec => []OfferWasFree
<1>1. TransactionsInv => OfferWasFree
  BY DEF TransactionsInv, OfferIsBeyond, OfferWasFree
<1> QED
  BY <1>1, TransactionsInvariance, PTL


(* What clients are told, offered and shown of documents is so.            *)
THEOREM DocumentsStaySound == TransactionsSpec => []DocumentsAreSound
BY AnswersAreTrue, ReadsSeeWhole, OffersWereFree, PTL DEF DocumentsAreSound

-----------------------------------------------------------------------------
(* SetAllocation: sums are counted up, a share at a time.                  *)
Sums(g, s) ==
  /\ g \in [0 .. Len(s) -> Int] /\ g[0] = 0
  /\ \A k \in 1 .. Len(s) : g[k] = g[k - 1] + s[k]

(* Every sequence of numbers has partial sums.                             *)
LEMMA SumsExist ==
  ASSUME NEW s \in Seq(Int)
  PROVE  \E g : Sums(g, s)
<1> DEFINE n == Len(s)
           rule == [p \in Int \X (1 .. n) |-> p[1] + s[p[2]]]
           S == Int
           start == 0
<1>1. n \in Nat /\ start \in S /\ \A k \in 1 .. n : s[k] \in Int
  OBVIOUS
<1>2. \A k \in 1 .. n, x \in S : rule[<<x, k>>] = x + s[k]
  OBVIOUS
<1>3. \A k \in 1 .. n, x \in S : x + s[k] \in S
  BY <1>1
<1> HIDE DEF rule, S, n, start
<1>4. StaysIn(rule, S, n)
  BY <1>2, <1>3 DEF StaysIn
<1>5. PICK g \in [0 .. n -> S] :
        g[0] = start /\ \A k \in 1 .. n : g[k] = rule[<<g[k - 1], k>>]
  BY <1>1, <1>4, Recursion
<1>6. \A k \in 1 .. n : k - 1 \in 0 .. n
  BY <1>1
<1>7. \A k \in 1 .. n : g[k] = g[k - 1] + s[k]
  BY <1>2, <1>5, <1>6
<1>8. Sums(g, s)
  BY <1>5, <1>7 DEF Sums, n, S, start
<1> QED
  BY <1>8

(* The sums of a beginning are those of the whole.                         *)
LEMMA SumsAgree ==
  ASSUME NEW s \in Seq(Int), NEW t \in Seq(Int), NEW g, NEW h, Sums(g, s), Sums(h, t),
         Len(s) <= Len(t), \A k \in 1 .. Len(s) : s[k] = t[k]
  PROVE  \A k \in 0 .. Len(s) : g[k] = h[k]
<1> DEFINE same == {k \in 0 .. Len(s) : g[k] = h[k]}
<1>1. Len(s) \in Nat /\ Len(t) \in Nat /\ same \in SUBSET (0 .. Len(s))
  OBVIOUS
<1>2. 0 \in same
  BY <1>1 DEF Sums
<1>3. ASSUME NEW k \in 1 .. Len(s), k - 1 \in same PROVE k \in same
  <2>1. k \in 0 .. Len(s) /\ k \in 1 .. Len(t)
    BY <1>1
  <2>2. g[k] = g[k - 1] + s[k] /\ h[k] = h[k - 1] + t[k]
    BY <2>1 DEF Sums
  <2> QED
    BY <1>3, <2>1, <2>2
<1>4. same = 0 .. Len(s)
  <2> HIDE DEF same
  <2> QED
    BY <1>1, <1>2, <1>3, Upwards
<1> QED
  BY <1>4

(* Total is the last of them.                                              *)
LEMMA TotalIsLastSum ==
  ASSUME NEW s \in Seq(Int), NEW g, Sums(g, s)
  PROVE  Total(s) = g[Len(s)] /\ Total(s) \in Int
<1> DEFINE IsUpTo(h) == h = [k \in 0 .. Len(s) |-> IF k = 0 THEN 0 ELSE h[k - 1] + s[k]]
           u == CHOOSE h : IsUpTo(h)
<1>0. Len(s) \in Nat /\ \A k \in 1 .. Len(s) : s[k] \in Int
  OBVIOUS
<1>1. IsUpTo(g)
  <2>1. \A k \in 0 .. Len(s) : g[k] = IF k = 0 THEN 0 ELSE g[k - 1] + s[k]
    BY <1>0 DEF Sums
  <2>2. g = [k \in 0 .. Len(s) |-> g[k]]
    BY DEF Sums
  <2> QED
    BY <2>1, <2>2
<1>2. IsUpTo(u)
  <2> HIDE DEF IsUpTo
  <2> QED
    BY <1>1
<1>3. Total(s) = u[Len(s)]
  BY DEF Total
<1> HIDE DEF u
<1>4. \A k \in 0 .. Len(s) : u[k] = IF k = 0 THEN 0 ELSE u[k - 1] + s[k]
  BY <1>2
<1>5. \A k \in 0 .. Len(s) : u[k] = g[k]
  <2> DEFINE same == {k \in 0 .. Len(s) : u[k] = g[k]}
  <2>1. 0 \in same
    BY <1>0, <1>4 DEF Sums
  <2>2. ASSUME NEW k \in 1 .. Len(s), k - 1 \in same PROVE k \in same
    <3>1. k \in 0 .. Len(s) /\ k # 0
      BY <1>0
    <3>2. g[k] = g[k - 1] + s[k] /\ u[k] = u[k - 1] + s[k]
      BY <1>4, <3>1 DEF Sums
    <3> QED
      BY <2>2, <3>1, <3>2
  <2>3. same = 0 .. Len(s)
    <3>1. same \in SUBSET (0 .. Len(s))
      OBVIOUS
    <3> HIDE DEF same
    <3> QED
      BY <1>0, <2>1, <2>2, <3>1, Upwards
  <2> QED
    BY <2>3
<1>6. Len(s) \in 0 .. Len(s)
  BY <1>0
<1> QED
  BY <1>3, <1>5, <1>6 DEF Sums

(* One more number adds to the total.                                      *)
LEMMA TotalAppend ==
  ASSUME NEW s \in Seq(Int), NEW x \in Int
  PROVE  Total(Append(s, x)) = Total(s) + x
<1> DEFINE t == Append(s, x)
<1>1. /\ t \in Seq(Int) /\ Len(t) = Len(s) + 1 /\ Len(s) \in Nat
      /\ t[Len(s) + 1] = x /\ \A k \in 1 .. Len(s) : s[k] = t[k]
  OBVIOUS
<1> HIDE DEF t
<1>2. PICK g : Sums(g, s)
  BY SumsExist
<1>3. PICK h : Sums(h, t)
  BY <1>1, SumsExist
<1>4. Len(s) <= Len(t) /\ Len(s) \in 0 .. Len(s) /\ Len(t) \in 1 .. Len(t)
      /\ Len(t) - 1 = Len(s)
  BY <1>1
<1>5. g[Len(s)] = h[Len(s)]
  BY <1>1, <1>2, <1>3, <1>4, SumsAgree
<1>6. h[Len(t)] = h[Len(s)] + x
  BY <1>1, <1>3, <1>4 DEF Sums
<1>7. Total(t) = h[Len(t)] /\ Total(s) = g[Len(s)]
  BY <1>1, <1>2, <1>3, TotalIsLastSum
<1> QED
  BY <1>5, <1>6, <1>7 DEF t

-----------------------------------------------------------------------------
(* Rounding.                                                               *)
LEMMA Division ==
  ASSUME NEW n \in Nat, NEW d \in Nat \ {0}
  PROVE  /\ n \div d \in Nat /\ n % d \in 0 .. d - 1
         /\ n = d * (n \div d) + (n % d)
OBVIOUS

(* A rounded quotient is within half a unit of the exact one.              *)
LEMMA RoundsNear ==
  ASSUME NEW n \in Nat, NEW d \in Nat \ {0}
  PROVE  /\ roundRat(n, d) \in Nat
         /\ 2 * (roundRat(n, d) * d - n) <= d
         /\ 2 * (n - roundRat(n, d) * d) <= d
<1> DEFINE q == n \div d
           m == n % d
<1>1. q \in Nat /\ m \in Nat /\ m < d /\ n = d * q + m
  BY Division
<1>2. roundRat(n, d) = IF 2 * m >= d THEN q + 1 ELSE q
  BY <1>1 DEF roundRat
<1> HIDE DEF q, m
<1>3. d * q \in Nat /\ q * d = d * q /\ (q + 1) * d = d * q + d
  BY <1>1
<1>4. CASE 2 * m >= d
  BY <1>1, <1>2, <1>3, <1>4
<1>5. CASE ~(2 * m >= d)
  BY <1>1, <1>2, <1>3, <1>5
<1> QED
  BY <1>4, <1>5

-----------------------------------------------------------------------------
(* The shares of an amount.                                                *)
LEMMA WeightsCount ==
  ASSUME NEW w \in Seq(Nat \ {0}), w # <<>>
  PROVE  w \in Seq(Int) /\ Total(w) \in Nat \ {0} /\ Len(w) \in Nat \ {0}
<1>1. w \in Seq(Int) /\ Len(w) \in Nat \ {0} /\ \A k \in 1 .. Len(w) : w[k] \in Nat \ {0}
  OBVIOUS
<1>2. PICK g : Sums(g, w)
  BY <1>1, SumsExist
<1> DEFINE good == {k \in 0 .. Len(w) : g[k] >= k}
<1>3. 0 \in good
  BY <1>1, <1>2 DEF Sums
<1>4. ASSUME NEW k \in 1 .. Len(w), k - 1 \in good PROVE k \in good
  <2>1. k \in 0 .. Len(w) /\ k - 1 \in 0 .. Len(w) /\ w[k] \in Nat \ {0}
    BY <1>1
  <2>2. g[k] = g[k - 1] + w[k] /\ g[k - 1] \in Int
    BY <1>2, <2>1 DEF Sums
  <2> QED
    BY <1>4, <2>1, <2>2
<1>5. good = 0 .. Len(w)
  <2>1. good \in SUBSET (0 .. Len(w))
    OBVIOUS
  <2> HIDE DEF good
  <2> QED
    BY <1>1, <1>3, <1>4, <2>1, Upwards
<1>6. Len(w) \in good
  BY <1>1, <1>5
<1> QED
  BY <1>1, <1>2, <1>6, TotalIsLastSum

(* The shares but the last.                                                *)
RoundedShares(total, w) == [i \in 1 .. Len(w) - 1 |-> Share(total, w, i)]

(* Each share but the last is within half a cent of what is due.           *)
LEMMA SharesType ==
  ASSUME NEW total \in Nat, NEW w \in Seq(Nat \ {0}), w # <<>>
  PROVE  /\ RoundedShares(total, w) \in Seq(Int)
         /\ Len(RoundedShares(total, w)) = Len(w) - 1
         /\ \A i \in 1 .. Len(w) - 1 :
              /\ RoundedShares(total, w)[i] = Share(total, w, i)
              /\ Share(total, w, i) \in Nat
              /\ 2 * (Share(total, w, i) * Total(w) - total * w[i]) <= Total(w)
              /\ 2 * (total * w[i] - Share(total, w, i) * Total(w)) <= Total(w)
<1>1. Total(w) \in Nat \ {0} /\ Len(w) \in Nat \ {0}
  BY WeightsCount
<1>2. \A i \in 1 .. Len(w) - 1 : i \in 1 .. Len(w) /\ w[i] \in Nat \ {0}
  OBVIOUS
<1>3. \A i \in 1 .. Len(w) - 1 : total * w[i] \in Nat
  BY <1>2
<1>4. \A i \in 1 .. Len(w) - 1 :
        /\ Share(total, w, i) \in Nat
        /\ 2 * (Share(total, w, i) * Total(w) - total * w[i]) <= Total(w)
        /\ 2 * (total * w[i] - Share(total, w, i) * Total(w)) <= Total(w)
  BY <1>1, <1>3, RoundsNear DEF Share
<1>5. \A i \in 1 .. Len(w) - 1 : RoundedShares(total, w)[i] = Share(total, w, i)
  BY DEF RoundedShares
<1>6. RoundedShares(total, w) \in Seq(Int) /\ Len(RoundedShares(total, w)) = Len(w) - 1
  <2> DEFINE n == Len(w) - 1
             share(i) == Share(total, w, i)
  <2>1. n \in Nat /\ RoundedShares(total, w) = [i \in 1 .. n |-> share(i)]
    BY <1>1 DEF RoundedShares
  <2>2. \A i \in 1 .. n : share(i) \in Int
    BY <1>4
  <2> HIDE DEF n, share
  <2>3. RoundedShares(total, w) \in [1 .. n -> Int]
    BY <2>1, <2>2
  <2>4. RoundedShares(total, w) \in Seq(Int) /\ Len(RoundedShares(total, w)) = n
    BY <2>1, <2>3
  <2> QED
    BY <2>4 DEF n
<1> QED
  BY <1>4, <1>5, <1>6

(* Shares add up to the amount, since the last one is what is left.        *)
LEMMA AllocateIs ==
  ASSUME NEW total \in Nat, NEW w \in Seq(Nat \ {0}), w # <<>>
  PROVE  /\ Total(RoundedShares(total, w)) \in Int
         /\ Total(AllocateCents(total, w)) = total
         /\ AllocateCents(total, w)[Len(w)] = total - Total(RoundedShares(total, w))
         /\ \A i \in 1 .. Len(w) - 1 : AllocateCents(total, w)[i] = Share(total, w, i)
<1> DEFINE r == RoundedShares(total, w)
           x == total - Total(r)
<1>1. AllocateCents(total, w) = Append(r, x)
  BY DEF AllocateCents, RoundedShares
<1>2. r \in Seq(Int) /\ Len(r) = Len(w) - 1
  BY SharesType
<1>3. Len(w) \in Nat \ {0} /\ \A i \in 1 .. Len(w) - 1 : r[i] = Share(total, w, i)
  BY SharesType, WeightsCount
<1> HIDE DEF r
<1>4. Total(r) \in Int
  BY <1>2, SumsExist, TotalIsLastSum
<1>5. x \in Int /\ Total(r) + x = total
  BY <1>4
<1> HIDE DEF x
<1>6. Total(Append(r, x)) = total
  BY <1>2, <1>5, TotalAppend
<1>7. Append(r, x)[Len(w)] = x /\ \A i \in 1 .. Len(w) - 1 : Append(r, x)[i] = r[i]
  BY <1>2, <1>3, <1>5
<1> QED
  BY <1>1, <1>3, <1>4, <1>6, <1>7 DEF r, x

(* The error of the first shares together is half a cent for each.         *)
LEMMA ErrorsAddUp ==
  ASSUME NEW total \in Nat, NEW w \in Seq(Nat \ {0}), w # <<>>,
         NEW g, NEW h, Sums(g, w), Sums(h, RoundedShares(total, w))
  PROVE  \A k \in 0 .. Len(w) - 1 :
           /\ 2 * (total * g[k] - h[k] * Total(w)) <= k * Total(w)
           /\ 2 * (h[k] * Total(w) - total * g[k]) <= k * Total(w)
<1> DEFINE W == Total(w)
           n == Len(w) - 1
           good == {k \in 0 .. n : /\ 2 * (total * g[k] - h[k] * W) <= k * W
                                   /\ 2 * (h[k] * W - total * g[k]) <= k * W}
<1>1. W \in Nat \ {0} /\ Len(w) \in Nat \ {0} /\ n \in Nat
  BY WeightsCount
<1>2. /\ g[0] = 0 /\ h[0] = 0 /\ \A k \in 0 .. n : g[k] \in Int /\ h[k] \in Int
      /\ \A k \in 1 .. n : /\ g[k] = g[k - 1] + w[k]
                           /\ h[k] = h[k - 1] + Share(total, w, k)
  <2>1. Len(RoundedShares(total, w)) = n
    BY SharesType
  <2>2. \A k \in 1 .. n : RoundedShares(total, w)[k] = Share(total, w, k)
    BY SharesType
  <2>3. \A k \in 0 .. n : k \in 0 .. Len(w)
    BY <1>1
  <2>4. \A k \in 1 .. n : k \in 1 .. Len(w)
    BY <1>1
  <2> QED
    BY <2>1, <2>2, <2>3, <2>4 DEF Sums
<1>3. \A k \in 1 .. n : /\ w[k] \in Nat /\ Share(total, w, k) \in Nat
                        /\ 2 * (Share(total, w, k) * W - total * w[k]) <= W
                        /\ 2 * (total * w[k] - Share(total, w, k) * W) <= W
  <2>1. \A k \in 1 .. n : w[k] \in Nat
    BY <1>1
  <2> QED
    BY <2>1, SharesType
<1> HIDE DEF W, n
<1>4. 0 \in good
  BY <1>1, <1>2
<1>5. ASSUME NEW k \in 1 .. n, k - 1 \in good PROVE k \in good
  <2>1. k \in 0 .. n /\ k - 1 \in 0 .. n /\ k \in Nat
    BY <1>1
  <2>2. /\ 2 * (total * g[k - 1] - h[k - 1] * W) <= (k - 1) * W
        /\ 2 * (h[k - 1] * W - total * g[k - 1]) <= (k - 1) * W
    BY <1>5
  <2> DEFINE a == g[k - 1]
             b == h[k - 1]
             c == w[k]
             e == Share(total, w, k)
  <2>3. a \in Int /\ b \in Int /\ c \in Int /\ e \in Int
        /\ g[k] = a + c /\ h[k] = b + e
    BY <1>2, <1>3, <2>1
  <2>4. 2 * (e * W - total * c) <= W /\ 2 * (total * c - e * W) <= W
    BY <1>3
  <2> HIDE DEF a, b, c, e
  <2>5. total * (a + c) = total * a + total * c
    BY <2>3
  <2>6. (b + e) * W = b * W + e * W
    BY <1>1, <2>3
  <2>7. (k - 1) * W + W = k * W
    BY <1>1, <2>1
  <2>8. /\ 2 * (total * a - b * W) <= (k - 1) * W
        /\ 2 * (b * W - total * a) <= (k - 1) * W
    BY <2>2 DEF a, b
  <2>9. /\ total * a \in Int /\ total * c \in Int /\ b * W \in Int /\ e * W \in Int
        /\ (k - 1) * W \in Int
    BY <1>1, <2>1, <2>3
  <2>10. /\ 2 * (total * (a + c) - (b + e) * W) <= k * W
         /\ 2 * ((b + e) * W - total * (a + c)) <= k * W
    <3> DEFINE ta == total * a
               tc == total * c
               bW == b * W
               eW == e * W
               jW == (k - 1) * W
    <3>1. /\ total * (a + c) = ta + tc /\ (b + e) * W = bW + eW
          /\ k * W = jW + W
      BY <2>5, <2>6, <2>7
    <3>2. ta \in Int /\ tc \in Int /\ bW \in Int /\ eW \in Int /\ jW \in Int
      BY <2>9
    <3>3. /\ 2 * (ta - bW) <= jW /\ 2 * (bW - ta) <= jW
          /\ 2 * (eW - tc) <= W /\ 2 * (tc - eW) <= W
      BY <2>4, <2>8
    <3> HIDE DEF ta, tc, bW, eW, jW
    <3>4. /\ 2 * ((ta + tc) - (bW + eW)) <= jW + W
          /\ 2 * ((bW + eW) - (ta + tc)) <= jW + W
      BY <1>1, <3>2, <3>3
    <3> QED
      BY <3>1, <3>4
  <2> QED
    BY <2>1, <2>3, <2>10
<1>6. good = 0 .. n
  <2>1. good \in SUBSET (0 .. n)
    OBVIOUS
  <2> HIDE DEF good
  <2> QED
    BY <1>1, <1>4, <1>5, <2>1, Upwards
<1> QED
  BY <1>6 DEF n, W

(* A gap is a difference, and not negative.                                *)
LEMMA GapIs ==
  ASSUME NEW a \in Int, NEW b \in Int
  PROVE  /\ Gap(a, b) \in Nat /\ (Gap(a, b) = a - b \/ Gap(a, b) = b - a)
BY DEF Gap

(* So the last share errs by as much as all the others together.           *)
LEMMA LastShareIsDue ==
  ASSUME NEW total \in Nat, NEW w \in Seq(Nat \ {0}), w # <<>>
  PROVE  /\ AllocateCents(total, w)[Len(w)] \in Int
         /\ 2 * Gap(AllocateCents(total, w)[Len(w)] * Total(w), total * w[Len(w)])
              <= Total(w) * (Len(w) - 1)
<1> DEFINE W == Total(w)
           r == RoundedShares(total, w)
           n == Len(w) - 1
           R == Total(r)
           x == w[Len(w)]
<1>1. W \in Nat \ {0} /\ Len(w) \in Nat \ {0} /\ n \in Nat /\ w \in Seq(Int)
      /\ n = Len(w) - 1
  BY WeightsCount
<1>2. PICK g : Sums(g, w)
  BY <1>1, SumsExist
<1>3. r \in Seq(Int) /\ Len(r) = n
  BY SharesType
<1>4. PICK h : Sums(h, r)
  BY <1>3, SumsExist
<1>5. W = g[Len(w)] /\ R = h[n] /\ R \in Int
  BY <1>1, <1>2, <1>3, <1>4, TotalIsLastSum
<1>6. Len(w) \in 1 .. Len(w) /\ n \in 0 .. n /\ n \in 0 .. Len(w) /\ x \in Nat
  <2> HIDE DEF n
  <2> QED
    BY <1>1
<1>7. W = g[n] + x /\ g[n] \in Int
  <2> HIDE DEF n
  <2> QED
    BY <1>1, <1>2, <1>5, <1>6 DEF Sums
<1>8. /\ 2 * (total * g[n] - R * W) <= n * W
      /\ 2 * (R * W - total * g[n]) <= n * W
  BY <1>1, <1>2, <1>4, <1>5, <1>6, ErrorsAddUp
<1>9. AllocateCents(total, w)[Len(w)] = total - R
  BY AllocateIs
<1> DEFINE y == g[n]
<1> HIDE DEF W, R, n, x, r, y
<1>10. y \in Int /\ W = y + x
  BY <1>7 DEF y
<1>11. (total - R) * W = total * W - R * W
  BY <1>1, <1>5
<1>12. total * W = total * y + total * x
  BY <1>6, <1>10
<1>13. (total - R) * W - total * x = total * y - R * W
  <2>1. total * x \in Int /\ total * y \in Int /\ R * W \in Int /\ total * W \in Int
    BY <1>1, <1>5, <1>6, <1>10
  <2> QED
    BY <1>11, <1>12, <2>1
<1>14. W * n = n * W /\ W * n \in Nat
  BY <1>1
<1> DEFINE p == (total - R) * W
           q == total * x
<1>15. p \in Int /\ q \in Int
  BY <1>1, <1>5, <1>6
<1>16. 2 * (p - q) <= W * n /\ 2 * (q - p) <= W * n
  <2>1. total * y \in Int /\ R * W \in Int
    BY <1>1, <1>5, <1>10
  <2>2. 2 * (total * y - R * W) <= W * n /\ 2 * (R * W - total * y) <= W * n
    BY <1>8, <1>14 DEF y
  <2>3. p - q = total * y - R * W /\ q - p = R * W - total * y
    <3> HIDE DEF p, q
    <3>1. p - q = total * y - R * W
      BY <1>13 DEF p, q
    <3> QED
      BY <1>15, <2>1, <3>1
  <2> HIDE DEF p, q
  <2> QED
    BY <2>2, <2>3
<1>17. 2 * Gap(p, q) <= W * n
  <2> HIDE DEF p, q
  <2> QED
    BY <1>14, <1>15, <1>16, GapIs
<1> QED
  BY <1>1, <1>5, <1>9, <1>17 DEF p, q, W, x, n

(* The others err by half a cent at most.                                  *)
LEMMA FirstShareIsDue ==
  ASSUME NEW total \in Nat, NEW w \in Seq(Nat \ {0}), w # <<>>, NEW i \in 1 .. Len(w) - 1
  PROVE  2 * Gap(Share(total, w, i) * Total(w), total * w[i]) <= Total(w)
<1> DEFINE p == Share(total, w, i) * Total(w)
           q == total * w[i]
<1>1. Total(w) \in Nat \ {0} /\ w[i] \in Nat
  BY WeightsCount
<1>2. Share(total, w, i) \in Nat
  BY SharesType
<1>3. p \in Int /\ q \in Int
  BY <1>1, <1>2
<1>4. 2 * (p - q) <= Total(w) /\ 2 * (q - p) <= Total(w)
  BY SharesType
<1> HIDE DEF p, q
<1>5. 2 * Gap(p, q) <= Total(w)
  BY <1>1, <1>3, <1>4, GapIs
<1> QED
  BY <1>5 DEF p, q

(* Three roundings are less than two cents apart.                          *)
LEMMA RoundsTogether ==
  ASSUME NEW W \in Nat \ {0}, NEW m \in Nat, NEW n \in Nat,
         NEW s \in Nat, NEW a \in Nat, NEW b \in Nat,
         2 * (s * W - (m + n)) <= W, 2 * ((m + n) - s * W) <= W,
         2 * (a * W - m) <= W, 2 * (m - a * W) <= W,
         2 * (b * W - n) <= W, 2 * (n - b * W) <= W
  PROVE  Gap(s, a + b) <= 1
<1> DEFINE t == s - a - b
<1>1. t \in Int /\ s = t + a + b
  OBVIOUS
<1>2. t * W = s * W - a * W - b * W
  OBVIOUS
<1>3. s * W \in Int /\ a * W \in Int /\ b * W \in Int
  OBVIOUS
<1> HIDE DEF t
<1>4. 2 * (t * W) <= 3 * W /\ 2 * (t * W) >= -(3 * W)
  BY <1>2, <1>3
<1>5. t < 2
  <2> SUFFICES ASSUME t >= 2 PROVE FALSE
    BY <1>1
  <2>1. PICK u \in Nat : t = u + 2
    <3>1. t - 2 \in Nat /\ t = (t - 2) + 2
      BY <1>1
    <3> QED
      BY <3>1
  <2>2. t * W = u * W + 2 * W /\ u * W \in Nat
    BY <2>1
  <2> QED
    BY <1>4, <2>2
<1>6. t > -2
  <2> SUFFICES ASSUME t <= -2 PROVE FALSE
    BY <1>1
  <2>1. PICK u \in Nat : t = -2 - u
    <3>1. -2 - t \in Nat /\ t = -2 - (-2 - t)
      BY <1>1
    <3> QED
      BY <3>1
  <2>2. t * W = -(2 * W) - u * W /\ u * W \in Nat
    BY <2>1
  <2> QED
    BY <1>4, <2>2
<1>7. t \in {-1, 0, 1}
  BY <1>1, <1>5, <1>6
<1> QED
  BY <1>1, <1>7 DEF Gap

(* A set costs what it costs, each component its part of it, and sums, net *)
(* amounts and taxes agree, for all amounts and weights                    *)
(* (setproducts.go, prepareDocumentItems).                                 *)
THEOREM SplitsAreFair == AllocInit => SplitIsFair
<1> SUFFICES ASSUME AllocInit PROVE SplitIsFair
  OBVIOUS
<1>1. PICK w \in BoundedSeq(Weight, MaxComponents) \ {<<>>},
           n \in 0 .. MaxNet, v \in 0 .. MaxVat :
        setLine = [net |-> n, vat |-> v, weights |-> w]
  BY DEF AllocInit
<1>2. w \in Seq(Nat \ {0}) /\ w # <<>>
  <2>1. PICK m \in 0 .. MaxComponents : w \in [1 .. m -> Weight]
    BY <1>1 DEF BoundedSeq, SeqOf
  <2>2. m \in Nat
    BY WeightAssumption
  <2>3. \A i \in 1 .. m : w[i] \in Nat \ {0}
    BY <2>1, WeightAssumption
  <2>4. w \in [1 .. m -> Nat \ {0}]
    BY <2>1, <2>3
  <2> QED
    BY <1>1, <2>2, <2>4
<1>3. n \in Nat /\ v \in Nat /\ n + v \in Nat
  BY WeightAssumption
<1>4. Total(w) \in Nat \ {0} /\ Len(w) \in Nat \ {0} /\ DOMAIN w = 1 .. Len(w)
      /\ \A i \in DOMAIN w : w[i] \in Nat
  BY <1>2, WeightsCount
<1>5. setLine.net = n /\ setLine.vat = v /\ setLine.weights = w
  BY <1>1
<1>6. /\ Components(setLine).sum = AllocateCents(n + v, w)
      /\ Components(setLine).net = AllocateCents(n, w)
      /\ Components(setLine).vat = AllocateCents(v, w)
  BY <1>5 DEF Components
<1>7. CentsAreKept
  BY <1>2, <1>3, <1>5, <1>6, AllocateIs DEF CentsAreKept
<1>8. SharesAreDue
  <2> SUFFICES ASSUME NEW i \in DOMAIN w
               PROVE  2 * Gap(AllocateCents(n, w)[i] * Total(w), n * w[i])
                        <= Total(w) * (IF i < Len(w) THEN 1 ELSE Len(w) - 1)
    BY <1>5 DEF SharesAreDue
  <2>1. CASE i < Len(w)
    <3>1. i \in 1 .. Len(w) - 1
      BY <1>4, <2>1
    <3>2. 2 * Gap(Share(n, w, i) * Total(w), n * w[i]) <= Total(w)
      BY <1>2, <1>3, <3>1, FirstShareIsDue
    <3>3. AllocateCents(n, w)[i] = Share(n, w, i)
      BY <1>2, <1>3, <3>1, AllocateIs
    <3>4. Total(w) * 1 = Total(w)
      BY <1>4
    <3> QED
      BY <2>1, <3>2, <3>3, <3>4
  <2>2. CASE i = Len(w)
    <3>1. 2 * Gap(AllocateCents(n, w)[Len(w)] * Total(w), n * w[Len(w)])
            <= Total(w) * (Len(w) - 1)
      BY <1>2, <1>3, LastShareIsDue
    <3>2. ~(i < Len(w))
      BY <1>4, <2>2
    <3> QED
      BY <2>2, <3>1, <3>2
  <2> QED
    BY <1>4, <2>1, <2>2
<1>9. ComponentsAddUp
  <2> SUFFICES ASSUME NEW i \in 1 .. Len(w) - 1
               PROVE  Gap(AllocateCents(n + v, w)[i],
                          AllocateCents(n, w)[i] + AllocateCents(v, w)[i]) <= 1
    BY <1>5, <1>6 DEF ComponentsAddUp
  <2>1. /\ AllocateCents(n + v, w)[i] = Share(n + v, w, i)
        /\ AllocateCents(n, w)[i] = Share(n, w, i)
        /\ AllocateCents(v, w)[i] = Share(v, w, i)
    BY <1>2, <1>3, AllocateIs
  <2> DEFINE W == Total(w)
             s == Share(n + v, w, i)
             a == Share(n, w, i)
             b == Share(v, w, i)
             x == n * w[i]
             y == v * w[i]
  <2>2. w[i] \in Nat
    BY <1>4
  <2>3. x \in Nat /\ y \in Nat /\ (n + v) * w[i] = x + y
    BY <1>3, <2>2
  <2>4. /\ s \in Nat /\ 2 * (s * W - (n + v) * w[i]) <= W
        /\ 2 * ((n + v) * w[i] - s * W) <= W
    BY <1>2, <1>3, SharesType
  <2>5. a \in Nat /\ 2 * (a * W - x) <= W /\ 2 * (x - a * W) <= W
    BY <1>2, <1>3, SharesType
  <2>6. b \in Nat /\ 2 * (b * W - y) <= W /\ 2 * (y - b * W) <= W
    BY <1>2, <1>3, SharesType
  <2>7. 2 * (s * W - (x + y)) <= W /\ 2 * ((x + y) - s * W) <= W
    BY <2>3, <2>4
  <2>8. W \in Nat \ {0}
    BY <1>4
  <2> HIDE DEF W, s, a, b, x, y
  <2>9. Gap(s, a + b) <= 1
    BY <2>3, <2>4, <2>5, <2>6, <2>7, <2>8, RoundsTogether
  <2> QED
    BY <2>1, <2>9 DEF s, a, b
<1> QED
  BY <1>7, <1>8, <1>9 DEF SplitIsFair

-----------------------------------------------------------------------------
(* RelatedGraph: how far a document is from another.                       *)
(* The documents of s next to t by r.                                      *)
Wider(s, r, t) == t \cup {d \in s : \E e \in t : <<d, e>> \in r \/ <<e, d>> \in r}

IsHops(g, o, s, r, n) ==
  g = [k \in 0 .. n |-> IF k = 0 THEN {o} ELSE Wider(s, r, g[k - 1])]

(* There are distances up to any n, for any documents and references.      *)
LEMMA HopsExist ==
  ASSUME NEW o, NEW s, NEW r, NEW n \in Nat
  PROVE  \E g : IsHops(g, o, s, r, n)
<1> DEFINE S == SUBSET (s \cup {o})
           rule == [p \in S \X (1 .. n) |-> Wider(s, r, p[1])]
           c == {o}
<1>1. c \in S
  OBVIOUS
<1>2. \A t \in S : Wider(s, r, t) \in S
  BY DEF Wider
<1>3. StaysIn(rule, S, n)
  <2> HIDE DEF S
  <2> QED
    BY <1>2 DEF StaysIn
<1> HIDE DEF S, rule, c
<1>4. PICK g \in [0 .. n -> S] :
        g[0] = c /\ \A k \in 1 .. n : g[k] = rule[<<g[k - 1], k>>]
  BY <1>1, <1>3, Recursion
<1>5. \A k \in 1 .. n : rule[<<g[k - 1], k>>] = Wider(s, r, g[k - 1])
  <2> SUFFICES ASSUME NEW k \in 1 .. n
               PROVE  rule[<<g[k - 1], k>>] = Wider(s, r, g[k - 1])
    OBVIOUS
  <2>1. k - 1 \in 0 .. n
    OBVIOUS
  <2>2. <<g[k - 1], k>> \in S \X (1 .. n)
    BY <2>1
  <2> QED
    BY <2>2 DEF rule
<1>6. \A k \in 0 .. n : g[k] = IF k = 0 THEN {o} ELSE Wider(s, r, g[k - 1])
  <2>1. \A k \in 0 .. n : k # 0 => k \in 1 .. n
    OBVIOUS
  <2> QED
    BY <2>1, <1>4, <1>5 DEF c
<1>7. IsHops(g, o, s, r, n)
  <2>1. g = [k \in 0 .. n |-> g[k]]
    OBVIOUS
  <2> QED
    BY <2>1, <1>6 DEF IsHops
<1> QED
  BY <1>7

(* The recursion has one solution, the same for all bounds.                *)
LEMMA HopsAgree ==
  ASSUME NEW o, NEW s, NEW r, NEW m \in Nat, NEW n \in Nat, NEW g, NEW h,
         IsHops(g, o, s, r, m), IsHops(h, o, s, r, n), m <= n
  PROVE  \A k \in 0 .. m : g[k] = h[k]
<1> DEFINE same == {k \in 0 .. m : g[k] = h[k]}
<1>1. \A k \in 0 .. m : g[k] = IF k = 0 THEN {o} ELSE Wider(s, r, g[k - 1])
  BY DEF IsHops
<1>2. \A k \in 0 .. n : h[k] = IF k = 0 THEN {o} ELSE Wider(s, r, h[k - 1])
  BY DEF IsHops
<1>3. \A k \in 0 .. m : k \in 0 .. n
  OBVIOUS
<1>4. 0 \in same
  BY <1>1, <1>2
<1>5. ASSUME NEW k \in 1 .. m, k - 1 \in same PROVE k \in same
  <2>1. k \in 0 .. m /\ k # 0
    OBVIOUS
  <2> QED
    BY <2>1, <1>1, <1>2, <1>3, <1>5
<1>6. same = 0 .. m
  <2>1. same \in SUBSET (0 .. m)
    OBVIOUS
  <2> HIDE DEF same
  <2> QED
    BY <2>1, <1>4, <1>5, Upwards
<1> QED
  BY <1>6

(* Around is the last of them.                                             *)
LEMMA AroundIsHops ==
  ASSUME NEW o, NEW s, NEW r, NEW n \in Nat, NEW g, IsHops(g, o, s, r, n)
  PROVE  Around(o, s, r, n) = g[n]
<1> DEFINE h == CHOOSE h : IsHops(h, o, s, r, n)
<1>1. IsHops(h, o, s, r, n)
  OBVIOUS
<1>2. Around(o, s, r, n) = h[n]
  BY DEF Around, IsHops, Wider
<1> HIDE DEF h
<1>3. g[n] = h[n]
  BY <1>1, HopsAgree
<1> QED
  BY <1>2, <1>3

(* No reference away is the document itself.                               *)
LEMMA AroundZero ==
  ASSUME NEW o, NEW s, NEW r
  PROVE  Around(o, s, r, 0) = {o}
<1>1. PICK g : IsHops(g, o, s, r, 0)
  BY HopsExist
<1>2. g[0] = {o}
  BY <1>1 DEF IsHops
<1> QED
  BY <1>1, <1>2, AroundIsHops

(* One reference further.                                                  *)
LEMMA AroundNext ==
  ASSUME NEW o, NEW s, NEW r, NEW n \in Nat
  PROVE  Around(o, s, r, n + 1) = Wider(s, r, Around(o, s, r, n))
<1>1. PICK g : IsHops(g, o, s, r, n)
  BY HopsExist
<1>2. PICK h : IsHops(h, o, s, r, n + 1)
  BY HopsExist
<1>3. g[n] = h[n]
  BY <1>1, <1>2, HopsAgree
<1>4. h[n + 1] = Wider(s, r, h[n])
  <2>1. \A k \in 0 .. n + 1 : h[k] = IF k = 0 THEN {o} ELSE Wider(s, r, h[k - 1])
    BY <1>2 DEF IsHops
  <2>2. n + 1 \in 0 .. n + 1 /\ n + 1 # 0 /\ (n + 1) - 1 = n
    OBVIOUS
  <2> QED
    BY <2>1, <2>2
<1> QED
  BY <1>1, <1>2, <1>3, <1>4, AroundIsHops

(* It grows with what is looked at and with the distance.                  *)
LEMMA AroundGrows ==
  ASSUME NEW o, NEW s, NEW t, NEW r, NEW q, s \subseteq t, r \subseteq q,
         NEW n \in Nat
  PROVE  Around(o, s, r, n) \subseteq Around(o, t, q, n)
<1> DEFINE good == {k \in 0 .. n : Around(o, s, r, k) \subseteq Around(o, t, q, k)}
<1>1. 0 \in good
  BY AroundZero
<1>2. ASSUME NEW k \in 1 .. n, k - 1 \in good PROVE k \in good
  <2>1. k \in 0 .. n /\ k - 1 \in Nat /\ k - 1 + 1 = k
    OBVIOUS
  <2>2. /\ Around(o, s, r, k) = Wider(s, r, Around(o, s, r, k - 1))
        /\ Around(o, t, q, k) = Wider(t, q, Around(o, t, q, k - 1))
    BY <2>1, AroundNext
  <2>3. Around(o, s, r, k - 1) \subseteq Around(o, t, q, k - 1)
    BY <1>2
  <2>4. Around(o, s, r, k) \subseteq Around(o, t, q, k)
    BY <2>2, <2>3 DEF Wider
  <2> QED
    BY <2>1, <2>4
<1>3. good = 0 .. n
  <2>1. good \in SUBSET (0 .. n)
    OBVIOUS
  <2> HIDE DEF good
  <2> QED
    BY <2>1, <1>1, <1>2, Upwards
<1> QED
  BY <1>3

(* What is near is not far.                                                *)
LEMMA AroundWidens ==
  ASSUME NEW o, NEW s, NEW r, NEW m \in Nat, NEW n \in Nat, m <= n
  PROVE  Around(o, s, r, m) \subseteq Around(o, s, r, n)
<1> DEFINE good == {k \in 0 .. n - m : Around(o, s, r, m) \subseteq Around(o, s, r, m + k)}
<1>0. n - m \in Nat
  OBVIOUS
<1>1. 0 \in good
  OBVIOUS
<1>2. ASSUME NEW k \in 1 .. n - m, k - 1 \in good PROVE k \in good
  <2>1. k \in 0 .. n - m /\ m + (k - 1) \in Nat /\ m + (k - 1) + 1 = m + k
    OBVIOUS
  <2>2. Around(o, s, r, m + k) = Wider(s, r, Around(o, s, r, m + (k - 1)))
    BY <2>1, AroundNext
  <2>3. Around(o, s, r, m) \subseteq Around(o, s, r, m + k)
    BY <1>2, <2>2 DEF Wider
  <2> QED
    BY <2>1, <2>3
<1>3. good = 0 .. n - m
  <2>1. good \in SUBSET (0 .. n - m)
    OBVIOUS
  <2> HIDE DEF good
  <2> QED
    BY <1>0, <2>1, <1>1, <1>2, Upwards
<1>4. n - m \in good /\ m + (n - m) = n
  BY <1>0, <1>3
<1> QED
  BY <1>4

(* Documents of s and the first one.                                       *)
LEMMA AroundWithin ==
  ASSUME NEW o, NEW s, NEW r, NEW n \in Nat
  PROVE  o \in Around(o, s, r, n) /\ Around(o, s, r, n) \subseteq s \cup {o}
<1> DEFINE good == {k \in 0 .. n : Around(o, s, r, k) \subseteq s \cup {o}}
<1>1. 0 \in good
  BY AroundZero
<1>2. ASSUME NEW k \in 1 .. n, k - 1 \in good PROVE k \in good
  <2>1. k \in 0 .. n /\ k - 1 \in Nat /\ k - 1 + 1 = k
    OBVIOUS
  <2>2. Around(o, s, r, k) = Wider(s, r, Around(o, s, r, k - 1))
    BY <2>1, AroundNext
  <2> QED
    BY <1>2, <2>1, <2>2 DEF Wider
<1>3. good = 0 .. n
  <2>1. good \in SUBSET (0 .. n)
    OBVIOUS
  <2> HIDE DEF good
  <2> QED
    BY <2>1, <1>1, <1>2, Upwards
<1>4. o \in Around(o, s, r, 0) /\ Around(o, s, r, 0) \subseteq Around(o, s, r, n)
  BY AroundZero, AroundWidens
<1> QED
  BY <1>3, <1>4

-----------------------------------------------------------------------------
Adjacent(r, d, e) == <<d, e>> \in r \/ <<e, d>> \in r

InQueue(d) == \E i \in DOMAIN queue : queue[i].doc = d

(* What waits is as near as its label says, and so is what is being read.  *)
NearInv ==
  /\ root \in nodes
  /\ nodes \subseteq Around(root, nodes, edges, depth)
  /\ \A i \in DOMAIN queue :
       queue[i].doc \in Around(root, nodes, edges, queue[i].depth)
  /\ linked # {} =>
       /\ hop < depth
       /\ \E e \in Around(root, nodes, edges, hop) :
            \A d \in linked : Adjacent(edges, d, e)

(* The answer shows nothing that the ERP does not have, while it is still. *)
StillInv ==
  still => nodes \subseteq present /\ edges \subseteq link

(* The queue is in the order of the distance, of the document looked at    *)
(* last and one more.                                                      *)
QueueInv ==
  /\ \A i \in DOMAIN queue : queue[i].depth \in {hop, hop + 1}
  /\ \A i, j \in DOMAIN queue : i < j => queue[i].depth <= queue[j].depth
  /\ nodes \cap linked = {}

(* All documents as near as the one looked at last are known, and those    *)
(* around a known one that waits no more.                                  *)
LevelInv ==
  (still /\ ~truncated) =>
    /\ Around(root, present, link, hop) \subseteq nodes
    /\ \A i \in DOMAIN queue :
         queue[i].depth = hop + 1
           => queue[i].doc \notin Around(root, present, link, hop)
    /\ \A e \in nodes :
         \/ InQueue(e)
         \/ hop = depth
         \/ \A d \in present : Adjacent(link, d, e) => d \in nodes \cup linked

(* The documents placed so far are different ones, each after those it     *)
(* refers to.                                                              *)
SortInv ==
  /\ walk = "walking" => order = <<>>
  /\ walk # "walking" => queue = <<>> /\ linked = {}
  /\ walk = "sorting" =>
       /\ \A i, j \in DOMAIN order : order[i] = order[j] => i = j
       /\ \A i \in DOMAIN order, l \in edges :
            l[2] = order[i] /\ l[1] \in nodes
              => \E j \in DOMAIN order : j < i /\ order[j] = l[1]

GraphInv ==
  /\ GraphTypeOK /\ NearInv /\ StillInv /\ QueueInv /\ LevelInv /\ SortInv
  /\ OrderFollowsReferences

USE GraphAssumption

LEMMA Endpoints ==
  ASSUME NEW l \in Link
  PROVE  l[1] \in Doc /\ l[2] \in Doc /\ l[1] # l[2] /\ l = <<l[1], l[2]>>
BY DEF Link

(* Sets of documents are finite.                                           *)
LEMMA DocFinite ==
  ASSUME NEW s \in SUBSET Doc
  PROVE  IsFiniteSet(s)
<1>1. IsFiniteSet(1 .. LastDoc)
  BY FS_Interval
<1> QED
  BY <1>1, FS_Subset DEF Doc

(* At the start: the document asked for is the only one.                   *)
LEMMA GraphStarts == GraphInit => GraphInv
<1> SUFFICES ASSUME GraphInit PROVE GraphInv
  OBVIOUS
<1> USE DEF GraphInit, GraphStart
<1>0. root \in Doc /\ depth \in 1 .. MaxDepth /\ depth \in Nat /\ 0 \in 0 .. depth
  OBVIOUS
<1>1. GraphTypeOK
  <2>1. Cardinality(nodes) <= MaxNodes
    <3>1. Cardinality({root}) = 1
      BY FS_Singleton
    <3> QED
      BY <3>1
  <2>2. [doc |-> root, depth |-> 0] \in [doc : nodes, depth : 0 .. depth]
    BY <1>0
  <2>3. queue \in Seq([doc : nodes, depth : 0 .. depth])
    BY <2>2
  <2>4. link \subseteq Link
    OBVIOUS
  <2>5. order \in Seq(nodes)
    OBVIOUS
  <2> QED
    BY <1>0, <2>1, <2>3, <2>4, <2>5 DEF GraphTypeOK
<1>2. DOMAIN queue = {1} /\ queue[1] = [doc |-> root, depth |-> 0]
  OBVIOUS
<1>3. NearInv
  <2>1. root \in Around(root, nodes, edges, 0) /\ root \in Around(root, nodes, edges, depth)
    BY <1>0, AroundWithin
  <2>2. nodes = {root} /\ linked = {}
    OBVIOUS
  <2> QED
    BY ONLY <1>2, <2>1, <2>2 DEF NearInv
<1>4. StillInv /\ QueueInv
  BY <1>2 DEF StillInv, QueueInv
<1>5. LevelInv
  <2>1. Around(root, present, link, hop) = {root}
    BY AroundZero
  <2> QED
    BY <1>2, <2>1 DEF LevelInv, InQueue
<1>6. SortInv /\ OrderFollowsReferences
  BY DEF SortInv, OrderFollowsReferences
<1> QED
  BY <1>1, <1>3, <1>4, <1>5, <1>6 DEF GraphInv

(* The next document of the queue: one hop further at most.                *)
LEMMA ExpandKeeps == GraphInv /\ Expand => GraphInv'
<1> SUFFICES ASSUME GraphInv, Expand PROVE GraphInv'
  OBVIOUS
<1> DEFINE item == Head(queue)
           found == IF item.depth >= depth THEN {} ELSE EdgesOf(item.doc)
<1>0. GraphTypeOK /\ NearInv /\ StillInv /\ QueueInv /\ LevelInv /\ SortInv
  BY DEF GraphInv
<1>1. /\ walk = "walking" /\ linked = {} /\ queue # <<>>
      /\ edges' = edges \cup found
      /\ linked' = (UNION {{l[1], l[2]} : l \in found}) \ nodes
      /\ hop' = item.depth
      /\ queue' = Tail(queue)
      /\ root' = root /\ depth' = depth /\ nodes' = nodes /\ truncated' = truncated
      /\ order' = order /\ walk' = walk
      /\ link' = link /\ present' = present /\ still' = still
  BY DEF Expand, ErpVars
<1> DEFINE Queued == [doc : nodes, depth : 0 .. depth]
<1>21. (\A d \in linked' : d \notin nodes /\ \E l \in found : d \in {l[1], l[2]})
       /\ \A l \in found : l[1] \in nodes \cup linked' /\ l[2] \in nodes \cup linked'
  <2>0. linked' = (UNION {{l[1], l[2]} : l \in found}) \ nodes
    BY <1>1
  <2> HIDE DEF found
  <2>1. \A d : d \in linked' <=> (\E l \in found : d \in {l[1], l[2]}) /\ d \notin nodes
    BY <2>0
  <2> QED
    BY <2>1
<1>2. queue \in Seq(Queued) /\ Len(queue) \in Nat /\ Len(queue) >= 1
      /\ depth \in Nat /\ hop \in 0 .. depth /\ DOMAIN queue = 1 .. Len(queue)
  BY <1>0, <1>1 DEF GraphTypeOK
<1>3. item = queue[1] /\ item \in Queued
  <2>1. item = queue[1]
    BY <1>1, <1>2
  <2> HIDE DEF Queued, item
  <2> QED
    BY <1>2, <2>1
<1>4. /\ Tail(queue) \in Seq(Queued)
      /\ DOMAIN Tail(queue) = 1 .. Len(queue) - 1
      /\ \A i \in 1 .. Len(queue) - 1 :
           i + 1 \in DOMAIN queue /\ Tail(queue)[i] = queue[i + 1]
  <2> HIDE DEF Queued
  <2> QED
    BY <1>1, <1>2
<1>5. item.doc \in nodes /\ item.depth \in 0 .. depth /\ item.depth \in Nat
  BY <1>2, <1>3
<1>6. 1 \in DOMAIN queue /\ item.depth \in {hop, hop + 1}
  BY <1>0, <1>2, <1>3 DEF QueueInv
<1>7. found \subseteq link /\ (item.depth >= depth => found = {})
      /\ \A l \in found : item.doc \in {l[1], l[2]}
  BY DEF EdgesOf
<1> HIDE DEF item
<1>8. \A l \in link : /\ l[1] \in Doc /\ l[2] \in Doc
                      /\ l[1] # l[2] /\ l = <<l[1], l[2]>>
  BY <1>0, Endpoints DEF GraphTypeOK
<1>9. \A d \in linked' : item.depth < depth /\ Adjacent(edges', d, item.doc) /\ d \in Doc
  <2> SUFFICES ASSUME NEW d \in linked'
               PROVE  item.depth < depth /\ Adjacent(edges', d, item.doc) /\ d \in Doc
    OBVIOUS
  <2>1. PICK l \in found : d \in {l[1], l[2]}
    BY <1>21
  <2>2. d # item.doc
    <3>1. d \notin nodes
      BY <1>21
    <3> QED
      BY <1>5, <3>1
  <2>3. l \in link /\ l \in edges' /\ item.doc \in {l[1], l[2]}
    BY <1>1, <1>7
  <2>4. item.depth < depth
    <3> HIDE DEF found
    <3> QED
      BY <1>2, <1>5, <1>7, <2>1
  <2>5. Adjacent(edges', d, item.doc)
    BY <1>8, <2>1, <2>2, <2>3 DEF Adjacent
  <2> QED
    BY <1>8, <2>1, <2>3, <2>4, <2>5
<1>10. \A i \in DOMAIN queue' : i + 1 \in DOMAIN queue /\ queue'[i] = queue[i + 1]
  BY <1>1, <1>4
<1>11. \A i \in DOMAIN queue' : 1 < i + 1 /\ i + 1 \in DOMAIN queue
  BY <1>1, <1>2, <1>4
<1>12. \A i \in DOMAIN queue' : i \in Nat
  BY <1>1, <1>4
<1>13. GraphTypeOK'
  <2>1. edges' \subseteq Link /\ linked' \subseteq Doc
    BY <1>0, <1>1, <1>7, <1>9 DEF GraphTypeOK
  <2>2. queue' \in Seq([doc : nodes, depth : 0 .. depth])
    BY <1>1, <1>4
  <2>3. hop' \in 0 .. depth
    BY <1>1, <1>5
  <2> QED
    BY <1>0, <1>1, <2>1, <2>2, <2>3 DEF GraphTypeOK
<1>14. edges \subseteq edges'
  BY <1>1
<1>15. \A k \in Nat : Around(root, nodes, edges, k) \subseteq Around(root, nodes, edges', k)
  BY <1>14, AroundGrows
<1>16. NearInv'
  <2>1. nodes \subseteq Around(root, nodes, edges', depth)
    BY <1>0, <1>2, <1>15 DEF NearInv
  <2>2. \A i \in DOMAIN queue' :
          queue'[i].doc \in Around(root, nodes, edges', queue'[i].depth)
    <3> SUFFICES ASSUME NEW i \in DOMAIN queue'
                 PROVE  queue[i + 1].doc \in Around(root, nodes, edges', queue[i + 1].depth)
      BY <1>10
    <3>1. queue[i + 1] \in Queued
      <4> HIDE DEF Queued
      <4> QED
        BY <1>2, <1>11
    <3>2. queue[i + 1].depth \in Nat
      BY <1>2, <3>1
    <3>3. queue[i + 1].doc \in Around(root, nodes, edges, queue[i + 1].depth)
      BY <1>0, <1>11 DEF NearInv
    <3> QED
      BY <1>15, <3>2, <3>3
  <2>3. item.doc \in Around(root, nodes, edges', item.depth)
    BY <1>0, <1>3, <1>5, <1>6, <1>15 DEF NearInv
  <2>4. linked' # {} => /\ item.depth < depth
                        /\ \E e \in Around(root, nodes, edges', item.depth) :
                             \A d \in linked' : Adjacent(edges', d, e)
    BY <1>9, <2>3
  <2>5. root \in nodes
    BY <1>0 DEF NearInv
  <2> QED
    BY <1>1, <2>1, <2>2, <2>4, <2>5 DEF NearInv
<1>17. StillInv'
  BY <1>0, <1>1, <1>7 DEF StillInv
<1>18. QueueInv'
  <2>1. ASSUME NEW i \in DOMAIN queue'
        PROVE  queue'[i].depth \in {item.depth, item.depth + 1}
    <3>1. queue[1].depth <= queue[i + 1].depth
      BY <1>0, <1>6, <1>11 DEF QueueInv
    <3>2. queue[i + 1].depth \in {hop, hop + 1}
      BY <1>0, <1>11 DEF QueueInv
    <3> QED
      BY <1>2, <1>3, <1>6, <1>10, <3>1, <3>2
  <2>2. ASSUME NEW i \in DOMAIN queue', NEW j \in DOMAIN queue', i < j
        PROVE  queue'[i].depth <= queue'[j].depth
    <3>1. i + 1 < j + 1
      BY <1>12, <2>2
    <3> QED
      BY <1>0, <1>10, <3>1 DEF QueueInv
  <2>3. nodes \cap linked' = {}
    BY <1>21
  <2> QED
    BY <1>1, <2>1, <2>2, <2>3 DEF QueueInv
<1>19. LevelInv'
  <2> SUFFICES ASSUME still, ~truncated
               PROVE  /\ Around(root, present, link, item.depth) \subseteq nodes
                      /\ \A i \in DOMAIN queue' :
                           queue'[i].depth = item.depth + 1
                             => queue'[i].doc \notin Around(root, present, link, item.depth)
                      /\ \A e \in nodes :
                           \/ InQueue(e)'
                           \/ item.depth = depth
                           \/ \A d \in present :
                                Adjacent(link, d, e) => d \in nodes \cup linked'
    BY <1>1 DEF LevelInv
  <2>0. /\ Around(root, present, link, hop) \subseteq nodes
        /\ \A i \in DOMAIN queue :
             queue[i].depth = hop + 1
               => queue[i].doc \notin Around(root, present, link, hop)
        /\ \A e \in nodes :
             \/ InQueue(e)
             \/ hop = depth
             \/ \A d \in present : Adjacent(link, d, e) => d \in nodes
    BY <1>0, <1>1 DEF LevelInv
  <2>1. Around(root, present, link, item.depth) \subseteq nodes
    <3>1. CASE item.depth = hop
      BY <2>0, <3>1
    <3>2. CASE item.depth = hop + 1
      <4>1. \A i \in DOMAIN queue : queue[i].depth = hop + 1
        <5> SUFFICES ASSUME NEW i \in DOMAIN queue PROVE queue[i].depth = hop + 1
          OBVIOUS
        <5>1. i = 1 \/ 1 < i
          BY <1>2
        <5>2. queue[i].depth \in {hop, hop + 1} /\ queue[1].depth = hop + 1
          BY <1>0, <1>3, <3>2 DEF QueueInv
        <5>3. 1 < i => queue[1].depth <= queue[i].depth
          BY <1>0, <1>6 DEF QueueInv
        <5> QED
          BY <1>2, <5>1, <5>2, <5>3
      <4>2. \A e \in Around(root, present, link, hop) : ~InQueue(e)
        BY <2>0, <4>1 DEF InQueue
      <4>3. hop # depth
        BY <1>2, <1>5, <3>2
      <4>4. Around(root, present, link, hop + 1)
              = Wider(present, link, Around(root, present, link, hop))
        BY <1>2, AroundNext
      <4>5. ASSUME NEW d \in present, NEW e \in Around(root, present, link, hop),
                   Adjacent(link, d, e)
            PROVE  d \in nodes
        BY <2>0, <4>2, <4>3, <4>5
      <4> QED
        BY <2>0, <3>2, <4>4, <4>5 DEF Wider, Adjacent
    <3> QED
      BY <1>6, <3>1, <3>2
  <2>2. ASSUME NEW i \in DOMAIN queue', queue'[i].depth = item.depth + 1
        PROVE  queue'[i].doc \notin Around(root, present, link, item.depth)
    <3>1. queue[i + 1].depth \in {hop, hop + 1}
      BY <1>0, <1>11 DEF QueueInv
    <3>2. item.depth = hop /\ queue[i + 1].depth = hop + 1
      BY <1>2, <1>6, <1>10, <2>2, <3>1
    <3> QED
      BY <2>0, <1>10, <1>11, <3>2
  <2>3. ASSUME NEW e \in nodes, ~InQueue(e)', item.depth # depth,
               NEW d \in present, Adjacent(link, d, e)
        PROVE  d \in nodes \cup linked'
    <3>1. CASE InQueue(e)
      <4>1. PICK i \in DOMAIN queue : queue[i].doc = e
        BY <3>1 DEF InQueue
      <4>2. i = 1
        <5> SUFFICES ASSUME i # 1 PROVE FALSE
          OBVIOUS
        <5>1. i - 1 \in 1 .. Len(queue) - 1 /\ i - 1 + 1 = i
          BY <1>2
        <5>2. i - 1 \in DOMAIN queue' /\ queue'[i - 1] = queue[i]
          BY <1>1, <1>4, <5>1
        <5> QED
          BY <2>3, <4>1, <5>2 DEF InQueue
      <4>3. e = item.doc /\ found = EdgesOf(e)
        BY <1>2, <1>3, <1>5, <2>3, <4>1, <4>2
      <4>4. PICK l \in link : l = <<d, e>> \/ l = <<e, d>>
        BY <2>3 DEF Adjacent
      <4>5. l \in found /\ d \in {l[1], l[2]}
        BY <4>3, <4>4 DEF EdgesOf
      <4> HIDE DEF found
      <4> QED
        BY <1>21, <4>5
    <3>2. CASE ~InQueue(e)
      <4>1. hop # depth
        BY <1>2, <1>5, <1>6, <2>3
      <4> QED
        BY <2>0, <2>3, <3>2, <4>1
    <3> QED
      BY <3>1, <3>2
  <2> QED
    BY <2>1, <2>2, <2>3
<1>20. SortInv' /\ OrderFollowsReferences'
  BY <1>0, <1>1 DEF SortInv, OrderFollowsReferences
<1> QED
  BY <1>13, <1>16, <1>17, <1>18, <1>19, <1>20 DEF GraphInv

(* A neighbour becomes a node, unless it has no header or the answer is    *)
(* full.                                                                   *)
LEMMA ReadHeaderKeeps ==
  ASSUME GraphInv, NEW d \in Doc, ReadHeader(d)
  PROVE  GraphInv'
<1>0. GraphTypeOK /\ NearInv /\ StillInv /\ QueueInv /\ LevelInv /\ SortInv
  BY DEF GraphInv
<1>1. /\ d \in linked /\ linked' = linked \ {d}
      /\ truncated' = (truncated \/ Full)
      /\ root' = root /\ depth' = depth /\ edges' = edges /\ hop' = hop
      /\ order' = order /\ walk' = walk
      /\ link' = link /\ present' = present /\ still' = still
  BY DEF ReadHeader, ErpVars
<1>2. walk = "walking" /\ order = <<>>
  BY <1>0, <1>1 DEF SortInv, GraphTypeOK
<1>3. hop \in Nat /\ depth \in Nat /\ hop < depth /\ hop + 1 \in 0 .. depth
  BY <1>0, <1>1 DEF NearInv, GraphTypeOK
<1>4. SortInv' /\ OrderFollowsReferences'
  BY <1>1, <1>2 DEF SortInv, OrderFollowsReferences
<1>5. d \notin nodes
  BY <1>0, <1>1 DEF QueueInv
<1>6. CASE ~Full /\ d \in present
  <2> DEFINE last == [doc |-> d, depth |-> hop + 1]
             Queued == [doc : nodes, depth : 0 .. depth]
             Queued2 == [doc : nodes', depth : 0 .. depth]
  <2>1. nodes' = nodes \cup {d} /\ queue' = Append(queue, last)
    BY <1>6 DEF ReadHeader
  <2>2. queue \in Seq(Queued) /\ Queued \subseteq Queued2 /\ last \in Queued2
    BY <1>0, <1>3, <2>1 DEF GraphTypeOK
  <2>3. queue \in Seq(Queued2)
    <3> HIDE DEF Queued, Queued2
    <3> QED
      BY <2>2
  <2>4. /\ queue' \in Seq(Queued2) /\ Len(queue) \in Nat
        /\ DOMAIN queue = 1 .. Len(queue)
        /\ DOMAIN queue' = 1 .. Len(queue) + 1
        /\ queue'[Len(queue) + 1] = last
        /\ \A i \in DOMAIN queue : queue'[i] = queue[i]
    <3> HIDE DEF Queued2, last
    <3> QED
      BY <2>1, <2>2, <2>3
  <2>5. \A i \in DOMAIN queue' : i = Len(queue) + 1 \/ i \in DOMAIN queue
    BY <2>4
  <2>6. \A i \in DOMAIN queue : i \in DOMAIN queue' /\ i < Len(queue) + 1 /\ i \in Nat
    BY <2>4
  <2>7. GraphTypeOK'
    <3>1. Cardinality(nodes') <= MaxNodes
      <4>1. IsFiniteSet(nodes)
        BY <1>0, DocFinite DEF GraphTypeOK
      <4>2. Cardinality(nodes') = Cardinality(nodes) + 1 /\ Cardinality(nodes) \in Nat
        BY <1>5, <2>1, <4>1, FS_AddElement, FS_CardinalityType
      <4> QED
        BY <1>6, <4>2 DEF Full
    <3>2. truncated' \in BOOLEAN
      BY <1>0, <1>1 DEF GraphTypeOK, Full
    <3>3. queue' \in Seq([doc : nodes', depth : 0 .. depth])
      BY <2>4
    <3>4. order' \in Seq(nodes')
      BY <1>1, <1>2
    <3>5. nodes' \subseteq Doc /\ root \in nodes' /\ linked' \subseteq Doc
      BY <1>0, <1>1, <2>1 DEF GraphTypeOK
    <3> QED
      BY <1>0, <1>1, <3>1, <3>2, <3>3, <3>4, <3>5 DEF GraphTypeOK
  <2>8. nodes \subseteq nodes'
    BY <2>1
  <2>9. \A k \in Nat : Around(root, nodes, edges, k) \subseteq Around(root, nodes', edges, k)
    BY <2>8, AroundGrows
  <2>10. d \in Around(root, nodes', edges, hop + 1)
    <3>1. PICK e \in Around(root, nodes, edges, hop) : Adjacent(edges, d, e)
      BY <1>0, <1>1 DEF NearInv
    <3>2. e \in Around(root, nodes', edges, hop)
      BY <1>3, <2>9
    <3>3. Around(root, nodes', edges, hop + 1)
            = Wider(nodes', edges, Around(root, nodes', edges, hop))
      BY <1>3, AroundNext
    <3>4. d \in Wider(nodes', edges, Around(root, nodes', edges, hop))
      BY <2>1, <3>1, <3>2 DEF Wider, Adjacent
    <3> QED
      BY <3>3, <3>4
  <2>11. NearInv'
    <3>1. nodes' \subseteq Around(root, nodes', edges, depth)
      <4>1. d \in Around(root, nodes', edges, depth)
        BY <1>3, <2>10, AroundWidens
      <4> QED
        BY <1>0, <1>3, <2>1, <2>9, <4>1 DEF NearInv
    <3>2. ASSUME NEW i \in DOMAIN queue'
          PROVE  queue'[i].doc \in Around(root, nodes', edges, queue'[i].depth)
      <4>1. CASE i \in DOMAIN queue
        <5>1. queue[i].doc \in Around(root, nodes, edges, queue[i].depth)
          BY <1>0, <4>1 DEF NearInv
        <5>2. queue[i].depth \in {hop, hop + 1}
          BY <1>0, <4>1 DEF QueueInv
        <5>3. queue[i].depth \in Nat
          BY <1>3, <5>2
        <5> QED
          BY <2>4, <2>9, <4>1, <5>1, <5>3
      <4>2. CASE i = Len(queue) + 1
        BY <2>4, <2>10, <4>2
      <4> QED
        BY <2>5, <4>1, <4>2
    <3>3. linked' # {} => /\ hop < depth
                          /\ \E e \in Around(root, nodes', edges, hop) :
                               \A x \in linked' : Adjacent(edges, x, e)
      <4>1. PICK e \in Around(root, nodes, edges, hop) :
              \A x \in linked : Adjacent(edges, x, e)
        BY <1>0, <1>1 DEF NearInv
      <4>2. e \in Around(root, nodes', edges, hop)
        BY <1>3, <2>9
      <4> QED
        BY <1>1, <1>3, <4>1, <4>2
    <3>4. root \in nodes'
      BY <1>0, <2>1 DEF NearInv
    <3> QED
      BY <1>1, <3>1, <3>2, <3>3, <3>4 DEF NearInv
  <2>12. StillInv'
    BY <1>0, <1>1, <1>6, <2>1 DEF StillInv
  <2>13. QueueInv'
    <3>1. \A i \in DOMAIN queue : queue[i].depth \in {hop, hop + 1}
      BY <1>0 DEF QueueInv
    <3>2. \A i \in DOMAIN queue' : queue'[i].depth \in {hop, hop + 1}
      BY <2>4, <2>5, <3>1
    <3>3. ASSUME NEW i \in DOMAIN queue', NEW j \in DOMAIN queue', i < j
          PROVE  queue'[i].depth <= queue'[j].depth
      <4>1. CASE j \in DOMAIN queue
        <5>1. i \in DOMAIN queue
          BY <2>4, <2>5, <3>3, <4>1
        <5> QED
          BY <1>0, <2>4, <3>3, <4>1, <5>1 DEF QueueInv
      <4>2. CASE j = Len(queue) + 1
        <5>1. queue'[j].depth = hop + 1
          BY <2>4, <4>2
        <5> QED
          BY <1>3, <3>2, <5>1
      <4> QED
        BY <2>5, <4>1, <4>2
    <3>4. nodes' \cap linked' = {}
      BY <1>0, <1>1, <2>1 DEF QueueInv
    <3> QED
      BY <1>1, <3>2, <3>3, <3>4 DEF QueueInv
  <2>14. LevelInv'
    <3> SUFFICES ASSUME still, ~truncated
                 PROVE  /\ Around(root, present, link, hop) \subseteq nodes'
                        /\ \A i \in DOMAIN queue' :
                             queue'[i].depth = hop + 1
                               => queue'[i].doc \notin Around(root, present, link, hop)
                        /\ \A e \in nodes' :
                             \/ InQueue(e)'
                             \/ hop = depth
                             \/ \A x \in present :
                                  Adjacent(link, x, e) => x \in nodes' \cup linked'
      BY <1>1 DEF LevelInv
    <3>0. /\ Around(root, present, link, hop) \subseteq nodes
          /\ \A i \in DOMAIN queue :
               queue[i].depth = hop + 1
                 => queue[i].doc \notin Around(root, present, link, hop)
          /\ \A e \in nodes :
               \/ InQueue(e)
               \/ hop = depth
               \/ \A x \in present : Adjacent(link, x, e) => x \in nodes \cup linked
      BY <1>0 DEF LevelInv
    <3>1. ASSUME NEW i \in DOMAIN queue', queue'[i].depth = hop + 1
          PROVE  queue'[i].doc \notin Around(root, present, link, hop)
      <4>1. CASE i \in DOMAIN queue
        BY <2>4, <3>0, <3>1, <4>1
      <4>2. CASE i = Len(queue) + 1
        <5>1. queue'[i].doc = d
          BY <2>4, <4>2
        <5> QED
          BY <1>5, <3>0, <5>1
      <4> QED
        BY <2>5, <4>1, <4>2
    <3>2. \A e : InQueue(e) => InQueue(e)'
      BY <2>4, <2>6 DEF InQueue
    <3>3. InQueue(d)'
      <4>1. Len(queue) + 1 \in DOMAIN queue' /\ queue'[Len(queue) + 1].doc = d
        BY <2>4
      <4> QED
        BY <4>1 DEF InQueue
    <3>4. nodes \cup linked \subseteq nodes' \cup linked'
      BY <1>1, <2>1
    <3> QED
      BY <2>1, <3>0, <3>1, <3>2, <3>3, <3>4
  <2> QED
    BY <1>4, <2>7, <2>11, <2>12, <2>13, <2>14 DEF GraphInv
<1>7. CASE ~(~Full /\ d \in present)
  <2>1. nodes' = nodes /\ queue' = queue
    BY <1>7 DEF ReadHeader
  <2>2. GraphTypeOK'
    <3>1. truncated' \in BOOLEAN
      BY <1>0, <1>1 DEF GraphTypeOK, Full
    <3> QED
      BY <1>0, <1>1, <2>1, <3>1 DEF GraphTypeOK
  <2>3. NearInv'
    BY <1>0, <1>1, <2>1 DEF NearInv
  <2>4. StillInv' /\ QueueInv'
    BY <1>0, <1>1, <2>1 DEF StillInv, QueueInv
  <2>5. LevelInv'
    <3> SUFFICES ASSUME still, ~truncated, ~Full
                 PROVE  /\ Around(root, present, link, hop) \subseteq nodes
                        /\ \A i \in DOMAIN queue :
                             queue[i].depth = hop + 1
                               => queue[i].doc \notin Around(root, present, link, hop)
                        /\ \A e \in nodes :
                             \/ InQueue(e)
                             \/ hop = depth
                             \/ \A x \in present :
                                  Adjacent(link, x, e) => x \in nodes \cup linked'
      BY <1>1, <2>1 DEF LevelInv, InQueue
    <3>1. \A x \in present : x \in nodes \cup linked => x \in nodes \cup linked'
      BY <1>1, <1>7
    <3> QED
      BY <1>0, <3>1 DEF LevelInv
  <2> QED
    BY <1>4, <2>2, <2>3, <2>4, <2>5 DEF GraphInv
<1> QED
  BY <1>6, <1>7

(* The ERP changes the documents: what the answer shows stays connected,   *)
(* nothing else is promised.                                               *)
LEMMA ErpKeeps ==
  ASSUME GraphInv,
         \/ \E d \in Doc : ErpUnlink(d)
         \/ \E l \in Link : ErpLink(l)
  PROVE  GraphInv'
<1>0. GraphTypeOK /\ NearInv /\ QueueInv /\ SortInv
  BY DEF GraphInv
<1>1. /\ walk = "walking" /\ walk' = walk /\ ~still' /\ still' \in BOOLEAN
      /\ root' = root /\ depth' = depth /\ nodes' = nodes /\ edges' = edges
      /\ truncated' = truncated /\ queue' = queue /\ hop' = hop
      /\ linked' = linked /\ order' = order
  BY DEF ErpUnlink, ErpLink, answerVars
<1>2. link' \subseteq Link /\ present' \subseteq Doc
  BY <1>0 DEF GraphTypeOK, ErpUnlink, ErpLink
<1>3. GraphTypeOK'
  BY <1>0, <1>1, <1>2 DEF GraphTypeOK
<1>4. NearInv' /\ QueueInv'
  BY <1>0, <1>1 DEF NearInv, QueueInv
<1>5. StillInv' /\ LevelInv'
  BY <1>1 DEF StillInv, LevelInv
<1>6. SortInv' /\ OrderFollowsReferences'
  BY <1>0, <1>1 DEF SortInv, OrderFollowsReferences
<1> QED
  BY <1>3, <1>4, <1>5, <1>6 DEF GraphInv

-----------------------------------------------------------------------------
(* Orders of documents.                                                    *)
LEMMA LeastIsIn ==
  ASSUME NEW s \in SUBSET Doc, s # {}
  PROVE  Least(s) \in s
<1>1. s \in SUBSET (0 .. LastDoc) /\ LastDoc \in Nat
  BY DEF Doc
<1>2. \E d \in s : \A e \in s : d <= e
  BY <1>1, LeastExists
<1> QED
  BY <1>2 DEF Least

LEMMA OneToOne ==
  ASSUME NEW n \in Nat, NEW s, NEW f \in [1 .. n -> s],
         \A i, j \in 1 .. n : f[i] = f[j] => i = j,
         \A d \in s : \E i \in 1 .. n : f[i] = d
  PROVE  Cardinality(s) = n
<1>1. f \in Bijection(1 .. n, s)
  BY DEF Bijection, Injection, Surjection, IsInjective
<1>2. IsFiniteSet(1 .. n) /\ Cardinality(1 .. n) = n
  <2>1. IsFiniteSet(1 .. n) /\ Cardinality(1 .. n) = IF 1 > n THEN 0 ELSE n - 1 + 1
    BY FS_Interval
  <2> QED
    BY <2>1
<1>3. ExistsBijection(1 .. n, s)
  BY <1>1 DEF ExistsBijection
<1> QED
  BY <1>2, <1>3, FS_Bijection

(* Counting those below enumerates a set of documents.                     *)
LEMMA ByNumberEnumerates ==
  ASSUME NEW s \in SUBSET Doc
  PROVE  /\ Cardinality(s) \in Nat
         /\ ByNumber(s) \in [1 .. Cardinality(s) -> s]
         /\ \A d \in s : \E i \in 1 .. Cardinality(s) : ByNumber(s)[i] = d
<1> DEFINE n == Cardinality(s)
           below(d) == {e \in s : e < d}
           rank == [d \in s |-> Cardinality(below(d)) + 1]
<1>1. IsFiniteSet(s) /\ n \in Nat
  BY DocFinite, FS_CardinalityType
<1>2. \A d \in s : d \in Nat
  BY DEF Doc
<1>3. ASSUME NEW d \in s
      PROVE  /\ IsFiniteSet(below(d)) /\ Cardinality(below(d)) \in Nat
             /\ Cardinality(below(d)) + 1 <= n
  <2>1. IsFiniteSet(s \ {d}) /\ Cardinality(s \ {d}) = n - 1
    BY <1>1, FS_RemoveElement
  <2>2. below(d) \in SUBSET (s \ {d})
    BY <1>2
  <2> HIDE DEF below
  <2>3. IsFiniteSet(below(d)) /\ Cardinality(below(d)) <= n - 1
    BY <2>1, <2>2, FS_Subset
  <2>4. Cardinality(below(d)) \in Nat
    BY <2>3, FS_CardinalityType
  <2> HIDE DEF n
  <2> QED
    BY <1>1, <2>3, <2>4
<1>4. ASSUME NEW d \in s, NEW e \in s, d < e
      PROVE  Cardinality(below(d)) < Cardinality(below(e))
  <2>1. d \notin below(d) /\ below(d) \cup {d} \in SUBSET below(e)
    BY <1>2, <1>4
  <2> HIDE DEF below
  <2>2. Cardinality(below(d) \cup {d}) = Cardinality(below(d)) + 1
    BY <1>3, <2>1, FS_AddElement
  <2>3. Cardinality(below(d) \cup {d}) <= Cardinality(below(e))
    BY <1>3, <2>1, FS_Subset
  <2> QED
    BY <1>3, <2>2, <2>3
<1>5. rank \in [s -> 1 .. n]
  <2> HIDE DEF below, n
  <2>1. \A d \in s : Cardinality(below(d)) + 1 \in 1 .. n
    BY <1>1, <1>3
  <2> QED
    BY <2>1
<1>6. ASSUME NEW d \in s, NEW e \in s, Cardinality(below(d)) = Cardinality(below(e))
      PROVE  d = e
  <2> HIDE DEF below
  <2>1. ~(d < e) /\ ~(e < d)
    BY <1>3, <1>4, <1>6
  <2> QED
    BY <1>2, <2>1
<1>7. \A d, e \in s : rank[d] = rank[e] => d = e
  <2> HIDE DEF below
  <2> QED
    BY <1>3, <1>6
<1>8. \A i \in 1 .. n : \E d \in s : rank[d] = i
  <2> HIDE DEF rank, n
  <2>1. rank \in Injection(s, 1 .. n)
    BY <1>5, <1>7 DEF Injection, IsInjective
  <2>2. IsFiniteSet(1 .. n) /\ Cardinality(1 .. n) = IF 1 > n THEN 0 ELSE n - 1 + 1
    BY <1>1, FS_Interval
  <2>3. Cardinality(s) = Cardinality(1 .. n)
    BY <1>1, <2>2 DEF n
  <2>4. rank \in Surjection(s, 1 .. n)
    BY <2>1, <2>2, <2>3, FS_Injection
  <2> QED
    BY <2>4 DEF Surjection
<1>9. \A i \in 1 .. n : \E d \in s : Cardinality(below(d)) = i - 1
  <2> SUFFICES ASSUME NEW i \in 1 .. n PROVE \E d \in s : Cardinality(below(d)) = i - 1
    OBVIOUS
  <2>1. PICK d \in s : rank[d] = i
    BY <1>8
  <2>2. Cardinality(below(d)) + 1 = i /\ Cardinality(below(d)) \in Nat
    <3> HIDE DEF below
    <3> QED
      BY <1>3, <2>1
  <2> HIDE DEF below, n
  <2>3. Cardinality(below(d)) = i - 1
    BY <1>1, <2>2
  <2> QED
    BY <2>3
<1>10. \A i \in 1 .. n : /\ ByNumber(s)[i] \in s
                         /\ Cardinality(below(ByNumber(s)[i])) = i - 1
  <2> SUFFICES ASSUME NEW i \in 1 .. n
               PROVE  /\ ByNumber(s)[i] \in s
                      /\ Cardinality(below(ByNumber(s)[i])) = i - 1
    OBVIOUS
  <2>1. ByNumber(s)[i] = CHOOSE d \in s : Cardinality(below(d)) = i - 1
    BY DEF ByNumber
  <2>2. \E d \in s : Cardinality(below(d)) = i - 1
    BY <1>9
  <2> HIDE DEF below
  <2> QED
    BY <2>1, <2>2
<1>11. ByNumber(s) \in [1 .. n -> s]
  <2> DEFINE nth(i) == CHOOSE d \in s : Cardinality({e \in s : e < d}) = i - 1
  <2>1. ByNumber(s) = [i \in 1 .. n |-> nth(i)]
    BY DEF ByNumber
  <2> HIDE DEF nth, below
  <2>2. \A i \in 1 .. n : nth(i) = ByNumber(s)[i]
    BY <2>1
  <2> QED
    BY <1>10, <2>1, <2>2
<1>12. ASSUME NEW d \in s PROVE \E i \in 1 .. n : ByNumber(s)[i] = d
  <2> DEFINE i == Cardinality(below(d)) + 1
  <2> HIDE DEF below, n
  <2>1. i \in 1 .. n /\ i - 1 = Cardinality(below(d))
    BY <1>1, <1>3
  <2>2. ByNumber(s)[i] \in s /\ Cardinality(below(ByNumber(s)[i])) = i - 1
    BY <1>10, <2>1
  <2>3. ByNumber(s)[i] = d
    BY <1>6, <2>1, <2>2
  <2> QED
    BY <2>1, <2>3
<1> QED
  BY <1>1, <1>11, <1>12

-----------------------------------------------------------------------------
LEMMA PlaceKeeps == GraphInv /\ Place => GraphInv'
<1> SUFFICES ASSUME GraphInv, Place PROVE GraphInv'
  OBVIOUS
<1> DEFINE x == Least(Ready)
<1>0. GraphTypeOK /\ NearInv /\ StillInv /\ QueueInv /\ LevelInv /\ SortInv
  BY DEF GraphInv
<1>1. /\ walk = "sorting" /\ Ready # {} /\ order' = Append(order, x)
      /\ root' = root /\ depth' = depth /\ nodes' = nodes /\ edges' = edges
      /\ truncated' = truncated /\ queue' = queue /\ hop' = hop
      /\ linked' = linked /\ walk' = walk
      /\ link' = link /\ present' = present /\ still' = still
  BY DEF Place, ErpVars, answerVars
<1>2. x \in Ready
  <2>1. Ready \in SUBSET Doc
    BY <1>0 DEF Ready, Waiting, GraphTypeOK
  <2> QED
    BY <1>1, <2>1, LeastIsIn
<1>3. /\ x \in nodes /\ x \notin Placed
      /\ \A l \in edges : l[2] = x => l[1] \notin nodes \/ l[1] \in Placed
  BY <1>2 DEF Ready, Waiting
<1> HIDE DEF x
<1>4. order \in Seq(nodes)
  BY <1>0 DEF GraphTypeOK
<1>5. /\ order' \in Seq(nodes) /\ Len(order) \in Nat
      /\ DOMAIN order = 1 .. Len(order)
      /\ DOMAIN order' = 1 .. Len(order) + 1
      /\ order'[Len(order) + 1] = x
      /\ \A i \in DOMAIN order : order'[i] = order[i]
  BY <1>1, <1>3, <1>4
<1>6. \A i \in DOMAIN order' : i = Len(order) + 1 \/ i \in DOMAIN order
  BY <1>5
<1>7. \A i \in DOMAIN order : /\ i \in DOMAIN order' /\ i < Len(order) + 1
                              /\ order[i] # x
  BY <1>3, <1>5 DEF Placed
<1>8. GraphTypeOK'
  BY <1>0, <1>1, <1>5 DEF GraphTypeOK
<1>9. NearInv' /\ StillInv' /\ QueueInv'
  BY <1>0, <1>1 DEF NearInv, StillInv, QueueInv
<1>10. LevelInv'
  BY <1>0, <1>1 DEF LevelInv, InQueue
<1>11. SortInv'
  <2>1. ASSUME NEW i \in DOMAIN order', NEW j \in DOMAIN order', order'[i] = order'[j]
        PROVE  i = j
    <3>1. CASE i \in DOMAIN order /\ j \in DOMAIN order
      BY <1>0, <1>1, <1>5, <2>1, <3>1 DEF SortInv
    <3>2. CASE i = Len(order) + 1 \/ j = Len(order) + 1
      BY <1>5, <1>6, <1>7, <2>1, <3>2
    <3> QED
      BY <1>6, <3>1, <3>2
  <2>2. ASSUME NEW i \in DOMAIN order', NEW l \in edges,
               l[2] = order'[i], l[1] \in nodes
        PROVE  \E j \in DOMAIN order' : j < i /\ order'[j] = l[1]
    <3>1. CASE i \in DOMAIN order
      <4>1. PICK j \in DOMAIN order : j < i /\ order[j] = l[1]
        BY <1>0, <1>1, <1>5, <2>2, <3>1 DEF SortInv
      <4> QED
        BY <1>5, <1>7, <4>1
    <3>2. CASE i = Len(order) + 1
      <4>1. l[2] = x
        BY <1>5, <2>2, <3>2
      <4>2. PICK j \in DOMAIN order : order[j] = l[1]
        BY <1>3, <2>2, <4>1 DEF Placed
      <4> QED
        BY <1>5, <1>7, <3>2, <4>2
    <3> QED
      BY <1>6, <3>1, <3>2
  <2> QED
    BY <1>0, <1>1, <2>1, <2>2 DEF SortInv
<1>12. OrderFollowsReferences'
  BY <1>1 DEF OrderFollowsReferences
<1> QED
  BY <1>8, <1>9, <1>10, <1>11, <1>12 DEF GraphInv

(* All documents are placed, or some go round in circles: each of those    *)
(* that wait refers to another that waits.                                 *)
LEMMA EndSortingKeeps == GraphInv /\ EndSorting => GraphInv'
<1> SUFFICES ASSUME GraphInv, EndSorting PROVE GraphInv'
  OBVIOUS
<1>0. GraphTypeOK /\ NearInv /\ StillInv /\ QueueInv /\ LevelInv /\ SortInv
  BY DEF GraphInv
<1>1. /\ walk = "sorting" /\ Ready = {} /\ walk' = "over"
      /\ order' = IF Waiting = {} THEN order ELSE ByNumber(nodes)
      /\ root' = root /\ depth' = depth /\ nodes' = nodes /\ edges' = edges
      /\ truncated' = truncated /\ queue' = queue /\ hop' = hop
      /\ linked' = linked
      /\ link' = link /\ present' = present /\ still' = still
  BY DEF EndSorting, ErpVars, answerVars
<1>2. order \in Seq(nodes) /\ nodes \in SUBSET Doc
  BY <1>0 DEF GraphTypeOK
<1>3. Len(order) \in Nat /\ order \in [1 .. Len(order) -> nodes]
  BY <1>2
<1>4. NearInv' /\ StillInv' /\ QueueInv'
  BY <1>0, <1>1 DEF NearInv, StillInv, QueueInv
<1>5. LevelInv'
  BY <1>0, <1>1 DEF LevelInv, InQueue
<1>6. SortInv'
  BY <1>0, <1>1 DEF SortInv
<1>7. CASE Waiting = {}
  <2>1. order' = order
    BY <1>1, <1>7
  <2>2. GraphTypeOK'
    BY <1>0, <1>1, <2>1 DEF GraphTypeOK
  <2>3. Placed = nodes
    <3>1. nodes \subseteq Placed
      BY <1>7 DEF Waiting
    <3>2. Placed \subseteq nodes
      BY <1>3 DEF Placed
    <3> QED
      BY <3>1, <3>2
  <2>4. DOMAIN order = 1 .. Len(order)
    BY <1>3
  <2>5. Cardinality(nodes) = Len(order)
    <3>1. \A i, j \in 1 .. Len(order) : order[i] = order[j] => i = j
      BY <1>0, <1>1, <2>4 DEF SortInv
    <3>2. \A d \in nodes : \E i \in 1 .. Len(order) : order[i] = d
      BY <2>3, <2>4 DEF Placed
    <3> QED
      BY <1>3, <3>1, <3>2, OneToOne
  <2>6. ASSUME NEW i \in DOMAIN order, NEW j \in DOMAIN order,
               <<order[i], order[j]>> \in edges
        PROVE  i < j
    <3>1. order[i] \in nodes
      BY <1>3, <2>4
    <3>2. PICK k \in DOMAIN order : k < j /\ order[k] = order[i]
      BY <1>0, <1>1, <2>6, <3>1 DEF SortInv
    <3>3. k = i
      BY <1>0, <1>1, <3>2 DEF SortInv
    <3> QED
      BY <3>2, <3>3
  <2>7. OrderFollowsReferences'
    BY <1>1, <2>1, <2>3, <2>5, <2>6 DEF OrderFollowsReferences, Placed
  <2> QED
    BY <1>4, <1>5, <1>6, <2>2, <2>7 DEF GraphInv
<1>8. CASE Waiting # {}
  <2>1. order' = ByNumber(nodes)
    BY <1>1, <1>8
  <2>2. /\ Cardinality(nodes) \in Nat
        /\ order' \in [1 .. Cardinality(nodes) -> nodes]
        /\ \A d \in nodes : \E i \in 1 .. Cardinality(nodes) : order'[i] = d
    BY <1>2, <2>1, ByNumberEnumerates
  <2>3. order' \in Seq(nodes) /\ Len(order') = Cardinality(nodes)
        /\ DOMAIN order' = 1 .. Cardinality(nodes)
    BY <2>2
  <2>4. GraphTypeOK'
    BY <1>0, <1>1, <2>3 DEF GraphTypeOK
  <2>5. Placed' = nodes
    BY <2>2, <2>3 DEF Placed
  <2>6. Circular'
    <3>1. \A d \in Waiting : \E l \in edges : l[2] = d /\ l[1] \in Waiting
      BY <1>1 DEF Ready
    <3>2. Waiting \in (SUBSET nodes) \ {{}}
      BY <1>8 DEF Waiting
    <3>3. Circular
      BY <3>1, <3>2 DEF Circular
    <3> QED
      BY <1>1, <3>3 DEF Circular
  <2>7. OrderFollowsReferences'
    BY <1>1, <2>3, <2>5, <2>6 DEF OrderFollowsReferences
  <2> QED
    BY <1>4, <1>5, <1>6, <2>4, <2>7 DEF GraphInv
<1> QED
  BY <1>7, <1>8

(* Every step of the walk, of the sort and of the ERP keeps the invariant. *)
LEMMA GraphStep == GraphInv /\ [GraphNext]_graphVars => GraphInv'
<1> SUFFICES ASSUME GraphInv, [GraphNext]_graphVars PROVE GraphInv'
  OBVIOUS
<1>1. CASE StartSorting
  <2>1. /\ walk = "walking" /\ walk' = "sorting" /\ order = <<>>
        /\ queue = <<>> /\ linked = {}
        /\ root' = root /\ depth' = depth /\ nodes' = nodes /\ edges' = edges
        /\ truncated' = truncated /\ queue' = queue /\ hop' = hop
        /\ linked' = linked /\ order' = order
        /\ link' = link /\ present' = present /\ still' = still
    BY <1>1 DEF StartSorting, ErpVars, answerVars, GraphInv, SortInv
  <2>2. GraphTypeOK' /\ NearInv' /\ StillInv' /\ QueueInv'
    BY <2>1 DEF GraphInv, GraphTypeOK, NearInv, StillInv, QueueInv
  <2>3. LevelInv'
    BY <2>1 DEF GraphInv, LevelInv, InQueue
  <2>4. SortInv' /\ OrderFollowsReferences'
    BY <2>1 DEF SortInv, OrderFollowsReferences
  <2> QED
    BY <2>2, <2>3, <2>4 DEF GraphInv
<1>2. CASE UNCHANGED graphVars
  <2> USE <1>2 DEF graphVars, answerVars
  <2>1. GraphTypeOK' /\ NearInv' /\ StillInv' /\ QueueInv'
    BY DEF GraphInv, GraphTypeOK, NearInv, StillInv, QueueInv
  <2>2. LevelInv' /\ SortInv'
    BY DEF GraphInv, LevelInv, SortInv, InQueue
  <2>3. OrderFollowsReferences'
    BY DEF GraphInv, OrderFollowsReferences, Placed, Circular
  <2> QED
    BY <2>1, <2>2, <2>3 DEF GraphInv
<1>3. CASE \E d \in Doc : ReadHeader(d)
  BY <1>3, ReadHeaderKeeps
<1>4. CASE (\E d \in Doc : ErpUnlink(d)) \/ (\E l \in Link : ErpLink(l))
  BY <1>4, ErpKeeps
<1> QED
  BY <1>1, <1>2, <1>3, <1>4, ExpandKeeps, PlaceKeeps, EndSortingKeeps DEF GraphNext

(* The neighbourhood: what the answer shows is within the depth, and all   *)
(* that is within the depth is shown, unless the ERP works meanwhile.      *)
LEMMA GraphInvGives == GraphInv => AnswerIsRight /\ GraphTypeOK
<1> SUFFICES ASSUME GraphInv PROVE AnswerIsRight /\ GraphTypeOK
  OBVIOUS
<1>0. GraphTypeOK /\ NearInv /\ StillInv /\ LevelInv /\ SortInv /\ OrderFollowsReferences
  BY DEF GraphInv
<1>1. depth \in Nat /\ hop \in 0 .. depth
  BY <1>0 DEF GraphTypeOK
<1>2. AnswerIsConnected
  <2>1. Around(root, nodes, edges, depth) \subseteq nodes \cup {root}
    BY <1>1, AroundWithin
  <2> QED
    BY <1>0, <2>1 DEF AnswerIsConnected, NearInv
<1>3. AnswerIsWhole
  <2> SUFFICES ASSUME walk = "over", still, ~truncated
               PROVE  nodes = Around(root, present, link, depth)
    BY DEF AnswerIsWhole
  <2>1. queue = <<>> /\ linked = {}
    BY <1>0 DEF SortInv
  <2>2. nodes \subseteq present /\ edges \subseteq link
    BY <1>0 DEF StillInv
  <2>3. nodes \subseteq Around(root, present, link, depth)
    BY <1>0, <1>1, <2>2, AroundGrows DEF NearInv
  <2>4. CASE hop = depth
    BY <1>0, <2>3, <2>4 DEF LevelInv
  <2>5. CASE hop # depth
    <3> DEFINE good == {k \in 0 .. depth : Around(root, present, link, k) \subseteq nodes}
    <3>1. \A e \in nodes, d \in present : Adjacent(link, d, e) => d \in nodes
      BY <1>0, <2>1, <2>5 DEF LevelInv, InQueue
    <3>2. 0 \in good
      BY <1>0, <1>1, AroundZero DEF NearInv
    <3>3. ASSUME NEW k \in 1 .. depth, k - 1 \in good PROVE k \in good
      <4>1. k \in 0 .. depth /\ k - 1 \in Nat /\ k - 1 + 1 = k
        BY <1>1
      <4>2. Around(root, present, link, k)
              = Wider(present, link, Around(root, present, link, k - 1))
        BY <4>1, AroundNext
      <4> QED
        BY <3>1, <3>3, <4>1, <4>2 DEF Wider, Adjacent
    <3>4. good = 0 .. depth
      <4>1. good \in SUBSET (0 .. depth)
        OBVIOUS
      <4> HIDE DEF good
      <4> QED
        BY <1>1, <3>2, <3>3, <4>1, Upwards
    <3>5. depth \in good
      BY <1>1, <3>4
    <3> QED
      BY <2>3, <3>5
  <2> QED
    BY <2>4, <2>5
<1> QED
  BY <1>0, <1>2, <1>3 DEF AnswerIsRight

(* For every bound on the depth and on the documents: the answer about     *)
(* related documents is the neighbourhood of the document, connected,      *)
(* whole unless it is marked, and in order (related_document.go).          *)
THEOREM AnswerIsAlwaysRight == GraphSpec => []AnswerIsRight
<1>1. GraphInit => GraphInv
  BY GraphStarts
<1>2. GraphInv /\ [GraphNext]_graphVars => GraphInv'
  BY GraphStep
<1>3. GraphInv => AnswerIsRight
  BY GraphInvGives
<1> QED
  BY <1>1, <1>2, <1>3, PTL DEF GraphSpec

(* The types of the walk, and no more documents than relatedMaxNodes.      *)
THEOREM GraphTypesHold == GraphSpec => []GraphTypeOK
<1>1. GraphInit => GraphInv
  BY GraphStarts
<1>2. GraphInv /\ [GraphNext]_graphVars => GraphInv'
  BY GraphStep
<1>3. GraphInv => GraphTypeOK
  BY GraphInvGives
<1> QED
  BY <1>1, <1>2, <1>3, PTL DEF GraphSpec

-----------------------------------------------------------------------------
(* The run in which one of the parts runs and the others rest is a         *)
(* behaviour of each, so that whatever is proved of any of them holds in   *)
(* it.                                                                     *)
THEOREM EachPartRunsAlone ==
  MCSpec => /\ SignedSpec /\ TenantSpec /\ WatchSpec /\ GraphSpec
            /\ Spec /\ TransactionsSpec
<1>1. MCInit => /\ SignedInit /\ TenantInit /\ WatchInit /\ GraphInit
                /\ Init /\ TransactionsInit
  BY DEF MCInit
<1>2. [MCNext]_allVars =>
        /\ [SignedNext]_signedVars /\ [TenantNext]_tenantVars
        /\ [WatchNext]_watchVars /\ [GraphNext]_graphVars
        /\ [Next]_vars /\ [TransactionsNext]_transactionVars
  BY DEF MCNext, allVars
<1> QED
  BY <1>1, <1>2, PTL DEF MCSpec, SignedSpec, TenantSpec, WatchSpec, GraphSpec,
                         Spec, TransactionsSpec

(* The variables of all parts keep their types in that run, whatever its   *)
(* constants.                                                              *)
THEOREM PartsKeepTheirTypes == MCSpec => []PartsTypeOK
<1>1. PartsTypeOK <=> /\ OrderTypeOK /\ SignTypeOK /\ TenantTypeOK
                      /\ WatchTypeOK /\ GraphTypeOK /\ TypeOK
                      /\ TransactionsTypeOK
  BY DEF PartsTypeOK
<1> QED
  BY <1>1, EachPartRunsAlone, OrderTypeCorrect, SignTypeCorrect,
     TenantTypeCorrect, WatchTypeCorrect, GraphTypesHold, ReceiptTypes,
     TransactionsTypeCorrect, PTL
=============================================================================
