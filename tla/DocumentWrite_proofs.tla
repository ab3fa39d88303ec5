------------------------ MODULE DocumentWrite_proofs ------------------------
(***************************************************************************)
(* Proofs about DocumentWrite and ProfileWrite, for any sets of requests,  *)
(* keys and calls.                                                         *)
(*                                                                         *)
(* The argument for DocumentWrite: a snapshot shows a past of what is      *)
(* committed (ViewInv); rows are never removed, and relations and markers  *)
(* only added, so what was true of a snapshot and matters stays true.      *)
(* What is not stable, the latest marker and the row, is kept by the row   *)
(* lock from the comparison to the commit (PhaseInv, LockInv), or by the   *)
(* serialization failure that meets a row updated after the snapshot.      *)
(* With SeenInv, that a request compares itself with the row as it is,     *)
(* every step that answers a call is the one step of WriteOnce that        *)
(* decides it.                                                             *)
(*                                                                         *)
(* The argument for ProfileWrite: the invariant of DocumentWrite holds     *)
(* there too, since every step is one of DocumentWrite or leaves the main  *)
(* database alone.  It is joined to the log by what holds across the two   *)
(* commits: a request logs only a document it is backed by (LinkInv), what *)
(* it found in the log when it decided what to do is still there when it   *)
(* commits, because rows and their content are never removed (StatusInv),  *)
(* and a row tells of a request that is backed (RowInv).  The advisory     *)
(* lock is not needed for any of this.                                     *)
(***************************************************************************)
EXTENDS ProfileWrite, SequenceTheorems, TLAPS

(* A request that works in its REPEATABLE READ transaction. *)
Snapshotted(r) ==
  ~fresh[r] /\ pc[r] \in {"absent", "comparing", "matched", "inserted"}

Prefix(s, t) == \A i \in DOMAIN s : i \in DOMAIN t /\ t[i] = s[i]

(* What a phase tells of the answer, the row and the latest marker. *)
PhaseInv ==
  \A r \in Request :
    /\ pc[r] \notin {"stored", "done"} => outcome[r] = "none"
    /\ pc[r] \in {"idle", "absent", "inserted"} => ~fresh[r]
    /\ pc[r] = "conflict" => fresh[r]
    /\ pc[r] = "inserted" => stored[KeyOf(r)] = NoDoc
    /\ pc[r] \in {"comparing", "matched", "conflict"} => stored[KeyOf(r)] # NoDoc
    /\ pc[r] = "matched" =>
         call[r].profile /\ StoredHash(Reads(r)) \in {NoHash, BodyOf(r)}

(* What a snapshot shows was committed and, for what is only added, still  *)
(* is; a document born with its profile looks the same ever since.         *)
ViewInv ==
  \A r \in Request : Snapshotted(r) =>
    /\ view[r].rels \subseteq rels[KeyOf(r)]
    /\ Prefix(view[r].marks, marks[KeyOf(r)])
    /\ pc[r] \in {"comparing", "matched"} => view[r].row # NoDoc
    /\ view[r].row # NoDoc =>
         /\ stored[KeyOf(r)] # NoDoc
         /\ BornWithProfile(KeyOf(r)) => /\ view[r].rels = rels[KeyOf(r)]
                                         /\ view[r].marks = marks[KeyOf(r)]
         /\ ~missed[r] => view[r].row = stored[KeyOf(r)]

(* One request has the number, one has the row. *)
LockInv ==
  \A q, r \in Request :
    q # r /\ pc[q] \in {"matched", "inserted"} /\ pc[r] = pc[q]
      => KeyOf(q) # KeyOf(r)

(* A document is of a request that was told so, unless its commit was not  *)
(* heard, and only the ERP changes what that request wrote.                *)
MakerInv ==
  \A k \in Key : stored[k] # NoDoc /\ stored[k].by # Erp =>
    /\ outcome[stored[k].by] \in {"created", "internal_error"}
    /\ KeyOf(stored[k].by) = k
    /\ stored[k].head = BodyOf(stored[k].by).head
    /\ stored[k].core \in {BodyOf(stored[k].by).core, Edited}

(* A refusal stays justified: the document that caused it differs from the *)
(* request, or is not active, or is not that of an identical call.         *)
Refusable(r) ==
  LET doc == stored[KeyOf(r)]
  IN  /\ doc # NoDoc
      /\ doc.by # Erp /\ call[doc.by] = call[r] /\ doc.active
           => doc.core # BodyOf(r).core

RefusedInv ==
  \A r \in Request : outcome[r] \in {"payload_mismatch", "duplicate_doc_no"}
                        => Refusable(r)

(* ProfileWrittenOnce, of one key. *)
OnceFor(k) ==
  /\ BornWithProfile(k) =>
       /\ marks[k] = <<[by |-> stored[k].by, body |-> BodyOf(stored[k].by)]>>
       /\ rels[k] = {[by |-> stored[k].by, fine |-> BodyOf(stored[k].by).fine]}
  /\ rels[k] # {} <=> marks[k] # <<>>
  /\ rels[k] # {} => stored[k] # NoDoc

IInv == /\ TypeOK /\ PhaseInv /\ ViewInv /\ LockInv /\ MakerInv /\ RefusedInv
        /\ OutcomesAreTrue /\ ProfileWrittenOnce

-----------------------------------------------------------------------------
LEMMA PrefixTransitive ==
  ASSUME NEW s, NEW t, NEW u, Prefix(s, t), Prefix(t, u)
  PROVE  Prefix(s, u)
BY DEF Prefix

LEMMA Typed ==
  ASSUME TypeOK, NEW r \in Request
  PROVE  /\ call[r] \in Call /\ KeyOf(r) \in Key /\ BodyOf(r) \in Body
         /\ view[r] \in Reading /\ Committed(KeyOf(r)) \in Reading
BY CallsAssumption DEF TypeOK, Call, KeyOf, BodyOf, Reading, Committed

(* Appending nothing, or one marker. *)
LEMMA Appending ==
  ASSUME NEW s \in Seq(Marker), NEW m \in Marker
  PROVE  /\ s \o <<>> = s
         /\ s \o <<m>> \in Seq(Marker)
         /\ Prefix(s, s \o <<m>>)
         /\ Len(s) + 1 \in DOMAIN (s \o <<m>>)
         /\ (s \o <<m>>)[Len(s) + 1] = m
         /\ s = <<>> => s \o <<m>> = <<m>>
<1>1. <<m>> \in Seq(Marker) /\ Len(<<m>>) = 1 /\ <<m>>[1] = m
  OBVIOUS
<1>2. s \o <<>> = s
  BY ConcatEmptySeq
<1>3. /\ s \o <<m>> \in Seq(Marker)
      /\ Len(s \o <<m>>) = Len(s) + 1
      /\ \A i \in 1..Len(s) + 1 : (s \o <<m>>)[i] =
            IF i <= Len(s) THEN s[i] ELSE <<m>>[i - Len(s)]
  BY <1>1, ConcatProperties
<1>4. DOMAIN s = 1..Len(s) /\ DOMAIN (s \o <<m>>) = 1..Len(s) + 1 /\ Len(s) \in Nat
  BY <1>3
<1>5. Prefix(s, s \o <<m>>)
  BY <1>3, <1>4 DEF Prefix
<1>6. Len(s) + 1 \in 1..Len(s) + 1 /\ (Len(s) + 1) - Len(s) = 1 /\ ~(Len(s) + 1 <= Len(s))
  BY <1>4
<1>7. (s \o <<m>>)[Len(s) + 1] = m
  BY <1>1, <1>3, <1>6
<1>8. s = <<>> => s \o <<m>> = <<m>>
  BY <1>1, ConcatEmptySeq
<1> QED
  BY <1>2, <1>3, <1>4, <1>5, <1>6, <1>7, <1>8

(* What writing a profile does to relations and markers, judged by a       *)
(* reading v that is a past of what is committed.                          *)
LEMMA WriteMeans ==
  ASSUME TypeOK, NEW r \in Request, NEW v \in Reading, WriteProfile(r, v),
         v.rels \subseteq rels[KeyOf(r)], Prefix(v.marks, marks[KeyOf(r)])
  PROVE  /\ rels' \in [Key -> SUBSET Relation] /\ marks' \in [Key -> Seq(Marker)]
         /\ \A k \in Key : k # KeyOf(r) => rels'[k] = rels[k] /\ marks'[k] = marks[k]
         /\ rels[KeyOf(r)] \subseteq rels'[KeyOf(r)]
         /\ rels'[KeyOf(r)] # {}
         /\ Prefix(marks[KeyOf(r)], marks'[KeyOf(r)])
         /\ \E i \in DOMAIN marks'[KeyOf(r)] : marks'[KeyOf(r)][i].body = BodyOf(r)
         /\ v.rels # {} => rels'[KeyOf(r)] = rels[KeyOf(r)]
         /\ (\E i \in DOMAIN v.marks : v.marks[i].body = BodyOf(r))
              => marks'[KeyOf(r)] = marks[KeyOf(r)]
         /\ rels[KeyOf(r)] = {} => rels'[KeyOf(r)] = {[by |-> r, fine |-> BodyOf(r).fine]}
         /\ marks[KeyOf(r)] = <<>> => marks'[KeyOf(r)] = <<[by |-> r, body |-> BodyOf(r)]>>
<1> DEFINE k == KeyOf(r)
           m == [by |-> r, body |-> BodyOf(r)]
           e == [by |-> r, fine |-> BodyOf(r).fine]
<1>1. k \in Key /\ BodyOf(r) \in Body /\ rels[k] \in SUBSET Relation
      /\ marks[k] \in Seq(Marker)
  BY Typed DEF TypeOK
<1>2. m \in Marker /\ m.body = BodyOf(r) /\ e \in Relation
  BY <1>1 DEF Marker, Relation, Body
<1>3. /\ rels' = [rels EXCEPT ![k] = rels[k] \cup WithRelations(r, v)]
      /\ marks' = [marks EXCEPT ![k] = marks[k] \o WithMarker(r, v)]
  BY <1>1 DEF WriteProfile, TypeOK
<1>4. WithRelations(r, v) = IF v.rels = {} THEN {e} ELSE {}
  BY DEF WithRelations
<1>5. WithMarker(r, v) = IF \E i \in DOMAIN v.marks : v.marks[i].body = BodyOf(r)
                         THEN <<>> ELSE <<m>>
  BY DEF WithMarker
<1>6. v.rels \subseteq rels[k] /\ Prefix(v.marks, marks[k])
  OBVIOUS
<1> HIDE DEF k, m, e
<1>7. rels'[k] = rels[k] \cup WithRelations(r, v)
      /\ marks'[k] = marks[k] \o WithMarker(r, v)
      /\ \A q \in Key : q # k => rels'[q] = rels[q] /\ marks'[q] = marks[q]
  BY <1>1, <1>3 DEF TypeOK
<1>8. /\ rels' \in [Key -> SUBSET Relation]
      /\ rels[k] \subseteq rels'[k]
      /\ rels'[k] # {}
      /\ v.rels # {} => rels'[k] = rels[k]
      /\ rels[k] = {} => rels'[k] = {e}
  BY <1>1, <1>2, <1>3, <1>4, <1>6, <1>7 DEF TypeOK
<1>9. /\ marks' \in [Key -> Seq(Marker)]
      /\ Prefix(marks[k], marks'[k])
      /\ \E i \in DOMAIN marks'[k] : marks'[k][i].body = BodyOf(r)
      /\ (\E i \in DOMAIN v.marks : v.marks[i].body = BodyOf(r)) => marks'[k] = marks[k]
      /\ marks[k] = <<>> => marks'[k] = <<m>>
  <2>1. CASE \E i \in DOMAIN v.marks : v.marks[i].body = BodyOf(r)
    <3>1. marks'[k] = marks[k]
      BY <2>1, <1>1, <1>2, <1>5, <1>7, Appending
    <3>2. \E i \in DOMAIN marks[k] : marks[k][i].body = BodyOf(r)
      BY <2>1, <1>6 DEF Prefix
    <3>3. marks[k] # <<>>
      BY <3>2
    <3>4. marks' \in [Key -> Seq(Marker)]
      BY <3>1, <1>1, <1>3, <1>7 DEF TypeOK
    <3> QED
      BY <3>1, <3>2, <3>3, <3>4 DEF Prefix
  <2>2. CASE ~\E i \in DOMAIN v.marks : v.marks[i].body = BodyOf(r)
    <3>1. marks'[k] = marks[k] \o <<m>>
      BY <2>2, <1>5, <1>7
    <3>2. /\ marks'[k] \in Seq(Marker)
          /\ Prefix(marks[k], marks'[k])
          /\ Len(marks[k]) + 1 \in DOMAIN marks'[k]
          /\ marks'[k][Len(marks[k]) + 1] = m
          /\ marks[k] = <<>> => marks'[k] = <<m>>
      BY <3>1, <1>1, <1>2, Appending
    <3>3. marks' \in [Key -> Seq(Marker)]
      BY <3>2, <1>1, <1>3, <1>7 DEF TypeOK
    <3> QED
      BY <2>2, <3>2, <3>3, <1>2
  <2> QED
    BY <2>1, <2>2
<1> QED
  BY <1>7, <1>8, <1>9 DEF k, m, e

LEMMA InitInv == Init => IInv
<1> SUFFICES ASSUME Init PROVE IInv
  OBVIOUS
<1>1. NoCall \in Calls
  BY CallsAssumption DEF NoCall
<1>2. Nothing \in Reading
  BY DEF Nothing, Reading
<1>3. TypeOK
  BY <1>1, <1>2 DEF Init, TypeOK, Phase, Outcome
<1>4. PhaseInv /\ ViewInv /\ LockInv /\ MakerInv /\ RefusedInv
  BY DEF Init, PhaseInv, ViewInv, LockInv, MakerInv, RefusedInv, Snapshotted
<1>5. OutcomesAreTrue /\ ProfileWrittenOnce
  BY DEF Init, OutcomesAreTrue, ProfileWrittenOnce, BornWithProfile
<1> QED
  BY <1>3, <1>4, <1>5 DEF IInv

-----------------------------------------------------------------------------
(* The end of a request: its transaction changes nothing.                  *)
LEMMA EndInv ==
  ASSUME IInv, NEW r \in Request, NEW a \in Outcome, EndWith(r, a),
         a \notin {"none", "created"},
         a = "already_exists" => ~call[r].profile,
         a \in {"payload_mismatch", "duplicate_doc_no"} => Refusable(r),
         pc[r] \in Open
  PROVE  IInv'
<1>a. /\ TypeOK /\ PhaseInv /\ ViewInv /\ LockInv /\ MakerInv /\ RefusedInv
      /\ OutcomesAreTrue /\ ProfileWrittenOnce
  BY DEF IInv
<1>1. /\ call' = call /\ fresh' = fresh /\ stored' = stored /\ rels' = rels
      /\ marks' = marks
      /\ pc'[r] = "done" /\ outcome'[r] = a
      /\ \A q \in Request : q # r => /\ pc'[q] = pc[q] /\ outcome'[q] = outcome[q]
                                     /\ view'[q] = view[q] /\ missed'[q] = missed[q]
  BY <1>a DEF EndWith, Leaves, db, TypeOK
<1>2. Nothing \in Reading
  BY DEF Nothing, Reading
<1>3. TypeOK'
  BY <1>a, <1>2 DEF EndWith, Leaves, db, TypeOK, Phase
<1>4. outcome[r] = "none"
  BY <1>a DEF PhaseInv, Open
<1>5. \A q \in Request : q # r => Reads(q)' = Reads(q)
  BY <1>1 DEF Reads, Committed, KeyOf
<1>6. PhaseInv'
  BY <1>a, <1>1, <1>5 DEF PhaseInv, KeyOf, BodyOf, StoredHash
<1>7. ViewInv'
  BY <1>a, <1>1 DEF ViewInv, Snapshotted, KeyOf, BodyOf, BornWithProfile
<1>8. LockInv'
  BY <1>a, <1>1 DEF LockInv, KeyOf
<1>9. \A k \in Key : stored[k] # NoDoc /\ stored[k].by # Erp => stored[k].by # r
  BY <1>a, <1>4 DEF MakerInv
<1>10. MakerInv'
  <2> SUFFICES ASSUME NEW k \in Key, stored[k] # NoDoc, stored[k].by # Erp
               PROVE  /\ outcome'[stored[k].by] \in {"created", "internal_error"}
                      /\ KeyOf(stored[k].by)' = k
                      /\ stored[k].head = BodyOf(stored[k].by)'.head
                      /\ stored[k].core \in {BodyOf(stored[k].by)'.core, Edited}
    BY <1>1 DEF MakerInv
  <2>1. stored[k].by \in Request
    BY <1>a DEF TypeOK, Document
  <2> QED
    BY <2>1, <1>a, <1>1, <1>9 DEF MakerInv, KeyOf, BodyOf
<1>11. RefusedInv'
  BY <1>a, <1>1 DEF RefusedInv, Refusable, KeyOf, BodyOf
<1>12. OutcomesAreTrue'
  BY <1>a, <1>1 DEF OutcomesAreTrue, KeyOf, BodyOf
<1>13. ProfileWrittenOnce'
  BY <1>a, <1>1 DEF ProfileWrittenOnce, BornWithProfile, KeyOf, BodyOf
<1> QED
  BY <1>3, <1>6, <1>7, <1>8, <1>10, <1>11, <1>12, <1>13 DEF IInv

(* A request goes on to another phase without any other change. *)
LEMMA GoesInv ==
  ASSUME IInv, NEW r \in Request, NEW p \in Phase, Goes(r, p),
         \/ pc[r] = "absent" /\ p = "inserted" /\ InsertHeader(r)
         \/ pc[r] = "conflict" /\ p = "comparing"
         \/ pc[r] = "comparing" /\ p = "matched" /\ Match(r)
         \/ pc[r] = "stored" /\ p = "done"
  PROVE  IInv'
<1>a. /\ TypeOK /\ PhaseInv /\ ViewInv /\ LockInv /\ MakerInv /\ RefusedInv
      /\ OutcomesAreTrue /\ ProfileWrittenOnce
  BY DEF IInv
<1>1. /\ UNCHANGED <<call, outcome, fresh, view, missed, stored, rels, marks>>
      /\ pc'[r] = p
      /\ \A q \in Request : q # r => pc'[q] = pc[q]
  BY <1>a DEF Goes, db, TypeOK
<1>2. TypeOK'
  BY <1>a DEF Goes, db, TypeOK
<1>3. \A q \in Request : Reads(q)' = Reads(q) /\ KeyOf(q)' = KeyOf(q) /\ BodyOf(q)' = BodyOf(q)
  BY <1>1 DEF Reads, Committed, KeyOf, BodyOf
<1>4. p = "matched" => call[r].profile /\ StoredHash(Reads(r)) \in {NoHash, BodyOf(r)}
  BY DEF Match, Acceptable, BodyOf
<1>5. p = "inserted" => stored[KeyOf(r)] = NoDoc
                        /\ \A q \in Request : pc[q] = "inserted" => KeyOf(q) # KeyOf(r)
  BY DEF InsertHeader, NumberPending
<1>6. p = "matched" => \A q \in Request : pc[q] = "matched" => KeyOf(q) # KeyOf(r)
  BY DEF Match, RowRead, RowLocked
<1>7. PhaseInv'
  BY <1>a, <1>1, <1>3, <1>4, <1>5 DEF PhaseInv, StoredHash
<1>8. ViewInv'
  BY <1>a, <1>1, <1>3 DEF ViewInv, Snapshotted, BornWithProfile, PhaseInv
<1>9. LockInv'
  BY <1>a, <1>1, <1>3, <1>5, <1>6 DEF LockInv
<1>10. MakerInv' /\ RefusedInv' /\ OutcomesAreTrue' /\ ProfileWrittenOnce'
  BY <1>a, <1>1 DEF MakerInv, RefusedInv, Refusable, OutcomesAreTrue,
                    ProfileWrittenOnce, BornWithProfile, KeyOf, BodyOf
<1> QED
  BY <1>2, <1>7, <1>8, <1>9, <1>10 DEF IInv

(* The snapshot of a request that begins is what is committed. *)
LEMMA ReceiveInv ==
  ASSUME IInv, NEW r \in Request, Receive(r)
  PROVE  IInv'
<1>a. /\ TypeOK /\ PhaseInv /\ ViewInv /\ LockInv /\ MakerInv /\ RefusedInv
      /\ OutcomesAreTrue /\ ProfileWrittenOnce
  BY DEF IInv
<1> PICK c \in Calls :
       /\ call' = [call EXCEPT ![r] = c]
       /\ view' = [view EXCEPT ![r] = Committed(c.key)]
       /\ pc' = [pc EXCEPT ![r] = IF IsActive(stored[c.key]) THEN "comparing"
                                                             ELSE "absent"]
  BY DEF Receive
<1>1. /\ UNCHANGED <<outcome, fresh, missed, stored, rels, marks>>
      /\ pc[r] = "idle" /\ outcome[r] = "none" /\ ~fresh[r]
      /\ call'[r] = c /\ view'[r] = Committed(c.key)
      /\ pc'[r] \in {"comparing", "absent"}
      /\ pc'[r] = "comparing" => stored[c.key] # NoDoc
      /\ \A q \in Request : q # r => /\ pc'[q] = pc[q] /\ call'[q] = call[q]
                                     /\ view'[q] = view[q]
  BY <1>a DEF Receive, db, TypeOK, PhaseInv, IsActive
<1>2. c \in Call /\ c.key \in Key /\ Committed(c.key) \in Reading
  BY <1>a, CallsAssumption DEF Call, Committed, Reading, TypeOK
<1>3. TypeOK'
  BY <1>a, <1>1, <1>2 DEF TypeOK, Phase
<1>4. /\ KeyOf(r)' = c.key
      /\ \A q \in Request : q # r => /\ KeyOf(q)' = KeyOf(q) /\ BodyOf(q)' = BodyOf(q)
                                     /\ Reads(q)' = Reads(q)
  BY <1>1 DEF KeyOf, BodyOf, Reads, Committed
<1>5. \A k \in Key : stored[k] # NoDoc /\ stored[k].by # Erp
         => stored[k].by \in Request /\ stored[k].by # r
  BY <1>a, <1>1 DEF MakerInv, TypeOK, Document
<1>6. PhaseInv'
  BY <1>a, <1>1, <1>4 DEF PhaseInv, StoredHash
<1>7. \A k \in Key : BornWithProfile(k)' = BornWithProfile(k)
  BY <1>1, <1>5 DEF BornWithProfile
<1>8. ViewInv'
  <2> SUFFICES ASSUME NEW q \in Request, Snapshotted(q)'
               PROVE  /\ view'[q].rels \subseteq rels'[KeyOf(q)']
                      /\ Prefix(view'[q].marks, marks'[KeyOf(q)'])
                      /\ pc'[q] \in {"comparing", "matched"} => view'[q].row # NoDoc
                      /\ view'[q].row # NoDoc =>
                           /\ stored'[KeyOf(q)'] # NoDoc
                           /\ BornWithProfile(KeyOf(q))' =>
                                /\ view'[q].rels = rels'[KeyOf(q)']
                                /\ view'[q].marks = marks'[KeyOf(q)']
                           /\ ~missed'[q] => view'[q].row = stored'[KeyOf(q)']
    BY DEF ViewInv, Prefix
  <2>1. CASE q = r
    BY <2>1, <1>1, <1>4 DEF Committed, Prefix
  <2>2. CASE q # r
    <3>1. Snapshotted(q)
      BY <2>2, <1>1 DEF Snapshotted
    <3>2. KeyOf(q) \in Key
      BY <1>a, Typed
    <3>3. BornWithProfile(KeyOf(q))' = BornWithProfile(KeyOf(q))
      BY <2>2, <3>2, <1>1, <1>4, <1>7 DEF BornWithProfile
    <3> QED
      BY <2>2, <3>1, <3>3, <1>a, <1>1, <1>4 DEF ViewInv
  <2> QED
    BY <2>1, <2>2
<1>9. LockInv'
  BY <1>a, <1>1, <1>4 DEF LockInv
<1>10. MakerInv'
  BY <1>a, <1>1, <1>4, <1>5 DEF MakerInv
<1>11. RefusedInv'
  <2> SUFFICES ASSUME NEW q \in Request,
                      outcome[q] \in {"payload_mismatch", "duplicate_doc_no"}
               PROVE  Refusable(q)'
    BY <1>1 DEF RefusedInv
  <2>1. q # r /\ Refusable(q)
    BY <1>a, <1>1 DEF RefusedInv
  <2>2. KeyOf(q) \in Key
    BY <1>a, Typed
  <2> QED
    BY <2>1, <2>2, <1>1, <1>4, <1>5 DEF Refusable
<1>12. OutcomesAreTrue'
  BY <1>a, <1>1, <1>4 DEF OutcomesAreTrue
<1>13. ProfileWrittenOnce'
  BY <1>a, <1>1, <1>4, <1>5, <1>7 DEF ProfileWrittenOnce, BornWithProfile
<1> QED
  BY <1>3, <1>6, <1>8, <1>9, <1>10, <1>11, <1>12, <1>13 DEF IInv

(* The unique index sends a request into its second transaction. *)
LEMMA ConflictInv ==
  ASSUME IInv, NEW r \in Request, UniqueConflict(r)
  PROVE  IInv'
<1>a. /\ TypeOK /\ PhaseInv /\ ViewInv /\ LockInv /\ MakerInv /\ RefusedInv
      /\ OutcomesAreTrue /\ ProfileWrittenOnce
  BY DEF IInv
<1>1. /\ UNCHANGED <<call, outcome, stored, rels, marks>>
      /\ pc[r] = "absent" /\ stored[KeyOf(r)] # NoDoc
      /\ pc'[r] = "conflict" /\ fresh'[r]
      /\ \A q \in Request : q # r => /\ pc'[q] = pc[q] /\ fresh'[q] = fresh[q]
                                     /\ view'[q] = view[q] /\ missed'[q] = missed[q]
  BY <1>a DEF UniqueConflict, db, TypeOK
<1>2. Nothing \in Reading
  BY DEF Nothing, Reading
<1>3. TypeOK'
  BY <1>a, <1>2 DEF UniqueConflict, db, TypeOK, Phase
<1>4. /\ \A q \in Request : KeyOf(q)' = KeyOf(q) /\ BodyOf(q)' = BodyOf(q)
      /\ \A q \in Request : q # r => Reads(q)' = Reads(q)
  BY <1>1 DEF Reads, Committed, KeyOf, BodyOf
<1>5. PhaseInv'
  BY <1>a, <1>1, <1>4 DEF PhaseInv, StoredHash
<1>6. ViewInv'
  BY <1>a, <1>1, <1>4 DEF ViewInv, Snapshotted, BornWithProfile
<1>7. LockInv'
  BY <1>a, <1>1, <1>4 DEF LockInv
<1>8. MakerInv' /\ RefusedInv' /\ OutcomesAreTrue' /\ ProfileWrittenOnce'
  BY <1>a, <1>1 DEF MakerInv, RefusedInv, Refusable, OutcomesAreTrue,
                    ProfileWrittenOnce, BornWithProfile, KeyOf, BodyOf
<1> QED
  BY <1>3, <1>5, <1>6, <1>7, <1>8 DEF IInv

(* A mismatch is not found with the document of an identical call: the row *)
(* is the committed one, and the marker is the one it was born with.       *)
LEMMA MismatchRefusable ==
  ASSUME IInv, NEW r \in Request, RowRead(r), ~Acceptable(call[r], Reads(r))
  PROVE  Refusable(r)
<1>a. TypeOK /\ PhaseInv /\ ViewInv /\ MakerInv /\ ProfileWrittenOnce
  BY DEF IInv
<1> DEFINE k == KeyOf(r)
           doc == stored[k]
           v == Reads(r)
<1>1. pc[r] = "comparing" /\ k \in Key /\ doc # NoDoc
  BY <1>a, Typed DEF RowRead, PhaseInv
<1>2. SUFFICES ASSUME doc.by # Erp, call[doc.by] = call[r], doc.active,
                      doc.core = BodyOf(r).core
               PROVE  FALSE
  BY <1>1 DEF Refusable
<1>3. doc.by \in Request /\ KeyOf(doc.by) = k /\ BodyOf(doc.by) = BodyOf(r)
      /\ doc.head = BodyOf(r).head
  BY <1>1, <1>2, <1>a DEF MakerInv, TypeOK, Document, BodyOf
<1>4. v.row = doc
  <2>1. CASE fresh[r]
    BY <2>1 DEF Reads, Committed
  <2>2. CASE ~fresh[r]
    BY <2>2, <1>1, <1>a DEF ViewInv, Snapshotted, RowRead, Reads
  <2> QED
    BY <2>1, <2>2
<1>5. SameDocument(call[r], v.row)
  BY <1>2, <1>3, <1>4 DEF SameDocument, BodyOf
<1>6. call[r].profile /\ StoredHash(v) \notin {NoHash, BodyOf(r)}
  BY <1>5 DEF Acceptable, BodyOf
<1>7. BornWithProfile(k)
  BY <1>1, <1>2, <1>6 DEF BornWithProfile
<1>8. v.marks = marks[k]
  <2>1. CASE fresh[r]
    BY <2>1 DEF Reads, Committed
  <2>2. CASE ~fresh[r]
    BY <2>2, <1>1, <1>7, <1>a DEF ViewInv, Snapshotted, Reads
  <2> QED
    BY <2>1, <2>2
<1>9. v.marks = <<[by |-> doc.by, body |-> BodyOf(r)]>>
  BY <1>1, <1>3, <1>7, <1>8, <1>a DEF ProfileWrittenOnce
<1>10. StoredHash(v) = BodyOf(r)
  BY <1>9 DEF StoredHash, Last
<1> QED
  BY <1>6, <1>10

-----------------------------------------------------------------------------
(* What a request reads of the profile when it reconciles is a past of     *)
(* what is committed, and exact for a document born with its profile.      *)
LEMMA MatchedReads ==
  ASSUME IInv, NEW r \in Request, pc[r] = "matched"
  PROVE  /\ Reads(r) \in Reading
         /\ Reads(r).rels \subseteq rels[KeyOf(r)]
         /\ Prefix(Reads(r).marks, marks[KeyOf(r)])
         /\ BornWithProfile(KeyOf(r)) => /\ Reads(r).rels = rels[KeyOf(r)]
                                         /\ Reads(r).marks = marks[KeyOf(r)]
         /\ stored[KeyOf(r)] # NoDoc
<1>a. TypeOK /\ PhaseInv /\ ViewInv
  BY DEF IInv
<1>1. CASE fresh[r]
  BY <1>1, <1>a, Typed DEF Reads, Committed, Prefix, PhaseInv
<1>2. CASE ~fresh[r]
  BY <1>2, <1>a, Typed DEF Reads, ViewInv, Snapshotted, PhaseInv
<1> QED
  BY <1>1, <1>2

(* Relations and markers of a key only grow; header rows are as before:    *)
(* what the other requests rely on is kept, whether the commit is heard or *)
(* not.                                                                    *)
LEMMA ReconcileInv ==
  ASSUME IInv, NEW r \in Request, Reconciles(r),
         NEW p \in {"stored", "done"}, NEW a \in {"already_exists", "internal_error"},
         Leaves(r, p, a)
  PROVE  IInv'
<1>a. /\ TypeOK /\ PhaseInv /\ ViewInv /\ LockInv /\ MakerInv /\ RefusedInv
      /\ OutcomesAreTrue /\ ProfileWrittenOnce
  BY DEF IInv
<1> DEFINE k == KeyOf(r)
           v == Reads(r)
<1>1. /\ UNCHANGED <<call, fresh, stored>>
      /\ pc[r] = "matched" /\ pc'[r] = p /\ outcome'[r] = a
      /\ \A q \in Request : q # r => /\ pc'[q] = pc[q] /\ outcome'[q] = outcome[q]
                                     /\ view'[q] = view[q] /\ missed'[q] = missed[q]
  BY <1>a DEF Reconciles, Leaves, TypeOK
<1>2. /\ v \in Reading /\ v.rels \subseteq rels[k] /\ Prefix(v.marks, marks[k])
      /\ BornWithProfile(k) => v.rels = rels[k] /\ v.marks = marks[k]
      /\ stored[k] # NoDoc /\ k \in Key
  BY <1>a, <1>1, MatchedReads, Typed
<1>3. WriteProfile(r, v)
  BY DEF Reconciles
<1>4. call[r].profile /\ StoredHash(v) \in {NoHash, BodyOf(r)} /\ outcome[r] = "none"
  BY <1>a, <1>1 DEF PhaseInv
<1>5. /\ rels' \in [Key -> SUBSET Relation] /\ marks' \in [Key -> Seq(Marker)]
      /\ \A q \in Key : q # k => rels'[q] = rels[q] /\ marks'[q] = marks[q]
      /\ rels[k] \subseteq rels'[k] /\ rels'[k] # {}
      /\ Prefix(marks[k], marks'[k])
      /\ \E i \in DOMAIN marks'[k] : marks'[k][i].body = BodyOf(r)
      /\ v.rels # {} => rels'[k] = rels[k]
      /\ (\E i \in DOMAIN v.marks : v.marks[i].body = BodyOf(r)) => marks'[k] = marks[k]
  BY <1>a, <1>2, <1>3, WriteMeans
<1>6. BornWithProfile(k) => rels'[k] = rels[k] /\ marks'[k] = marks[k]
  <2> SUFFICES ASSUME BornWithProfile(k) PROVE rels'[k] = rels[k] /\ marks'[k] = marks[k]
    OBVIOUS
  <2> DEFINE own == [by |-> stored[k].by, body |-> BodyOf(stored[k].by)]
  <2>1. v.marks = <<own>> /\ v.rels # {}
    BY <1>2, <1>a DEF ProfileWrittenOnce
  <2>2. stored[k].by \in Request
    BY <1>2, <1>a DEF BornWithProfile, TypeOK, Document
  <2>3. own.body \in Body /\ own.body # NoHash
    BY <2>2, <1>a, Typed, NullAssumption
  <2>4. StoredHash(v) = own.body
    BY <2>1 DEF StoredHash, Last
  <2>5. own.body = BodyOf(r)
    BY <2>3, <2>4, <1>4
  <2>6. 1 \in DOMAIN v.marks /\ v.marks[1].body = BodyOf(r)
    BY <2>1, <2>5
  <2> QED
    BY <2>1, <2>6, <1>5
<1> HIDE DEF v
<1>7. \A q \in Key : rels[q] \subseteq rels'[q] /\ Prefix(marks[q], marks'[q])
  BY <1>5 DEF Prefix
<1>8. \A q \in Request : KeyOf(q)' = KeyOf(q) /\ BodyOf(q)' = BodyOf(q) /\ KeyOf(q) \in Key
  BY <1>1, <1>a, Typed DEF KeyOf, BodyOf
<1>9. \A q \in Key : BornWithProfile(q)' = BornWithProfile(q)
  BY <1>1, <1>8 DEF BornWithProfile, BodyOf
<1>10. TypeOK'
  <2>1. Nothing \in Reading
    BY DEF Nothing, Reading
  <2> QED
    BY <2>1, <1>5, <1>a DEF Reconciles, Leaves, TypeOK, Phase, Outcome
<1>11. PhaseInv'
  <2>1. \A q \in Request : q # r /\ pc[q] = "matched" => Reads(q)' = Reads(q)
    <3> SUFFICES ASSUME NEW q \in Request, q # r, pc[q] = "matched"
                 PROVE  Reads(q)' = Reads(q)
      OBVIOUS
    <3>1. KeyOf(q) # k /\ KeyOf(q) \in Key
      BY <1>a, <1>1, <1>8 DEF LockInv
    <3> QED
      BY <3>1, <1>1, <1>5, <1>8 DEF Reads, Committed
  <2> QED
    BY <2>1, <1>a, <1>1, <1>8 DEF PhaseInv, StoredHash
<1>12. ViewInv'
  <2> SUFFICES ASSUME NEW q \in Request, Snapshotted(q)'
               PROVE  /\ view'[q].rels \subseteq rels'[KeyOf(q)']
                      /\ Prefix(view'[q].marks, marks'[KeyOf(q)'])
                      /\ pc'[q] \in {"comparing", "matched"} => view'[q].row # NoDoc
                      /\ view'[q].row # NoDoc =>
                           /\ stored'[KeyOf(q)'] # NoDoc
                           /\ BornWithProfile(KeyOf(q))' =>
                                /\ view'[q].rels = rels'[KeyOf(q)']
                                /\ view'[q].marks = marks'[KeyOf(q)']
                           /\ ~missed'[q] => view'[q].row = stored'[KeyOf(q)']
    BY DEF ViewInv, Prefix
  <2>1. q # r /\ Snapshotted(q) /\ view'[q] = view[q] /\ missed'[q] = missed[q]
        /\ pc'[q] = pc[q] /\ KeyOf(q)' = KeyOf(q) /\ KeyOf(q) \in Key
    BY <1>1, <1>8 DEF Snapshotted
  <2>2. Prefix(view[q].marks, marks'[KeyOf(q)])
    BY <2>1, <1>a, <1>7, PrefixTransitive DEF ViewInv
  <2>3. BornWithProfile(KeyOf(q))' = BornWithProfile(KeyOf(q))
    BY <2>1, <1>1, <1>8, <1>9 DEF BornWithProfile
  <2>4. BornWithProfile(KeyOf(q)) =>
          rels'[KeyOf(q)] = rels[KeyOf(q)] /\ marks'[KeyOf(q)] = marks[KeyOf(q)]
    BY <2>1, <1>5, <1>6
  <2> QED
    BY <2>1, <2>2, <2>3, <2>4, <1>a, <1>1, <1>7 DEF ViewInv
<1>13. LockInv'
  BY <1>a, <1>1, <1>8 DEF LockInv
<1>14. \A q \in Key : stored[q] # NoDoc /\ stored[q].by # Erp
         => stored[q].by \in Request /\ stored[q].by # r
  BY <1>a, <1>4 DEF MakerInv, TypeOK, Document
<1>15. MakerInv' /\ RefusedInv'
  <2>1. MakerInv'
    BY <1>a, <1>1, <1>8, <1>14 DEF MakerInv
  <2>2. RefusedInv'
    BY <1>a, <1>1 DEF RefusedInv, Refusable, KeyOf, BodyOf
  <2> QED
    BY <2>1, <2>2
<1>16. OutcomesAreTrue'
  <2> SUFFICES ASSUME NEW q \in Request
               PROVE  /\ outcome'[q] = "created" =>
                           stored'[KeyOf(q)'] # NoDoc /\ stored'[KeyOf(q)'].by = q
                      /\ outcome'[q] \in {"created", "already_exists"} /\ call'[q].profile =>
                           /\ rels'[KeyOf(q)'] # {}
                           /\ \E i \in DOMAIN marks'[KeyOf(q)'] :
                                marks'[KeyOf(q)'][i].body = BodyOf(q)'
    BY DEF OutcomesAreTrue
  <2>1. CASE q = r
    BY <2>1, <1>1, <1>5, <1>8
  <2>2. CASE q # r
    <3>1. rels[KeyOf(q)] \subseteq rels'[KeyOf(q)]
          /\ Prefix(marks[KeyOf(q)], marks'[KeyOf(q)])
      BY <1>7, <1>8
    <3> QED
      BY <2>2, <3>1, <1>a, <1>1, <1>8 DEF OutcomesAreTrue, Prefix
  <2> QED
    BY <2>1, <2>2
<1>17. ProfileWrittenOnce'
  <2> SUFFICES ASSUME NEW q \in Key PROVE OnceFor(q)'
    BY DEF ProfileWrittenOnce, OnceFor
  <2>1. OnceFor(q) /\ stored'[q] = stored[q] /\ BodyOf(stored[q].by)' = BodyOf(stored[q].by)
    BY <1>a, <1>1 DEF ProfileWrittenOnce, OnceFor, BodyOf
  <2>2. BornWithProfile(q)' = BornWithProfile(q)
    BY <1>9
  <2>3. CASE q # k
    BY <2>1, <2>2, <2>3, <1>1, <1>5 DEF OnceFor, BodyOf
  <2>4. CASE q = k
    <3>1. marks'[q] # <<>> /\ rels'[q] # {} /\ stored[q] # NoDoc
      BY <2>4, <1>2, <1>5
    <3>2. BornWithProfile(q) => rels'[q] = rels[q] /\ marks'[q] = marks[q]
      BY <2>4, <1>6
    <3> QED
      BY <2>1, <2>2, <3>1, <3>2, <1>1 DEF OnceFor, BodyOf
  <2> QED
    BY <2>3, <2>4
<1> QED
  BY <1>10, <1>11, <1>12, <1>13, <1>15, <1>16, <1>17 DEF IInv

(* The number was free when it was inserted and nobody else got it: what   *)
(* the commit adds is all there is of the document.                        *)
LEMMA CommitInv ==
  ASSUME IInv, NEW r \in Request, Stores(r),
         NEW p \in {"stored", "done"}, NEW a \in {"created", "internal_error"},
         Leaves(r, p, a)
  PROVE  IInv'
<1>a. /\ TypeOK /\ PhaseInv /\ ViewInv /\ LockInv /\ MakerInv /\ RefusedInv
      /\ OutcomesAreTrue /\ ProfileWrittenOnce
  BY DEF IInv
<1> DEFINE k == KeyOf(r)
           v == Reads(r)
           doc == [core |-> BodyOf(r).core, head |-> BodyOf(r).head,
                   active |-> TRUE, by |-> r]
<1>1. /\ UNCHANGED <<call, fresh>>
      /\ pc[r] = "inserted" /\ pc'[r] = p /\ outcome'[r] = a
      /\ \A q \in Request : q # r => /\ pc'[q] = pc[q] /\ outcome'[q] = outcome[q]
                                     /\ view'[q] = view[q] /\ missed'[q] = missed[q]
  BY <1>a DEF Stores, Leaves, TypeOK
<1>2. k \in Key /\ stored[k] = NoDoc /\ ~fresh[r] /\ outcome[r] = "none"
      /\ BodyOf(r) \in Body
  BY <1>a, <1>1, Typed DEF PhaseInv
<1>3. rels[k] = {} /\ marks[k] = <<>>
  BY <1>a, <1>2 DEF ProfileWrittenOnce
<1>4. v \in Reading /\ v.rels \subseteq rels[k] /\ Prefix(v.marks, marks[k])
  BY <1>a, <1>1, <1>2, Typed DEF ViewInv, Snapshotted, Reads
<1>5. doc \in Document /\ doc # NoDoc /\ doc.by = r /\ doc.active
      /\ doc.head = BodyOf(r).head /\ doc.core = BodyOf(r).core
  <2>1. BodyOf(r).core \in Core /\ BodyOf(r).head \in Header
    BY <1>2 DEF Body
  <2>2. doc \in Document
    BY <2>1 DEF Document
  <2>3. doc # NoDoc
    BY <2>2, NullAssumption
  <2> QED
    BY <2>2, <2>3
<1>6. /\ stored' = [stored EXCEPT ![k] = doc]
      /\ stored'[k] = doc
      /\ \A q \in Key : q # k => stored'[q] = stored[q]
  BY <1>a, <1>2 DEF Stores, TypeOK
<1>7. /\ rels' \in [Key -> SUBSET Relation] /\ marks' \in [Key -> Seq(Marker)]
      /\ \A q \in Key : q # k => rels'[q] = rels[q] /\ marks'[q] = marks[q]
      /\ call[r].profile => /\ rels'[k] = {[by |-> r, fine |-> BodyOf(r).fine]}
                            /\ marks'[k] = <<[by |-> r, body |-> BodyOf(r)]>>
      /\ ~call[r].profile => rels'[k] = {} /\ marks'[k] = <<>>
  <2>1. CASE call[r].profile
    <3>1. WriteProfile(r, v)
      BY <2>1 DEF Stores
    <3> QED
      BY <2>1, <3>1, <1>3, <1>4, <1>a, WriteMeans
  <2>2. CASE ~call[r].profile
    BY <2>2, <1>3, <1>a DEF Stores, TypeOK
  <2> QED
    BY <2>1, <2>2
<1>8. \A q \in Request : KeyOf(q)' = KeyOf(q) /\ BodyOf(q)' = BodyOf(q) /\ KeyOf(q) \in Key
  BY <1>1, <1>a, Typed DEF KeyOf, BodyOf
<1>9. \A q \in Request : q # r /\ KeyOf(q) = k =>
         /\ pc[q] \notin {"comparing", "matched", "conflict", "inserted"}
         /\ outcome[q] \notin {"payload_mismatch", "duplicate_doc_no", "created"}
  BY <1>a, <1>1, <1>2
  DEF PhaseInv, LockInv, RefusedInv, Refusable, OutcomesAreTrue
<1> HIDE DEF k, v, doc
<1>10. TypeOK'
  <2>1. Nothing \in Reading
    BY DEF Nothing, Reading
  <2>2. stored' \in [Key -> Document \cup {NoDoc}]
    BY <1>2, <1>5, <1>6, <1>a DEF TypeOK
  <2> QED
    BY <2>1, <2>2, <1>7, <1>a DEF Stores, Leaves, TypeOK, Phase, Outcome
<1>11. PhaseInv'
  <2> SUFFICES ASSUME NEW q \in Request
               PROVE  /\ pc'[q] \notin {"stored", "done"} => outcome'[q] = "none"
                      /\ pc'[q] \in {"idle", "absent", "inserted"} => ~fresh'[q]
                      /\ pc'[q] = "conflict" => fresh'[q]
                      /\ pc'[q] = "inserted" => stored'[KeyOf(q)'] = NoDoc
                      /\ pc'[q] \in {"comparing", "matched", "conflict"}
                           => stored'[KeyOf(q)'] # NoDoc
                      /\ pc'[q] = "matched" =>
                           call'[q].profile /\ StoredHash(Reads(q))' \in {NoHash, BodyOf(q)'}
    BY DEF PhaseInv
  <2>1. CASE q = r
    BY <2>1, <1>1
  <2>2. CASE q # r /\ KeyOf(q) = k
    BY <2>2, <1>1, <1>8, <1>9, <1>a DEF PhaseInv
  <2>3. CASE q # r /\ KeyOf(q) # k
    <3>1. Reads(q)' = Reads(q)
      BY <2>3, <1>1, <1>6, <1>7, <1>8 DEF Reads, Committed
    <3> QED
      BY <2>3, <3>1, <1>1, <1>6, <1>8, <1>a DEF PhaseInv, StoredHash
  <2> QED
    BY <2>1, <2>2, <2>3
<1>12. \A q \in Key : q # k /\ stored[q] # NoDoc /\ stored[q].by # Erp =>
         stored[q].by \in Request /\ stored[q].by # r
  BY <1>a, <1>2 DEF MakerInv, TypeOK, Document
<1>13. ViewInv'
  <2> SUFFICES ASSUME NEW q \in Request, Snapshotted(q)'
               PROVE  /\ view'[q].rels \subseteq rels'[KeyOf(q)']
                      /\ Prefix(view'[q].marks, marks'[KeyOf(q)'])
                      /\ pc'[q] \in {"comparing", "matched"} => view'[q].row # NoDoc
                      /\ view'[q].row # NoDoc =>
                           /\ stored'[KeyOf(q)'] # NoDoc
                           /\ BornWithProfile(KeyOf(q))' =>
                                /\ view'[q].rels = rels'[KeyOf(q)']
                                /\ view'[q].marks = marks'[KeyOf(q)']
                           /\ ~missed'[q] => view'[q].row = stored'[KeyOf(q)']
    BY DEF ViewInv, Prefix
  <2>1. q # r /\ Snapshotted(q) /\ view'[q] = view[q] /\ missed'[q] = missed[q]
        /\ pc'[q] = pc[q] /\ KeyOf(q)' = KeyOf(q) /\ KeyOf(q) \in Key
    BY <1>1, <1>8 DEF Snapshotted
  <2>2. CASE KeyOf(q) = k
    <3>1. view[q].row = NoDoc /\ view[q].rels = {} /\ Prefix(view[q].marks, <<>>)
      BY <2>1, <2>2, <1>2, <1>3, <1>a DEF ViewInv
    <3>2. Prefix(view[q].marks, marks'[k])
      BY <3>1 DEF Prefix
    <3> QED
      BY <2>1, <2>2, <3>1, <3>2, <1>9
  <2>3. CASE KeyOf(q) # k
    <3>1. BornWithProfile(KeyOf(q))' = BornWithProfile(KeyOf(q))
      BY <2>1, <2>3, <1>1, <1>6, <1>8 DEF BornWithProfile
    <3>2. /\ stored'[KeyOf(q)] = stored[KeyOf(q)] /\ rels'[KeyOf(q)] = rels[KeyOf(q)]
          /\ marks'[KeyOf(q)] = marks[KeyOf(q)]
      BY <2>1, <2>3, <1>6, <1>7
    <3> QED
      BY <2>1, <3>1, <3>2, <1>a DEF ViewInv
  <2> QED
    BY <2>2, <2>3
<1>14. LockInv'
  BY <1>a, <1>1, <1>8 DEF LockInv
<1>15. MakerInv'
  <2> SUFFICES ASSUME NEW q \in Key, stored'[q] # NoDoc, stored'[q].by # Erp
               PROVE  /\ outcome'[stored'[q].by] \in {"created", "internal_error"}
                      /\ KeyOf(stored[q].by)' = q \/ q = k
                      /\ KeyOf(r)' = q \/ q # k
                      /\ stored'[q].head = call[stored'[q].by].body.head
                      /\ stored'[q].core \in {call[stored'[q].by].body.core, Edited}
    BY <1>1, <1>5, <1>6 DEF MakerInv, KeyOf, BodyOf
  <2>1. CASE q = k
    BY <2>1, <1>1, <1>5, <1>6, <1>8 DEF BodyOf, k
  <2>2. CASE q # k
    BY <2>2, <1>1, <1>6, <1>8, <1>12, <1>a DEF MakerInv, BodyOf
  <2> QED
    BY <2>1, <2>2
<1>16. RefusedInv'
  <2> SUFFICES ASSUME NEW q \in Request,
                      outcome'[q] \in {"payload_mismatch", "duplicate_doc_no"}
               PROVE  Refusable(q)'
    BY DEF RefusedInv
  <2>1. q # r /\ KeyOf(q) # k /\ KeyOf(q) \in Key /\ Refusable(q)
    BY <1>1, <1>8, <1>9, <1>a DEF RefusedInv
  <2> QED
    BY <2>1, <1>1, <1>6, <1>8 DEF Refusable
<1>17. OutcomesAreTrue'
  <2> SUFFICES ASSUME NEW q \in Request
               PROVE  /\ outcome'[q] = "created" =>
                           stored'[KeyOf(q)'] # NoDoc /\ stored'[KeyOf(q)'].by = q
                      /\ outcome'[q] \in {"created", "already_exists"} /\ call'[q].profile =>
                           /\ rels'[KeyOf(q)'] # {}
                           /\ \E i \in DOMAIN marks'[KeyOf(q)'] :
                                marks'[KeyOf(q)'][i].body = BodyOf(q)'
    BY DEF OutcomesAreTrue
  <2>1. CASE q = r
    <3>1. call[r].profile => /\ rels'[k] # {}
                             /\ 1 \in DOMAIN marks'[k] /\ marks'[k][1].body = BodyOf(r)
      <4> DEFINE m == [by |-> r, body |-> BodyOf(r)]
      <4>1. 1 \in DOMAIN <<m>> /\ <<m>>[1].body = BodyOf(r)
        OBVIOUS
      <4> QED
        BY <4>1, <1>7
    <3> QED
      BY <2>1, <3>1, <1>1, <1>5, <1>6, <1>8 DEF k
  <2>2. CASE q # r /\ KeyOf(q) = k
    <3>1. ~(outcome[q] = "already_exists" /\ call[q].profile)
      BY <2>2, <1>3, <1>a DEF OutcomesAreTrue
    <3> QED
      BY <2>2, <3>1, <1>1, <1>9
  <2>3. CASE q # r /\ KeyOf(q) # k
    <3>1. /\ KeyOf(q)' = KeyOf(q) /\ BodyOf(q)' = BodyOf(q) /\ KeyOf(q) \in Key
          /\ outcome'[q] = outcome[q] /\ call' = call
      BY <2>3, <1>1, <1>8
    <3>2. /\ stored'[KeyOf(q)] = stored[KeyOf(q)] /\ rels'[KeyOf(q)] = rels[KeyOf(q)]
          /\ marks'[KeyOf(q)] = marks[KeyOf(q)]
      BY <2>3, <3>1, <1>6, <1>7
    <3> QED
      BY <3>1, <3>2, <1>a DEF OutcomesAreTrue
  <2> QED
    BY <2>1, <2>2, <2>3
<1>18. ProfileWrittenOnce'
  <2> SUFFICES ASSUME NEW q \in Key PROVE OnceFor(q)'
    BY DEF ProfileWrittenOnce, OnceFor
  <2>1. CASE q = k
    <3>1. stored'[q] = doc /\ stored'[q].by = r /\ stored'[q] # NoDoc
      BY <2>1, <1>5, <1>6
    <3>2. BornWithProfile(q)' => call[r].profile
      BY <3>1, <1>1 DEF BornWithProfile
    <3>3. /\ stored'[q].by = r /\ BodyOf(r)' = BodyOf(r)
          /\ call[r].profile =>
               /\ rels'[q] = {[by |-> r, fine |-> BodyOf(r).fine]}
               /\ marks'[q] = <<[by |-> r, body |-> BodyOf(r)]>>
          /\ ~call[r].profile => rels'[q] = {} /\ marks'[q] = <<>>
      BY <2>1, <3>1, <1>1, <1>7 DEF BodyOf
    <3>4. <<[by |-> r, body |-> BodyOf(r)]>> # <<>>
      OBVIOUS
    <3> QED
      BY <3>1, <3>2, <3>3, <3>4, <1>1 DEF OnceFor, BodyOf
  <2>2. CASE q # k
    <3>1. OnceFor(q) /\ stored'[q] = stored[q] /\ rels'[q] = rels[q] /\ marks'[q] = marks[q]
      BY <2>2, <1>a, <1>6, <1>7 DEF ProfileWrittenOnce, OnceFor
    <3> QED
      BY <3>1, <1>1 DEF OnceFor, BornWithProfile, BodyOf
  <2> QED
    BY <2>1, <2>2
<1> QED
  BY <1>10, <1>11, <1>13, <1>14, <1>15, <1>16, <1>17, <1>18 DEF IInv

-----------------------------------------------------------------------------
(* The ERP creates a document under a number that nobody has. *)
LEMMA ErpCreateInv ==
  ASSUME IInv, NEW k \in Key, ErpCreate(k)
  PROVE  IInv'
<1>a. /\ TypeOK /\ PhaseInv /\ ViewInv /\ LockInv /\ MakerInv /\ RefusedInv
      /\ OutcomesAreTrue /\ ProfileWrittenOnce
  BY DEF IInv
<1> PICK c \in Core, h \in Header :
       stored' = [stored EXCEPT ![k] = [core |-> c, head |-> h, active |-> TRUE,
                                        by |-> Erp]]
  BY DEF ErpCreate
<1> DEFINE doc == [core |-> c, head |-> h, active |-> TRUE, by |-> Erp]
<1>1. /\ UNCHANGED <<pc, call, outcome, fresh, view, missed, rels, marks>>
      /\ stored[k] = NoDoc
      /\ \A q \in Request : pc[q] = "inserted" => KeyOf(q) # k
  BY DEF ErpCreate, NumberPending
<1>2. doc \in Document /\ doc # NoDoc /\ doc.by = Erp
  <2>1. doc \in Document
    BY DEF Document
  <2>2. doc # NoDoc
    BY <2>1, NullAssumption
  <2> QED
    BY <2>1, <2>2
<1>3. /\ stored' = [stored EXCEPT ![k] = doc] /\ stored'[k] = doc
      /\ \A q \in Key : q # k => stored'[q] = stored[q]
  BY <1>a DEF TypeOK
<1> HIDE DEF doc
<1>4. \A q \in Request : KeyOf(q)' = KeyOf(q) /\ BodyOf(q)' = BodyOf(q) /\ KeyOf(q) \in Key
  BY <1>1, <1>a, Typed DEF KeyOf, BodyOf
<1>5. \A q \in Request : KeyOf(q) = k =>
         /\ pc[q] \notin {"comparing", "matched", "conflict", "inserted"}
         /\ outcome[q] \notin {"payload_mismatch", "duplicate_doc_no", "created"}
  BY <1>a, <1>1 DEF PhaseInv, RefusedInv, Refusable, OutcomesAreTrue
<1>6. TypeOK'
  BY <1>a, <1>1, <1>2, <1>3 DEF TypeOK
<1>7. PhaseInv'
  <2>1. \A q \in Request : pc[q] = "matched" => Reads(q)' = Reads(q)
    BY <1>1, <1>3, <1>4, <1>5 DEF Reads, Committed
  <2> QED
    BY <2>1, <1>a, <1>1, <1>3, <1>4, <1>5 DEF PhaseInv, StoredHash
<1>8. \A q \in Key : BornWithProfile(q)' => q # k /\ BornWithProfile(q)
  BY <1>1, <1>2, <1>3 DEF BornWithProfile
<1>9. ViewInv'
  <2> SUFFICES ASSUME NEW q \in Request, Snapshotted(q)'
               PROVE  /\ view'[q].rels \subseteq rels'[KeyOf(q)']
                      /\ Prefix(view'[q].marks, marks'[KeyOf(q)'])
                      /\ pc'[q] \in {"comparing", "matched"} => view'[q].row # NoDoc
                      /\ view'[q].row # NoDoc =>
                           /\ stored'[KeyOf(q)'] # NoDoc
                           /\ BornWithProfile(KeyOf(q))' =>
                                /\ view'[q].rels = rels'[KeyOf(q)']
                                /\ view'[q].marks = marks'[KeyOf(q)']
                           /\ ~missed'[q] => view'[q].row = stored'[KeyOf(q)']
    BY DEF ViewInv, Prefix
  <2>1. Snapshotted(q)
    BY <1>1 DEF Snapshotted
  <2>2. CASE KeyOf(q) = k
    BY <2>1, <2>2, <1>1, <1>4, <1>5, <1>a DEF ViewInv
  <2>3. CASE KeyOf(q) # k
    <3>1. BornWithProfile(KeyOf(q))' => BornWithProfile(KeyOf(q))
      BY <2>3, <1>1, <1>3, <1>4 DEF BornWithProfile
    <3> QED
      BY <2>1, <2>3, <3>1, <1>1, <1>3, <1>4, <1>a DEF ViewInv
  <2> QED
    BY <2>2, <2>3
<1>10. LockInv' /\ MakerInv'
  BY <1>a, <1>1, <1>2, <1>3 DEF LockInv, MakerInv, KeyOf, BodyOf
<1>11. RefusedInv' /\ OutcomesAreTrue'
  BY <1>a, <1>1, <1>3, <1>4, <1>5 DEF RefusedInv, Refusable, OutcomesAreTrue
<1>12. ProfileWrittenOnce'
  <2> SUFFICES ASSUME NEW q \in Key PROVE OnceFor(q)'
    BY DEF ProfileWrittenOnce, OnceFor
  <2>1. OnceFor(q) /\ rels[k] = {} /\ marks[k] = <<>>
    BY <1>a, <1>1 DEF ProfileWrittenOnce, OnceFor
  <2> QED
    BY <2>1, <1>1, <1>2, <1>3, <1>8 DEF OnceFor, BodyOf
<1> QED
  BY <1>6, <1>7, <1>9, <1>10, <1>11, <1>12 DEF IInv

(* The ERP edits or cancels an active document whose row is free. *)
LEMMA ErpUpdateInv ==
  ASSUME IInv, NEW k \in Key, ErpEdit(k) \/ Cancel(k)
  PROVE  IInv'
<1>a. /\ TypeOK /\ PhaseInv /\ ViewInv /\ LockInv /\ MakerInv /\ RefusedInv
      /\ OutcomesAreTrue /\ ProfileWrittenOnce
  BY DEF IInv
<1>1. /\ UNCHANGED <<pc, call, outcome, fresh, view, rels, marks>>
      /\ stored[k] # NoDoc /\ stored[k].active
      /\ \A q \in Request : pc[q] = "matched" => KeyOf(q) # k
      /\ missed' = RowUpdated(k)
  BY DEF ErpEdit, Cancel, RowLocked, IsActive
<1>2. stored[k] \in Document
  BY <1>a, <1>1 DEF TypeOK
<1>3. \E doc \in Document :
        /\ stored' = [stored EXCEPT ![k] = doc]
        /\ doc.by = stored[k].by /\ doc.head = stored[k].head
        /\ doc.core \in {stored[k].core, Edited}
        /\ ~doc.active \/ doc.core = Edited
  <2>1. CASE ErpEdit(k)
    <3> DEFINE doc == [stored[k] EXCEPT !.core = Edited]
    <3>1. doc \in Document /\ doc.by = stored[k].by /\ doc.head = stored[k].head
          /\ doc.core = Edited
      BY <1>2 DEF Document
    <3>2. stored' = [stored EXCEPT ![k] = doc]
      BY <2>1, <1>a DEF ErpEdit, TypeOK
    <3> QED
      BY <3>1, <3>2
  <2>2. CASE Cancel(k)
    <3> DEFINE doc == [stored[k] EXCEPT !.active = FALSE]
    <3>1. doc \in Document /\ doc.by = stored[k].by /\ doc.head = stored[k].head
          /\ doc.core = stored[k].core /\ ~doc.active
      BY <1>2 DEF Document
    <3>2. stored' = [stored EXCEPT ![k] = doc]
      BY <2>2, <1>a DEF Cancel, TypeOK
    <3> QED
      BY <3>1, <3>2
  <2> QED
    BY <2>1, <2>2
<1> PICK doc \in Document :
      /\ stored' = [stored EXCEPT ![k] = doc]
      /\ doc.by = stored[k].by /\ doc.head = stored[k].head
      /\ doc.core \in {stored[k].core, Edited}
      /\ ~doc.active \/ doc.core = Edited
  BY <1>3
<1>4. /\ doc # NoDoc /\ stored'[k] = doc
      /\ \A q \in Key : q # k => stored'[q] = stored[q]
  BY <1>a, NullAssumption DEF TypeOK
<1>5. \A q \in Request : KeyOf(q)' = KeyOf(q) /\ BodyOf(q)' = BodyOf(q) /\ KeyOf(q) \in Key
  BY <1>1, <1>a, Typed DEF KeyOf, BodyOf
<1>6. /\ missed' \in [Request -> BOOLEAN]
      /\ \A q \in Request : ~missed'[q] => ~missed[q]
      /\ \A q \in Request : ~missed'[q] /\ KeyOf(q) = k /\ ~fresh[q]
                              => pc[q] \notin {"absent", "comparing"}
  BY <1>1, <1>a DEF RowUpdated, TypeOK
<1>7. TypeOK'
  BY <1>a, <1>1, <1>4, <1>6 DEF TypeOK
<1>8. PhaseInv'
  <2>1. \A q \in Request : pc[q] = "matched" => Reads(q)' = Reads(q)
    BY <1>1, <1>4, <1>5 DEF Reads, Committed
  <2> QED
    BY <2>1, <1>a, <1>1, <1>4, <1>5 DEF PhaseInv, StoredHash
<1>9. \A q \in Key : BornWithProfile(q)' = BornWithProfile(q)
  BY <1>1, <1>4 DEF BornWithProfile
<1>10. ViewInv'
  <2> SUFFICES ASSUME NEW q \in Request, Snapshotted(q)'
               PROVE  /\ view'[q].rels \subseteq rels'[KeyOf(q)']
                      /\ Prefix(view'[q].marks, marks'[KeyOf(q)'])
                      /\ pc'[q] \in {"comparing", "matched"} => view'[q].row # NoDoc
                      /\ view'[q].row # NoDoc =>
                           /\ stored'[KeyOf(q)'] # NoDoc
                           /\ BornWithProfile(KeyOf(q))' =>
                                /\ view'[q].rels = rels'[KeyOf(q)']
                                /\ view'[q].marks = marks'[KeyOf(q)']
                           /\ ~missed'[q] => view'[q].row = stored'[KeyOf(q)']
    BY DEF ViewInv, Prefix
  <2>1. Snapshotted(q) /\ KeyOf(q)' = KeyOf(q) /\ KeyOf(q) \in Key
    BY <1>1, <1>5 DEF Snapshotted
  <2>2. BornWithProfile(KeyOf(q))' = BornWithProfile(KeyOf(q))
    BY <2>1, <1>1, <1>4 DEF BornWithProfile
  <2>3. ~missed'[q] /\ view[q].row # NoDoc => KeyOf(q) # k
    BY <2>1, <1>1, <1>6, <1>a DEF Snapshotted, PhaseInv, ViewInv
  <2> QED
    BY <2>1, <2>2, <2>3, <1>a, <1>1, <1>4, <1>6 DEF ViewInv
<1>11. LockInv' /\ MakerInv'
  BY <1>a, <1>1, <1>4 DEF LockInv, MakerInv, KeyOf, BodyOf
<1>12. RefusedInv'
  <2> SUFFICES ASSUME NEW q \in Request, Refusable(q)
               PROVE  Refusable(q)'
    BY <1>a, <1>1 DEF RefusedInv
  <2>1. CASE KeyOf(q) = k
    <3>1. BodyOf(q).core # Edited
      BY <1>a, Typed, NullAssumption DEF Body
    <3> QED
      BY <2>1, <3>1, <1>1, <1>4, <1>5 DEF Refusable
  <2>2. CASE KeyOf(q) # k
    BY <2>2, <1>1, <1>4, <1>5 DEF Refusable
  <2> QED
    BY <2>1, <2>2
<1>13. OutcomesAreTrue'
  BY <1>a, <1>1, <1>4, <1>5 DEF OutcomesAreTrue
<1>14. ProfileWrittenOnce'
  <2> SUFFICES ASSUME NEW q \in Key PROVE OnceFor(q)'
    BY DEF ProfileWrittenOnce, OnceFor
  <2>1. OnceFor(q)
    BY <1>a DEF ProfileWrittenOnce, OnceFor
  <2> QED
    BY <2>1, <1>1, <1>4, <1>9 DEF OnceFor, BodyOf
<1> QED
  BY <1>7, <1>8, <1>10, <1>11, <1>12, <1>13, <1>14 DEF IInv

-----------------------------------------------------------------------------
(* The ends of a request that store nothing. *)
LEMMA SmallEndsInv ==
  ASSUME IInv, NEW r \in Request,
         Reject(r) \/ SerializationFailure(r) \/ Vanished(r) \/ Fail(r)
  PROVE  IInv'
<1>1. PICK a \in {"rejected", "serialization_failure", "internal_error"} :
        EndWith(r, a)
  BY DEF Reject, SerializationFailure, Vanished, Fail
<1>2. pc[r] \in Open
  BY DEF Reject, SerializationFailure, Vanished, Fail, Open
<1> QED
  BY <1>1, <1>2, EndInv DEF Outcome

LEMMA MismatchInv ==
  ASSUME IInv, NEW r \in Request, Mismatch(r)
  PROVE  IInv'
<1>1. Refusable(r)
  BY MismatchRefusable DEF Mismatch
<1>2. EndWith(r, "payload_mismatch") /\ pc[r] \in Open
  BY DEF Mismatch, RowRead, Open
<1> QED
  BY <1>1, <1>2, EndInv DEF Outcome

LEMMA LegacyExistsInv ==
  ASSUME IInv, NEW r \in Request, LegacyExists(r)
  PROVE  IInv'
<1>1. EndWith(r, "already_exists") /\ pc[r] \in Open /\ ~call[r].profile
  BY DEF LegacyExists, RowRead, Open
<1> QED
  BY <1>1, EndInv DEF Outcome

(* A number that an inactive document has is refused. *)
LEMMA LookAgainInv ==
  ASSUME IInv, NEW r \in Request, LookAgain(r)
  PROVE  IInv'
<1>1. pc[r] = "conflict" /\ stored[KeyOf(r)] # NoDoc
  BY DEF LookAgain, IInv, PhaseInv
<1>2. CASE IsActive(stored[KeyOf(r)])
  <2>1. Goes(r, "comparing")
    BY <1>2 DEF LookAgain
  <2> QED
    BY <1>1, <2>1, GoesInv DEF Phase
<1>3. CASE ~IsActive(stored[KeyOf(r)])
  <2>1. EndWith(r, "duplicate_doc_no")
    BY <1>3 DEF LookAgain
  <2>2. Refusable(r)
    BY <1>1, <1>3 DEF Refusable, IsActive
  <2>3. pc[r] \in Open
    BY <1>1 DEF Open
  <2> QED
    BY <2>1, <2>2, <2>3, EndInv DEF Outcome
<1> QED
  BY <1>2, <1>3

(* The steps to the insertion, the match and the reply. *)
LEMMA StepsOnInv ==
  ASSUME IInv, NEW r \in Request, InsertHeader(r) \/ Match(r) \/ Answer(r)
  PROVE  IInv'
<1>1. CASE InsertHeader(r)
  BY <1>1, GoesInv DEF InsertHeader, Phase
<1>2. CASE Match(r)
  BY <1>2, GoesInv DEF Match, RowRead, Phase
<1>3. CASE Answer(r)
  BY <1>3, GoesInv DEF Answer, Phase
<1> QED
  BY <1>1, <1>2, <1>3

(* The commits, heard and unheard. *)
LEMMA CommitsInv ==
  ASSUME IInv, NEW r \in Request, Commit(r) \/ Reconcile(r) \/ CommitUnheard(r)
  PROVE  IInv'
<1>1. CASE Commit(r)
  BY <1>1, CommitInv DEF Commit, Committing
<1>2. CASE Reconcile(r)
  BY <1>2, ReconcileInv DEF Reconcile, Committing
<1>3. CASE CommitUnheard(r)
  BY <1>3, CommitInv, ReconcileInv DEF CommitUnheard
<1> QED
  BY <1>1, <1>2, <1>3

LEMMA StutterInv == IInv /\ UNCHANGED vars => IInv'
BY DEF vars, IInv, TypeOK, PhaseInv, ViewInv, LockInv, MakerInv, RefusedInv, Refusable,
       OutcomesAreTrue, ProfileWrittenOnce, BornWithProfile, Snapshotted, Prefix, Reads,
       Committed, KeyOf, BodyOf, StoredHash

LEMMA NextInv == IInv /\ [Next]_vars => IInv'
<1> SUFFICES ASSUME IInv, [Next]_vars PROVE IInv'
  OBVIOUS
<1>1. ASSUME NEW r \in Request, Receive(r) PROVE IInv'
  BY <1>1, ReceiveInv
<1>2. ASSUME NEW r \in Request, Reject(r) \/ Fail(r) PROVE IInv'
  BY <1>2, SmallEndsInv
<1>3. ASSUME NEW r \in Request, Serve(r) PROVE IInv'
  BY <1>3, StepsOnInv, ConflictInv, LookAgainInv, SmallEndsInv, MismatchInv,
     LegacyExistsInv, CommitsInv DEF Serve
<1>4. ASSUME NEW r \in Request, Answer(r) \/ CommitUnheard(r) PROVE IInv'
  BY <1>4, StepsOnInv, CommitsInv
<1>5. ASSUME NEW k \in Key, Environment(k) PROVE IInv'
  BY <1>5, ErpCreateInv, ErpUpdateInv DEF Environment
<1>6. CASE UNCHANGED vars
  BY <1>6, StutterInv
<1> QED
  BY <1>1, <1>2, <1>3, <1>4, <1>5, <1>6 DEF Next

LEMMA Invariance == Spec => []IInv
<1>1. Init => IInv
  BY InitInv
<1>2. IInv /\ [Next]_vars => IInv'
  BY NextInv
<1> QED
  BY <1>1, <1>2, PTL DEF Spec

-----------------------------------------------------------------------------
(* The variables keep their types: no request is ever in a phase, and no   *)
(* document in a shape, that write.go has no code for.                     *)
THEOREM DocumentTypes == Spec => []TypeOK
<1>1. IInv => TypeOK
  BY DEF IInv
<1> QED
  BY <1>1, Invariance, PTL

(* What a client of write.go was told stays true: the document that it     *)
(* created is its own, and the profile that it sent is recorded.           *)
THEOREM OutcomesStayTrue == Spec => []OutcomesAreTrue
<1>1. IInv => OutcomesAreTrue
  BY DEF IInv
<1> QED
  BY <1>1, Invariance, PTL

(* writeProfileRelations is idempotent: whatever is sent for the number,   *)
(* at the same time or later, a document that was created with its profile *)
(* has the relations and the marker of its creation and no other.          *)
THEOREM ProfilesAreWrittenOnce == Spec => []ProfileWrittenOnce
<1>1. IInv => ProfileWrittenOnce
  BY DEF IInv
<1> QED
  BY <1>1, Invariance, PTL

(* An identical retry of a call that made a document is never refused,     *)
(* even when both were sent at once and the unique index stopped one, or   *)
(* when the commit of the first was not heard.                             *)
THEOREM RetriesAreAccepted == Spec => []IdenticalRetry
<1>1. IInv => IdenticalRetry
  <2> SUFFICES ASSUME IInv, NEW q \in Request, NEW r \in Request,
                      stored[KeyOf(q)] # NoDoc, stored[KeyOf(q)].by = q,
                      call[r] = call[q],
                      stored[KeyOf(q)].active, stored[KeyOf(q)].core = BodyOf(q).core,
                      outcome[r] \in {"payload_mismatch", "duplicate_doc_no"}
               PROVE  FALSE
    BY DEF IdenticalRetry
  <2>1. KeyOf(r) = KeyOf(q) /\ BodyOf(r) = BodyOf(q)
    BY DEF KeyOf, BodyOf
  <2>2. Refusable(r)
    BY DEF IInv, RefusedInv
  <2>3. q # Erp
    BY NullAssumption
  <2> QED
    BY <2>1, <2>2, <2>3 DEF Refusable
<1> QED
  BY <1>1, Invariance, PTL

-----------------------------------------------------------------------------
(* The refinement.  What a request compares is the document as it is: in   *)
(* its first transaction an active document of the snapshot whose row was  *)
(* not updated since, and once matched a row that is locked.               *)
SeenInv ==
  \A r \in Request :
    /\ pc[r] = "comparing" /\ ~fresh[r] => IsActive(view[r].row)
    /\ pc[r] = "matched" => /\ IsActive(stored[KeyOf(r)])
                            /\ SameDocument(call[r], stored[KeyOf(r)])

LEMMA SeenIsThere ==
  ASSUME IInv, SeenInv, NEW r \in Request, RowRead(r)
  PROVE  IsActive(stored[KeyOf(r)]) /\ Reads(r).row = stored[KeyOf(r)]
<1>1. CASE fresh[r]
  BY <1>1 DEF RowRead, Reads, Committed
<1>2. CASE ~fresh[r]
  <2>1. ~missed[r] /\ pc[r] = "comparing"
    BY <1>2 DEF RowRead
  <2>2. IsActive(view[r].row)
    BY <1>2, <2>1 DEF SeenInv
  <2>3. view[r].row = stored[KeyOf(r)]
    BY <1>2, <2>1, <2>2 DEF IInv, ViewInv, Snapshotted, IsActive
  <2>. QED
    BY <1>2, <2>2, <2>3 DEF Reads
<1>. QED
  BY <1>1, <1>2

(* A step keeps what a request compares itself with: it leaves the request *)
(* where it is, ends it, or is the look that begins the comparison; and no *)
(* row that is locked changes.                                             *)
LEMMA SeenStep ==
  ASSUME IInv, SeenInv, [Next]_vars
  PROVE  SeenInv'
<1>. USE DEF IInv, TypeOK
<1>. DEFINE Sees(q) ==
       /\ pc[q] = "comparing" /\ ~fresh[q] => IsActive(view[q].row)
       /\ pc[q] = "matched" => /\ IsActive(stored[KeyOf(q)])
                               /\ SameDocument(call[q], stored[KeyOf(q)])
<1>. SUFFICES ASSUME NEW q \in Request PROVE Sees(q)'
  BY DEF SeenInv
<1>0. Sees(q) /\ KeyOf(q) \in Key
  BY Typed DEF SeenInv
<1>1. ASSUME pc'[q] = pc[q], fresh'[q] = fresh[q], view'[q] = view[q],
             call'[q] = call[q],
             pc[q] = "matched" => stored'[KeyOf(q)] = stored[KeyOf(q)]
      PROVE  Sees(q)'
  BY <1>0, <1>1 DEF KeyOf
<1>2. ASSUME pc'[q] \notin {"comparing", "matched"} PROVE Sees(q)'
  BY <1>2
<1>3. ASSUME NEW r \in Request, NEW a \in Outcome, EndWith(r, a)
      PROVE  Sees(q)'
  BY <1>1, <1>2, <1>3 DEF EndWith, Leaves, db
<1>4. ASSUME NEW r \in Request, Receive(r) PROVE Sees(q)'
  <2>1. CASE q = r
    BY <1>4, <2>1 DEF Receive, Committed, db
  <2>2. CASE q # r
    BY <1>1, <1>4, <2>2 DEF Receive, db
  <2>. QED
    BY <2>1, <2>2
<1>5. ASSUME NEW r \in Request, InsertHeader(r) \/ Answer(r) PROVE Sees(q)'
  BY <1>1, <1>2, <1>5 DEF InsertHeader, Answer, Goes, db
<1>6. ASSUME NEW r \in Request, UniqueConflict(r) PROVE Sees(q)'
  BY <1>1, <1>2, <1>6 DEF UniqueConflict, db
<1>7. ASSUME NEW r \in Request, LookAgain(r) PROVE Sees(q)'
  <2>1. fresh[r]
    BY <1>7 DEF LookAgain, PhaseInv
  <2>2. CASE Goes(r, "comparing")
    BY <1>1, <2>1, <2>2 DEF Goes, db
  <2>. QED
    BY <1>3, <1>7, <2>2 DEF LookAgain, Outcome
<1>8. ASSUME NEW r \in Request, Match(r) PROVE Sees(q)'
  <2>1. Goes(r, "matched") /\ IsActive(stored[KeyOf(r)])
        /\ SameDocument(call[r], stored[KeyOf(r)])
    BY <1>8, SeenIsThere DEF Match, Acceptable
  <2>2. CASE q = r
    BY <2>1, <2>2 DEF Goes, db, KeyOf
  <2>3. CASE q # r
    BY <1>1, <2>1, <2>3 DEF Goes, db
  <2>. QED
    BY <2>2, <2>3
<1>9. ASSUME NEW r \in Request, Reconciles(r), NEW p \in {"stored", "done"},
             NEW a, Leaves(r, p, a)
      PROVE  Sees(q)'
  BY <1>1, <1>2, <1>9 DEF Reconciles, Leaves
<1>10. ASSUME NEW r \in Request, Stores(r), NEW p \in {"stored", "done"},
              NEW a, Leaves(r, p, a)
       PROVE  Sees(q)'
  <2>1. stored[KeyOf(r)] = NoDoc /\ KeyOf(r) \in Key
    BY <1>10, Typed DEF Stores, PhaseInv
  <2>2. pc[q] = "matched" => stored'[KeyOf(q)] = stored[KeyOf(q)]
    BY <1>0, <1>10, <2>1 DEF Stores, PhaseInv
  <2>. QED
    BY <1>1, <1>2, <1>10, <2>2 DEF Stores, Leaves
<1>11. ASSUME NEW k \in Key, Environment(k) PROVE Sees(q)'
  <2>1. pc[q] = "matched" => stored'[KeyOf(q)] = stored[KeyOf(q)]
    BY <1>0, <1>11
       DEF Environment, ErpCreate, ErpEdit, Cancel, RowLocked, PhaseInv
  <2>. QED
    BY <1>1, <1>11, <2>1 DEF Environment, ErpCreate, ErpEdit, Cancel
<1>12. CASE UNCHANGED vars
  BY <1>1, <1>12 DEF vars
<1>13. ASSUME NEW r \in Request,
              \/ Reject(r) \/ Fail(r) \/ SerializationFailure(r)
              \/ Vanished(r) \/ Mismatch(r) \/ LegacyExists(r)
       PROVE  Sees(q)'
  BY <1>3, <1>13 DEF Reject, Fail, SerializationFailure, Vanished, Mismatch,
                     LegacyExists, Outcome
<1>14. ASSUME NEW r \in Request, Commit(r) \/ Reconcile(r) \/ CommitUnheard(r)
       PROVE  Sees(q)'
  BY <1>9, <1>10, <1>14 DEF Commit, Reconcile, CommitUnheard, Committing
<1>. QED
  BY <1>4, <1>5, <1>6, <1>7, <1>8, <1>11, <1>12, <1>13, <1>14
     DEF Next, Serve

LEMMA SeenInvariance == Spec => []SeenInv
<1>1. Init => SeenInv
  BY DEF Init, SeenInv
<1>. QED
  BY <1>1, SeenStep, Invariance, PTL DEF Spec

(* Of the documents that are there the two specifications say alike which  *)
(* were made with their profile.                                           *)
LEMMA SealedMeans ==
  ASSUME IInv, NEW k \in Key, stored[k] # NoDoc
  PROVE  Once!Sealed(k) <=> BornWithProfile(k)
<1>1. CASE stored[k].by = Erp
  BY <1>1 DEF Once!Sealed, BornWithProfile
<1>2. CASE stored[k].by # Erp
  <2>1. stored[k].by \in Request
    BY <1>2 DEF IInv, TypeOK, Document
  <2>2. pc[stored[k].by] # "idle"
    BY <1>2, <2>1 DEF IInv, MakerInv, PhaseInv
  <2>3. askBar[stored[k].by] = {call[stored[k].by]}
    BY <2>1, <2>2 DEF askBar
  <2>. QED
    BY <1>2, <2>3 DEF Once!Sealed, BornWithProfile
<1>. QED
  BY <1>1, <1>2

(* Of the payloads of a document a snapshot shows some.                    *)
LEMMA LatestIsRecorded ==
  ASSUME IInv, NEW r \in Request, RowRead(r), StoredHash(Reads(r)) # NoHash
  PROVE  StoredHash(Reads(r)) \in payloadsBar[KeyOf(r)]
<1>. DEFINE seen == Reads(r).marks
<1>1. /\ KeyOf(r) \in Key /\ seen \in Seq(Marker)
      /\ Prefix(seen, marks[KeyOf(r)])
  <2>1. CASE fresh[r]
    BY <2>1, Typed DEF Reads, Committed, Reading, Prefix, IInv
  <2>2. CASE ~fresh[r]
    BY <2>2, Typed
       DEF Reads, Reading, IInv, ViewInv, Snapshotted, RowRead
  <2>. QED
    BY <2>1, <2>2
<1>2. seen # <<>> /\ StoredHash(Reads(r)) = seen[Len(seen)].body
  BY DEF StoredHash, Last
<1>3. Len(seen) \in DOMAIN seen
  <2>1. Len(seen) \in Nat /\ DOMAIN seen = 1..Len(seen)
    BY <1>1
  <2>2. Len(seen) # 0
    BY <1>1, <1>2, EmptySeq
  <2>. QED
    BY <2>1, <2>2
<1>4. /\ Len(seen) \in DOMAIN marks[KeyOf(r)]
      /\ marks[KeyOf(r)][Len(seen)] = seen[Len(seen)]
  BY <1>1, <1>3 DEF Prefix
<1>. QED
  BY <1>1, <1>2, <1>4 DEF payloadsBar

(* The payloads of a document to which a marker is appended. *)
LEMMA AppendedBodies ==
  ASSUME NEW s \in Seq(Marker), NEW m \in Marker
  PROVE  {(s \o <<m>>)[i].body : i \in DOMAIN (s \o <<m>>)}
           = {s[i].body : i \in DOMAIN s} \cup {m.body}
<1>. DEFINE t == s \o <<m>>
            n == Len(s) + 1
<1>1. <<m>> \in Seq(Marker) /\ Len(<<m>>) = 1 /\ <<m>>[1] = m
  OBVIOUS
<1>2. /\ t \in Seq(Marker) /\ Len(t) = n /\ Len(s) \in Nat
      /\ \A i \in 1..n : t[i] = IF i <= Len(s) THEN s[i] ELSE <<m>>[i - Len(s)]
  BY <1>1, ConcatProperties
<1>3. DOMAIN s = 1..Len(s) /\ DOMAIN t = 1..n
  BY <1>2
<1>4. t[n] = m
  BY Appending
<1>5. \A i \in DOMAIN s : i \in DOMAIN t /\ t[i] = s[i]
  BY <1>2, <1>3
<1>6. \A i \in DOMAIN t : i \in DOMAIN s \/ i = n
  BY <1>2, <1>3
<1>7. n \in DOMAIN t
  BY <1>2, <1>3
<1>. HIDE DEF t, n
<1>. QED
  BY <1>4, <1>5, <1>6, <1>7 DEF t

(* What writing a profile adds to the payloads. *)
LEMMA PayloadsWritten ==
  ASSUME TypeOK, NEW r \in Request, NEW v \in Reading, WriteProfile(r, v),
         Prefix(v.marks, marks[KeyOf(r)])
  PROVE  payloadsBar' = [payloadsBar EXCEPT ![KeyOf(r)] = @ \cup {BodyOf(r)}]
<1>. DEFINE k == KeyOf(r)
            new == [by |-> r, body |-> BodyOf(r)]
            Bodies(s) == {s[i].body : i \in DOMAIN s}
<1>1. k \in Key /\ marks[k] \in Seq(Marker) /\ new \in Marker
  BY Typed DEF TypeOK, Marker
<1>2. /\ marks'[k] = marks[k] \o WithMarker(r, v)
      /\ \A j \in Key : j # k => marks'[j] = marks[j]
  BY <1>1 DEF WriteProfile, TypeOK
<1>3. Bodies(marks'[k]) = Bodies(marks[k]) \cup {BodyOf(r)}
  <2>1. CASE \E i \in DOMAIN v.marks : v.marks[i].body = BodyOf(r)
    <3>1. marks'[k] = marks[k]
      BY <1>1, <1>2, <2>1, Appending DEF WithMarker
    <3>2. BodyOf(r) \in Bodies(marks[k])
      BY <2>1 DEF Prefix
    <3>. QED
      BY <3>1, <3>2
  <2>2. CASE ~\E i \in DOMAIN v.marks : v.marks[i].body = BodyOf(r)
    <3>1. marks'[k] = marks[k] \o <<new>>
      BY <1>2, <2>2 DEF WithMarker
    <3>2. Bodies(marks[k] \o <<new>>) = Bodies(marks[k]) \cup {new.body}
      BY <1>1, AppendedBodies
    <3>. QED
      BY <3>1, <3>2
  <2>. QED
    BY <2>1, <2>2
<1>4. payloadsBar = [j \in Key |-> Bodies(marks[j])]
  BY DEF payloadsBar
<1>5. payloadsBar' = [j \in Key |-> Bodies(marks'[j])]
  BY DEF payloadsBar
<1>. HIDE DEF Bodies, k
<1>. QED
  BY <1>1, <1>2, <1>3, <1>4, <1>5 DEF k

(* What one step of a request looks like to its callers.                   *)
LEMMA OnceStep ==
  ASSUME IInv, SeenInv, [Next]_vars
  PROVE  [Once!Next]_<<askBar, stored, payloadsBar, outcome>>
<1>. DEFINE Same == UNCHANGED <<askBar, stored, payloadsBar, outcome>>
<1>0. TypeOK /\ PhaseInv /\ ProfileWrittenOnce
  BY DEF IInv
<1>1. \A r \in Request :
        /\ KeyOf(r) \in Key /\ call[r].key = KeyOf(r) /\ call[r].body = BodyOf(r)
        /\ pc[r] # "idle" => askBar[r] = {call[r]}
        /\ pc[r] \notin {"stored", "done"} => outcome[r] = "none"
  BY <1>0, Typed DEF KeyOf, BodyOf, askBar, PhaseInv
<1>2. call' = call /\ (\A q \in Request : pc[q] = "idle" <=> pc'[q] = "idle")
        => askBar' = askBar
  BY DEF askBar
<1>3. marks' = marks => payloadsBar' = payloadsBar
  BY DEF payloadsBar
<1>4. ASSUME NEW r \in Request, pc[r] \notin {"idle", "stored", "done"},
             NEW word, EndWith(r, word)
      PROVE  /\ \A words : word \in words => Once!Told(r, words)
             /\ UNCHANGED <<stored, payloadsBar>>
  <2>1. askBar' = askBar
    BY <1>0, <1>2, <1>4 DEF EndWith, Leaves, TypeOK
  <2>. QED
    BY <1>1, <1>3, <1>4, <2>1 DEF EndWith, Leaves, db, Once!Told
<1>5. ASSUME NEW r \in Request, pc[r] \notin {"idle", "stored", "done"},
             NEW word \in Once!Failure, EndWith(r, word)
      PROVE  Once!Next
  BY <1>4, <1>5 DEF Once!Next, Once!Fail
<1>6. ASSUME NEW r \in Request, NEW phase \in Phase \ {"idle"}, Goes(r, phase),
             pc[r] # "idle"
      PROVE  Same
  BY <1>0, <1>2, <1>3, <1>6 DEF Goes, db, TypeOK
<1>7. ASSUME NEW r \in Request, Receive(r) PROVE Once!Next
  <2>1. PICK c \in Calls : /\ call' = [call EXCEPT ![r] = c]
                           /\ \E p \in {"comparing", "absent"} :
                                pc' = [pc EXCEPT ![r] = p]
    BY <1>7 DEF Receive
  <2>2. askBar[r] = {} /\ askBar' = [askBar EXCEPT ![r] = {c}]
    BY <1>0, <1>7, <2>1 DEF Receive, askBar, TypeOK
  <2>. QED
    BY <1>3, <1>7, <2>2 DEF Receive, db, Once!Next, Once!Ask
<1>8. ASSUME NEW r \in Request,
             \/ Reject(r) \/ Fail(r) \/ SerializationFailure(r) \/ Vanished(r)
      PROVE  Once!Next
  BY <1>5, <1>8 DEF Reject, Fail, SerializationFailure, Vanished, Open,
                    Once!Failure
<1>9. ASSUME NEW r \in Request, InsertHeader(r) \/ Match(r) \/ Answer(r)
      PROVE  Same
  BY <1>6, <1>9 DEF InsertHeader, Match, RowRead, Answer, Phase
<1>10. ASSUME NEW r \in Request, UniqueConflict(r) PROVE Same
  BY <1>0, <1>2, <1>3, <1>10 DEF UniqueConflict, db, TypeOK
<1>11. ASSUME NEW r \in Request, LookAgain(r) PROVE Same \/ Once!Next
  <2>1. pc[r] = "conflict" /\ stored[KeyOf(r)] # NoDoc
    BY <1>0, <1>11 DEF LookAgain, PhaseInv
  <2>2. CASE IsActive(stored[KeyOf(r)])
    BY <1>6, <1>11, <2>1, <2>2 DEF LookAgain, Phase
  <2>3. CASE ~IsActive(stored[KeyOf(r)])
    <3>1. Once!Told(r, {"duplicate_doc_no"}) /\ UNCHANGED <<stored, payloadsBar>>
      BY <1>4, <1>11, <2>1, <2>3 DEF LookAgain
    <3>2. Once!Taken(r, call[r])
      BY <1>1, <2>1, <2>3, <3>1 DEF Once!Taken, Once!Active, IsActive
    <3>. QED
      BY <1>1, <2>1, <3>2 DEF Once!Next
  <2>. QED
    BY <2>2, <2>3
<1>12. ASSUME NEW r \in Request, Mismatch(r) PROVE Once!Next
  <2>1. /\ RowRead(r) /\ pc[r] = "comparing"
        /\ Once!Told(r, {"payload_mismatch"}) /\ UNCHANGED <<stored, payloadsBar>>
    BY <1>4, <1>12 DEF Mismatch, RowRead
  <2>2. IsActive(stored[KeyOf(r)]) /\ Reads(r).row = stored[KeyOf(r)]
    BY <2>1, SeenIsThere
  <2>3. ASSUME call[r].profile, StoredHash(Reads(r)) \notin {NoHash, call[r].body}
        PROVE  Once!OtherPayload(call[r])
    BY <1>1, <2>1, <2>3, LatestIsRecorded DEF Once!OtherPayload
  <2>4. ~SameDocument(call[r], stored[KeyOf(r)]) \/ Once!OtherPayload(call[r])
    BY <1>12, <2>2, <2>3 DEF Mismatch, Acceptable
  <2>5. Once!Refuse(r, call[r])
    BY <1>1, <2>1, <2>2, <2>4
       DEF Once!Refuse, Once!Active, Once!Agrees, SameDocument, IsActive
  <2>. QED
    BY <1>1, <2>1, <2>5 DEF Once!Next
<1>13. ASSUME NEW r \in Request, LegacyExists(r) PROVE Once!Next
  <2>1. /\ RowRead(r) /\ pc[r] = "comparing" /\ ~call[r].profile
        /\ Once!Told(r, {"already_exists", "internal_error"})
        /\ UNCHANGED <<stored, payloadsBar>>
    BY <1>4, <1>13 DEF LegacyExists, RowRead
  <2>2. IsActive(stored[KeyOf(r)]) /\ SameDocument(call[r], stored[KeyOf(r)])
    BY <1>13, <2>1, SeenIsThere DEF LegacyExists, Acceptable
  <2>3. payloadsBar' = [payloadsBar EXCEPT ![call[r].key] = payloadsBar[call[r].key]]
    BY <1>1, <2>1 DEF payloadsBar
  <2>4. Once!Confirm(r, call[r])
    BY <1>1, <2>1, <2>2, <2>3
       DEF Once!Confirm, Once!Active, Once!Agrees, SameDocument, IsActive
  <2>. QED
    BY <1>1, <2>1, <2>4 DEF Once!Next
<1>14. ASSUME NEW r \in Request, pc[r] \in {"matched", "inserted"},
              NEW phase \in {"stored", "done"}, NEW words, NEW word \in words,
              Leaves(r, phase, word)
       PROVE  Once!Told(r, words)
  BY <1>0, <1>1, <1>2, <1>14 DEF Leaves, Once!Told, TypeOK
<1>15. ASSUME NEW r \in Request, Reconciles(r), NEW phase \in {"stored", "done"},
              NEW word \in {"already_exists", "internal_error"},
              Leaves(r, phase, word)
       PROVE  Once!Next
  <2>1. /\ pc[r] = "matched" /\ WriteProfile(r, Reads(r)) /\ stored' = stored
        /\ Once!Told(r, {"already_exists", "internal_error"})
    BY <1>14, <1>15 DEF Reconciles
  <2>2. /\ call[r].profile /\ StoredHash(Reads(r)) \in {NoHash, BodyOf(r)}
        /\ IsActive(stored[KeyOf(r)]) /\ SameDocument(call[r], stored[KeyOf(r)])
    BY <1>0, <2>1 DEF PhaseInv, SeenInv
  <2>3. payloadsBar' = [payloadsBar EXCEPT ![KeyOf(r)] = @ \cup {BodyOf(r)}]
    BY <1>0, <2>1, MatchedReads, PayloadsWritten
  <2>4. ASSUME Once!Sealed(KeyOf(r))
        PROVE  payloadsBar[KeyOf(r)] = {BodyOf(r)}
    <3>1. BornWithProfile(KeyOf(r))
      BY <1>1, <2>2, <2>4, SealedMeans DEF IsActive
    <3>. DEFINE maker == stored[KeyOf(r)].by
                m == [by |-> maker, body |-> BodyOf(maker)]
    <3>2. Reads(r).marks = <<m>> /\ marks[KeyOf(r)] = <<m>>
      BY <1>0, <1>1, <2>1, <3>1, MatchedReads DEF ProfileWrittenOnce
    <3>3. StoredHash(Reads(r)) = BodyOf(maker)
      BY <3>2 DEF StoredHash, Last
    <3>4. BodyOf(maker) # NoHash
      BY <1>0, <2>2, <3>1, Typed, NullAssumption
         DEF TypeOK, Document, BornWithProfile
    <3>5. payloadsBar[KeyOf(r)] = {BodyOf(maker)}
      BY <1>1, <3>2 DEF payloadsBar
    <3>. QED
      BY <2>2, <3>3, <3>4, <3>5
  <2>5. Once!Confirm(r, call[r])
    BY <1>1, <2>1, <2>2, <2>3, <2>4
       DEF Once!Confirm, Once!Active, Once!Agrees, SameDocument, IsActive
  <2>. QED
    BY <1>1, <2>1, <2>5 DEF Once!Next
<1>16. ASSUME NEW r \in Request, Stores(r), NEW phase \in {"stored", "done"},
              NEW word \in {"created", "internal_error"},
              Leaves(r, phase, word)
       PROVE  Once!Next
  <2>1. /\ pc[r] = "inserted" /\ stored[KeyOf(r)] = NoDoc
        /\ Once!Told(r, {"created", "internal_error"})
        /\ stored' = [stored EXCEPT ![KeyOf(r)] =
                        [core |-> BodyOf(r).core, head |-> BodyOf(r).head,
                         active |-> TRUE, by |-> r]]
    BY <1>0, <1>14, <1>16 DEF Stores, PhaseInv
  <2>2. payloadsBar[KeyOf(r)] = {}
    <3>1. marks[KeyOf(r)] = <<>>
      BY <1>0, <1>1, <2>1 DEF ProfileWrittenOnce
    <3>2. \A i \in DOMAIN marks[KeyOf(r)] : FALSE
      BY <3>1
    <3>. QED
      BY <1>1, <3>2 DEF payloadsBar
  <2>3. payloadsBar' = [payloadsBar EXCEPT ![KeyOf(r)] =
                          IF call[r].profile THEN {BodyOf(r)} ELSE {}]
    <3>1. CASE call[r].profile
      <4>1. ~fresh[r] /\ Prefix(view[r].marks, marks[KeyOf(r)])
        BY <1>0, <2>1 DEF PhaseInv, IInv, ViewInv, Snapshotted
      <4>2. /\ Reads(r) \in Reading /\ WriteProfile(r, Reads(r))
            /\ Prefix(Reads(r).marks, marks[KeyOf(r)])
        BY <1>0, <1>16, <3>1, <4>1, Typed DEF Reads, Stores
      <4>3. payloadsBar' = [payloadsBar EXCEPT ![KeyOf(r)] = @ \cup {BodyOf(r)}]
        BY <1>0, <4>2, PayloadsWritten
      <4>. QED
        BY <2>2, <3>1, <4>3
    <3>2. CASE ~call[r].profile
      BY <1>3, <1>16, <2>2, <3>2 DEF Stores, payloadsBar
    <3>. QED
      BY <3>1, <3>2
  <2>4. Once!Create(r, call[r])
    BY <1>1, <2>1, <2>3 DEF Once!Create
  <2>. QED
    BY <1>1, <2>1, <2>4 DEF Once!Next
<1>17. ASSUME NEW k \in Key, Environment(k) PROVE Once!Elsewhere(k)
  <2>1. askBar' = askBar /\ payloadsBar' = payloadsBar
    BY <1>2, <1>3, <1>17 DEF Environment, ErpCreate, ErpEdit, Cancel
  <2>. QED
    BY <1>17, <2>1 DEF Environment, ErpCreate, ErpEdit, Cancel, IsActive,
                       Once!Elsewhere, Once!Active
<1>18. CASE UNCHANGED vars
  BY <1>2, <1>3, <1>18 DEF vars
<1>19. ASSUME NEW r \in Request, Commit(r) \/ Reconcile(r) \/ CommitUnheard(r)
       PROVE  Once!Next
  BY <1>15, <1>16, <1>19 DEF Commit, Reconcile, CommitUnheard, Committing
<1>. QED
  BY <1>7, <1>8, <1>9, <1>10, <1>11, <1>12, <1>13, <1>17, <1>18, <1>19
     DEF Next, Serve, Once!Next

(* The transactions of write.go implement the one-step promise: calls for  *)
(* one number are answered as if they came one after the other, each in    *)
(* the step that commits or rolls back what it did; only "internal_error"  *)
(* leaves it open which of the two it was.                                 *)
THEOREM ImplementsWriteOnce == Spec => WrittenOnce
<1>1. Init => Once!Init
  BY DEF Init, Once!Init, askBar, payloadsBar
<1>. QED
  BY <1>1, OnceStep, Invariance, SeenInvariance, PTL
     DEF Spec, WrittenOnce, Once!Spec

-----------------------------------------------------------------------------
(* ProfileWrite.                                                           *)

(* A request that the main database bears out: profile or not, its         *)
(* document is stored; a legacy retry is not counted, it logs nothing.     *)
Backed(r) ==
  outcome[r] = "created" \/ (outcome[r] = "already_exists" /\ call[r].profile)

LogTypes ==
  /\ stage \in [Request -> L!Stage]
  /\ job \in [Request -> Calls]
  /\ status \in [Request -> L!Status]
  /\ logs \in [Key -> Seq(L!LogRow)]

LinkInv ==
  \A r \in Request :
    /\ stage[r] # "idle" => pc[r] \in {"stored", "done"} /\ job[r] = call[r]
    /\ pc[r] = "stored" => Backed(r)
    /\ stage[r] # "idle" => Backed(r)
    /\ pc[r] = "done" /\ Backed(r) => stage[r] = "done"

HasContent(k) == \E i \in DOMAIN logs[k] : logs[k][i].data # NoBody

Good == {"created", "skipped", "updated"}

(* What the status of r says of the rows of its document. *)
StatusOf(r) ==
  /\ stage[r] \in {"idle", "waiting", "locked"} => status[r] = "none"
  /\ stage[r] = "written" => status[r] \in Good
  /\ stage[r] = "written" /\ status[r] = "updated" =>
       job[r].profile /\ logs[job[r].key] # <<>>
  /\ stage[r] = "written" /\ status[r] = "skipped" /\ job[r].profile =>
       HasContent(job[r].key)
  /\ stage[r] \in {"decided", "done"} /\ status[r] \in Good /\ job[r].profile =>
       HasContent(job[r].key)

StatusInv == \A r \in Request : StatusOf(r)

TellsOf(row, k) ==
  /\ row.by \in Request /\ Backed(row.by) /\ KeyOf(row.by) = k
  /\ row.data # NoBody =>
       \E q \in Request :
         Backed(q) /\ call[q].profile /\ KeyOf(q) = k /\ row.data = BodyOf(q)

RowInv == \A k \in Key : \A i \in DOMAIN logs[k] : TellsOf(logs[k][i], k)

ProfileInv == IInv /\ LogTypes /\ LinkInv /\ StatusInv /\ RowInv

-----------------------------------------------------------------------------
(* What it means to be backed. *)
LEMMA BackedMeans ==
  ASSUME IInv, NEW r \in Request, Backed(r)
  PROVE  /\ stored[KeyOf(r)] # NoDoc /\ pc[r] \in {"stored", "done"}
         /\ call[r].profile =>
              /\ rels[KeyOf(r)] # {}
              /\ \E i \in DOMAIN marks[KeyOf(r)] : marks[KeyOf(r)][i].body = BodyOf(r)
<1>1. KeyOf(r) \in Key
  BY Typed DEF IInv
<1>2. outcome[r] \in {"created", "already_exists"}
  BY DEF Backed
<1>3. pc[r] \in {"stored", "done"}
  BY <1>2 DEF IInv, PhaseInv
<1>4. call[r].profile =>
        /\ rels[KeyOf(r)] # {}
        /\ \E i \in DOMAIN marks[KeyOf(r)] : marks[KeyOf(r)][i].body = BodyOf(r)
  BY <1>2 DEF IInv, OutcomesAreTrue
<1>5. stored[KeyOf(r)] # NoDoc
  BY <1>1, <1>4 DEF Backed, IInv, OutcomesAreTrue, ProfileWrittenOnce
<1> QED
  BY <1>3, <1>4, <1>5

(* Once stored, a request keeps its call and its outcome. *)
LEMMA BackedKept ==
  ASSUME IInv, [Next]_vars, NEW q \in Request, pc[q] \in {"stored", "done"}
  PROVE  /\ call'[q] = call[q] /\ outcome'[q] = outcome[q]
         /\ pc'[q] \in {"stored", "done"}
         /\ Backed(q)' = Backed(q) /\ KeyOf(q)' = KeyOf(q) /\ BodyOf(q)' = BodyOf(q)
<1>0. TypeOK
  BY DEF IInv
<1>1. call'[q] = call[q] /\ outcome'[q] = outcome[q] /\ pc'[q] \in {"stored", "done"}
  <2>1. ASSUME NEW r \in Request, Receive(r)
        PROVE  call'[q] = call[q] /\ outcome'[q] = outcome[q] /\ pc'[q] = pc[q]
    BY <1>0, <2>1 DEF Receive, TypeOK
  <2>2. ASSUME NEW r \in Request,
               Serve(r) \/ Reject(r) \/ Fail(r) \/ Answer(r) \/ CommitUnheard(r)
        PROVE  call'[q] = call[q] /\ outcome'[q] = outcome[q] /\ pc'[q] \in {"stored", "done"}
    BY <1>0, <2>2 DEF Serve, Reject, Fail, Answer, InsertHeader, UniqueConflict, LookAgain,
       SerializationFailure, Vanished, Mismatch, LegacyExists, Match, Reconcile, Commit,
       CommitUnheard, Stores, Reconciles, Leaves, EndWith, Goes, Committing, RowRead, Open,
       TypeOK
  <2>3. ASSUME NEW k \in Key, Environment(k)
        PROVE  call'[q] = call[q] /\ outcome'[q] = outcome[q] /\ pc'[q] = pc[q]
    BY <2>3 DEF Environment, ErpCreate, ErpEdit, Cancel
  <2>4. CASE UNCHANGED vars
    BY <2>4 DEF vars
  <2> QED
    BY <2>1, <2>2, <2>3, <2>4 DEF Next
<1> QED
  BY <1>1 DEF Backed, KeyOf, BodyOf

(* Who tells of something goes on telling it. *)
LEMMA TellsKept ==
  ASSUME IInv, [Next]_vars, NEW row, NEW k, TellsOf(row, k)
  PROVE  TellsOf(row, k)'
<1>1. \A q \in Request : Backed(q) =>
        Backed(q)' /\ KeyOf(q)' = KeyOf(q) /\ BodyOf(q)' = BodyOf(q) /\ call'[q] = call[q]
  BY BackedMeans, BackedKept
<1> QED
  BY <1>1 DEF TellsOf

LEMMA RowsKept ==
  ASSUME IInv, [Next]_vars, RowInv, UNCHANGED logs
  PROVE  RowInv'
BY TellsKept DEF RowInv

(* What becomes of r when it works on its document: only a commit, or a    *)
(* legacy retry, ends well.                                                *)
LEMMA WritingMeans ==
  ASSUME IInv, NEW r \in Request, Receive(r) \/ Reject(r) \/ Serve(r) \/ Fail(r) \/ CommitUnheard(r)
  PROVE  /\ pc[r] \notin {"stored", "done"}
         /\ pc'[r] = "stored" => Backed(r)'
         /\ pc'[r] = "done" => ~Backed(r)'
         /\ \A q \in Request : q # r =>
              pc'[q] = pc[q] /\ call'[q] = call[q] /\ outcome'[q] = outcome[q]
<1>0. TypeOK /\ PhaseInv
  BY DEF IInv
<1>1. pc[r] \notin {"stored", "done"} /\ outcome[r] = "none"
  BY <1>0 DEF PhaseInv, Receive, Reject, Serve, Fail, InsertHeader, UniqueConflict, LookAgain,
     SerializationFailure, Vanished, Mismatch, LegacyExists, Match, Reconcile, Commit,
     CommitUnheard, Stores, Reconciles, RowRead, Open
<1>2. CASE Receive(r)
  BY <1>0, <1>2 DEF Receive, TypeOK
<1>3. CASE InsertHeader(r) \/ UniqueConflict(r) \/ Match(r)
  <2>1. /\ pc' = [pc EXCEPT ![r] = pc'[r]] /\ pc'[r] \in {"inserted", "conflict", "matched"}
        /\ UNCHANGED <<call, outcome>>
    <3>1. CASE InsertHeader(r)
      BY <1>0, <3>1 DEF InsertHeader, Goes, TypeOK
    <3>2. CASE UniqueConflict(r)
      BY <1>0, <3>2 DEF UniqueConflict, TypeOK
    <3>3. CASE Match(r)
      BY <1>0, <3>3 DEF Match, Goes, TypeOK
    <3> QED
      BY <1>3, <3>1, <3>2, <3>3
  <2> QED
    BY <1>0, <1>1, <2>1 DEF TypeOK
<1>4. CASE LookAgain(r) \/ SerializationFailure(r) \/ Vanished(r) \/ Mismatch(r)
           \/ Reject(r) \/ Fail(r)
  BY <1>0, <1>1, <1>4 DEF LookAgain, SerializationFailure, Vanished, Mismatch, Reject, Fail,
     EndWith, Leaves, Goes, TypeOK, Backed
<1>5. CASE LegacyExists(r)
  BY <1>0, <1>1, <1>5 DEF LegacyExists, EndWith, Leaves, TypeOK, Backed
<1>6. CASE Reconcile(r)
  BY <1>0, <1>1, <1>6 DEF Reconcile, Reconciles, Committing, Leaves, TypeOK, Backed,
                          PhaseInv
<1>7. CASE Commit(r)
  BY <1>0, <1>1, <1>7 DEF Commit, Stores, Committing, Leaves, TypeOK, Backed
<1>8. CASE CommitUnheard(r)
  BY <1>0, <1>1, <1>8 DEF CommitUnheard, Leaves, TypeOK, Backed
<1> QED
  BY <1>1, <1>2, <1>3, <1>4, <1>5, <1>6, <1>7, <1>8 DEF Serve

-----------------------------------------------------------------------------
LEMMA ProfileInitInv == ProfileInit => ProfileInv
<1> SUFFICES ASSUME ProfileInit PROVE ProfileInv
  OBVIOUS
<1>1. (CHOOSE j \in Calls : TRUE) \in Calls
  BY CallsAssumption
<1>2. LogTypes
  BY <1>1 DEF ProfileInit, L!Init, LogTypes, L!Stage, L!Status
<1>3. IInv
  BY InitInv DEF ProfileInit
<1>4. \A r \in Request : pc[r] = "idle" /\ stage[r] = "idle" /\ status[r] = "none"
  BY DEF ProfileInit, Init, L!Init
<1>5. LinkInv /\ StatusInv
  BY <1>4 DEF LinkInv, StatusInv, StatusOf
<1>6. RowInv
  BY DEF ProfileInit, L!Init, RowInv
<1> QED
  BY <1>2, <1>3, <1>5, <1>6 DEF ProfileInv

(* The main database moves, by a step of r or of the ERP, or r replies;    *)
(* the log does not.                                                       *)
LEMMA WritingInv ==
  ASSUME ProfileInv, UNCHANGED logVars,
         \/ \E r \in Request : Receive(r) \/ Reject(r) \/ Serve(r) \/ Fail(r) \/ CommitUnheard(r)
         \/ \E r \in Request : stage[r] = "done" /\ Answer(r)
         \/ \E k \in Key : Environment(k)
  PROVE  ProfileInv'
<1>0. IInv /\ LogTypes /\ LinkInv /\ StatusInv /\ RowInv
  BY DEF ProfileInv
<1>1. [Next]_vars
  BY DEF Next
<1>2. IInv'
  BY <1>0, <1>1, NextInv
<1>3. UNCHANGED <<stage, job, status, logs>>
  BY DEF logVars
<1>4. LogTypes' /\ StatusInv'
  BY <1>0, <1>3 DEF LogTypes, StatusInv, StatusOf, HasContent
<1>5. RowInv'
  BY <1>0, <1>1, <1>3, RowsKept
<1>6. LinkInv'
  <2> SUFFICES ASSUME NEW q \in Request
               PROVE  /\ stage[q] # "idle" => pc'[q] \in {"stored", "done"} /\ job[q] = call'[q]
                      /\ pc'[q] = "stored" => Backed(q)'
                      /\ stage[q] # "idle" => Backed(q)'
                      /\ pc'[q] = "done" /\ Backed(q)' => stage[q] = "done"
    BY <1>3 DEF LinkInv
  <2>1. CASE pc[q] \in {"stored", "done"}
    <3>1. /\ call'[q] = call[q] /\ pc'[q] \in {"stored", "done"} /\ Backed(q)' = Backed(q)
      BY <1>0, <1>1, <2>1, BackedKept
    <3>2. pc'[q] = "done" => pc[q] = "done" \/ stage[q] = "done"
      <4>1. ASSUME NEW r \in Request, Receive(r) \/ Reject(r) \/ Serve(r) \/ Fail(r) \/ CommitUnheard(r)
            PROVE  pc'[q] = pc[q]
        BY <1>0, <2>1, <4>1, WritingMeans
      <4>2. ASSUME NEW r \in Request, stage[r] = "done", Answer(r)
            PROVE  pc'[q] = pc[q] \/ stage[q] = "done"
        BY <1>0, <4>2 DEF Answer, Goes, IInv, TypeOK
      <4>3. ASSUME NEW k \in Key, Environment(k) PROVE pc'[q] = pc[q]
        BY <4>3 DEF Environment, ErpCreate, ErpEdit, Cancel
      <4> QED
        BY <4>1, <4>2, <4>3
    <3>3. /\ stage[q] # "idle" => job[q] = call[q]
          /\ pc[q] = "stored" => Backed(q)
          /\ stage[q] # "idle" => Backed(q)
          /\ pc[q] = "done" /\ Backed(q) => stage[q] = "done"
      BY <1>0 DEF LinkInv
    <3>4. pc'[q] = "stored" => pc[q] = "stored"
      <4>1. ASSUME NEW r \in Request, Receive(r) \/ Reject(r) \/ Serve(r) \/ Fail(r) \/ CommitUnheard(r)
            PROVE  pc'[q] = pc[q]
        BY <1>0, <2>1, <4>1, WritingMeans
      <4>2. ASSUME NEW r \in Request, stage[r] = "done", Answer(r)
            PROVE  pc'[q] = pc[q] \/ pc'[q] = "done"
        BY <1>0, <4>2 DEF Answer, Goes, IInv, TypeOK
      <4>3. ASSUME NEW k \in Key, Environment(k) PROVE pc'[q] = pc[q]
        BY <4>3 DEF Environment, ErpCreate, ErpEdit, Cancel
      <4> QED
        BY <4>1, <4>2, <4>3
    <3>5. stage[q] # "idle" => Backed(q)
      BY <1>0 DEF LinkInv
    <3>6. pc[q] = "stored" => Backed(q)
      BY <1>0 DEF LinkInv
    <3> QED
      BY <3>1, <3>2, <3>3, <3>4, <3>5, <3>6
  <2>2. CASE pc[q] \notin {"stored", "done"}
    <3>1. stage[q] = "idle"
      BY <1>0, <2>2 DEF LinkInv
    <3>2. \A r \in Request : Answer(r) => pc'[q] = pc[q]
      BY <1>0, <2>2 DEF Answer, Goes, IInv, TypeOK
    <3>3. \A k \in Key : Environment(k) => pc'[q] = pc[q]
      BY DEF Environment, ErpCreate, ErpEdit, Cancel
    <3>4. \A r \in Request : Receive(r) \/ Reject(r) \/ Serve(r) \/ Fail(r) \/ CommitUnheard(r) =>
            /\ pc'[q] = "stored" => Backed(q)'
            /\ pc'[q] = "done" => ~Backed(q)'
      <4> SUFFICES ASSUME NEW r \in Request, Receive(r) \/ Reject(r) \/ Serve(r) \/ Fail(r) \/ CommitUnheard(r)
                   PROVE  /\ pc'[q] = "stored" => Backed(q)'
                          /\ pc'[q] = "done" => ~Backed(q)'
        OBVIOUS
      <4> QED
        BY <1>0, <2>2, WritingMeans
    <3> QED
      BY <2>2, <3>1, <3>2, <3>3, <3>4
  <2> QED
    BY <2>1, <2>2
<1> QED
  BY <1>2, <1>4, <1>5, <1>6 DEF ProfileInv

(* Without a step of the main database, what is backed, and told, stays.   *)
LEMMA MainStill ==
  ASSUME UNCHANGED vars
  PROVE  /\ \A r \in Request : /\ pc'[r] = pc[r] /\ call'[r] = call[r]
                               /\ Backed(r)' = Backed(r)
         /\ \A row, k : TellsOf(row, k)' = TellsOf(row, k)
<1>1. pc' = pc /\ call' = call /\ outcome' = outcome
  BY DEF vars
<1> QED
  BY <1>1 DEF Backed, TellsOf, KeyOf, BodyOf

(* A request starts to log: its document is committed. *)
LEMMA LogBeginInv ==
  ASSUME ProfileInv, NEW r \in Request, LogBegin(r)
  PROVE  ProfileInv'
<1>0. IInv /\ LogTypes /\ LinkInv /\ StatusInv /\ RowInv /\ TypeOK
  BY DEF ProfileInv, IInv
<1>1. /\ pc[r] = "stored" /\ stage[r] = "idle" /\ UNCHANGED <<vars, logs>>
      /\ job' = [job EXCEPT ![r] = call[r]]
      /\ \/ /\ stage' = [stage EXCEPT ![r] = "done"]
            /\ status' = [status EXCEPT ![r] = "warning"]
         \/ /\ stage' = [stage EXCEPT ![r] = "waiting"]
            /\ status' = status
  BY DEF LogBegin, L!Begin
<1>2. IInv'
  BY <1>0, <1>1, NextInv
<1>3. LogTypes'
  BY <1>0, <1>1 DEF LogTypes, L!Stage, L!Status, TypeOK
<1>4. LinkInv'
  <2>1. Backed(r)
    BY <1>0, <1>1 DEF LinkInv
  <2> SUFFICES ASSUME NEW q \in Request
               PROVE  /\ stage'[q] # "idle" => pc'[q] \in {"stored", "done"} /\ job'[q] = call'[q]
                      /\ pc'[q] = "stored" => Backed(q)'
                      /\ stage'[q] # "idle" => Backed(q)'
                      /\ pc'[q] = "done" /\ Backed(q)' => stage'[q] = "done"
    BY DEF LinkInv
  <2>2. pc'[q] = pc[q] /\ call'[q] = call[q] /\ Backed(q)' = Backed(q)
    BY <1>1, MainStill
  <2>3. CASE q = r
    BY <1>0, <1>1, <2>1, <2>2, <2>3 DEF LogTypes
  <2>4. CASE q # r
    <3>1. stage'[q] = stage[q] /\ job'[q] = job[q]
      BY <1>0, <1>1, <2>4 DEF LogTypes
    <3> QED
      BY <1>0, <2>2, <3>1 DEF LinkInv
  <2> QED
    BY <2>3, <2>4
<1>5. StatusInv'
  <2> SUFFICES ASSUME NEW q \in Request PROVE StatusOf(q)'
    BY DEF StatusInv
  <2>1. CASE q = r
    BY <1>0, <1>1, <2>1 DEF LogTypes, StatusInv, StatusOf, Good
  <2>2. CASE q # r
    <3>1. stage'[q] = stage[q] /\ job'[q] = job[q] /\ status'[q] = status[q]
      BY <1>0, <1>1, <2>2 DEF LogTypes
    <3> QED
      BY <1>0, <1>1, <3>1 DEF StatusInv, StatusOf, HasContent
  <2> QED
    BY <2>1, <2>2
<1>6. RowInv'
  BY <1>0, <1>1, MainStill DEF RowInv
<1> QED
  BY <1>2, <1>3, <1>4, <1>5, <1>6 DEF ProfileInv

-----------------------------------------------------------------------------
(* What a commit leaves in the rows of its document, whoever wrote there   *)
(* since the check: content stays, and every row tells of something.       *)
LEMMA LoggedRows ==
  ASSUME ProfileInv, NEW r \in Request, stage[r] = "written"
  PROVE  LET k == job[r].key
             rows == logs[k]
             new == L!After(r, rows)
         IN  /\ new \in Seq(L!LogRow)
             /\ \A i \in DOMAIN rows :
                  i \in DOMAIN new /\ (rows[i].data # NoBody => new[i].data # NoBody)
             /\ \A i \in DOMAIN new : TellsOf(new[i], k)
             /\ rows # <<>> => new # <<>>
             /\ job[r].profile => \E i \in DOMAIN new : new[i].data # NoBody
<1> DEFINE k == job[r].key
           rows == logs[k]
           new == L!After(r, rows)
           mine == [by |-> r, data |-> L!DataOf(job[r])]
<1>0. LogTypes /\ LinkInv /\ StatusInv /\ RowInv
  BY DEF ProfileInv
<1>1. job[r] = call[r] /\ Backed(r) /\ job[r] \in Calls /\ job[r] \in Call
  BY <1>0, CallsAssumption DEF LinkInv, LogTypes
<1>2. k \in Key /\ rows \in Seq(L!LogRow) /\ job[r].body \in Body /\ job[r].profile \in BOOLEAN
  BY <1>0, <1>1 DEF LogTypes, Call
<1>3. \A i \in DOMAIN rows : TellsOf(rows[i], k)
  BY <1>0, <1>2 DEF RowInv
<1>4. KeyOf(r) = k /\ BodyOf(r) = job[r].body /\ call[r].profile = job[r].profile
  BY <1>1 DEF KeyOf, BodyOf
<1>5. CASE status[r] = "created"
  <2>1. new = Append(rows, mine)
    BY <1>5 DEF L!After
  <2>2. mine \in L!LogRow /\ mine.by = r
        /\ mine.data = (IF job[r].profile THEN job[r].body ELSE NoBody)
    BY <1>2 DEF L!LogRow, L!DataOf
  <2> HIDE DEF mine
  <2>3. TellsOf(mine, k)
    BY <1>1, <1>4, <2>2 DEF TellsOf
  <2>4. /\ new \in Seq(L!LogRow) /\ Len(new) = Len(rows) + 1
        /\ \A i \in 1..Len(rows) : new[i] = rows[i]
        /\ new[Len(rows) + 1] = mine
    BY <1>2, <2>1, <2>2
  <2> HIDE DEF new, rows
  <2>5. DOMAIN new = 1..(Len(rows) + 1) /\ DOMAIN rows = 1..Len(rows) /\ Len(rows) \in Nat
    BY <1>2, <2>4
  <2>6. job[r].profile => new[Len(rows) + 1].data # NoBody
    BY <1>2, <2>2, <2>4, LogAssumption
  <2>7. \A i \in DOMAIN new : TellsOf(new[i], k)
    <3> SUFFICES ASSUME NEW i \in DOMAIN new PROVE TellsOf(new[i], k)
      OBVIOUS
    <3>1. i \in 1..Len(rows) \/ i = Len(rows) + 1
      BY <2>5
    <3> QED
      BY <1>3, <2>3, <2>4, <2>5, <3>1
  <2>8. \A i \in DOMAIN rows :
          i \in DOMAIN new /\ (rows[i].data # NoBody => new[i].data # NoBody)
    BY <2>4, <2>5
  <2>9. new # <<>> /\ Len(rows) + 1 \in DOMAIN new
    BY <2>5
  <2> QED
    BY <2>4, <2>6, <2>7, <2>8, <2>9 DEF new, rows
<1>6. CASE status[r] = "updated"
  <2>1. job[r].profile /\ rows # <<>>
    BY <1>0, <1>6 DEF StatusInv, StatusOf
  <2>2. new = [rows EXCEPT ![1].data = job[r].body]
    BY <1>6 DEF L!After
  <2>3. 1 \in DOMAIN rows
    BY <1>2, <2>1
  <2>4. DOMAIN new = DOMAIN rows /\ Len(new) = Len(rows) /\ new # <<>>
    BY <1>2, <2>1, <2>2, <2>3
  <2>5. \A i \in DOMAIN rows : rows[i] \in L!LogRow
    BY <1>2
  <2>6. /\ new[1] = [rows[1] EXCEPT !.data = job[r].body]
        /\ \A i \in DOMAIN rows : i # 1 => new[i] = rows[i]
    BY <2>2, <2>3
  <2>7. new[1].data = job[r].body /\ new[1].by = rows[1].by /\ new[1] \in L!LogRow
    BY <1>2, <2>3, <2>5, <2>6 DEF L!LogRow
  <2>8. new[1].data # NoBody
    BY <1>2, <2>7, LogAssumption
  <2>9. new \in Seq(L!LogRow)
    <3>1. \A i \in DOMAIN rows : new[i] \in L!LogRow
      BY <2>5, <2>6, <2>7
    <3>2. new = [i \in DOMAIN rows |-> new[i]]
      BY <2>2
    <3>3. DOMAIN rows = 1..Len(rows) /\ Len(rows) \in Nat
      BY <1>2
    <3> HIDE DEF new, rows
    <3>4. new \in [1..Len(rows) -> L!LogRow]
      BY <3>1, <3>2, <3>3
    <3> QED
      BY <3>3, <3>4
  <2>10. TellsOf(new[1], k)
    BY <1>1, <1>3, <1>4, <2>1, <2>3, <2>7 DEF TellsOf
  <2> HIDE DEF new, rows
  <2>11. \A i \in DOMAIN new : TellsOf(new[i], k)
    BY <1>3, <2>4, <2>6, <2>10
  <2>12. \A i \in DOMAIN rows :
          i \in DOMAIN new /\ (rows[i].data # NoBody => new[i].data # NoBody)
    BY <2>4, <2>6, <2>8
  <2> QED
    BY <2>3, <2>4, <2>8, <2>9, <2>11, <2>12 DEF new, rows
<1>7. CASE status[r] = "skipped"
  <2>1. new = rows
    BY <1>7 DEF L!After
  <2>2. job[r].profile => \E i \in DOMAIN rows : rows[i].data # NoBody
    BY <1>0, <1>7 DEF StatusInv, StatusOf, HasContent
  <2> QED
    BY <1>2, <1>3, <2>1, <2>2
<1> QED
  BY <1>0, <1>5, <1>6, <1>7 DEF StatusInv, StatusOf, Good

(* What a step of the log does: r goes on, and at most the rows of its     *)
(* document change, by its commit.                                         *)
LEMMA LoggingMeans ==
  ASSUME ProfileInv, NEW r \in Request, Logging(r)
  PROVE  /\ UNCHANGED <<vars, job>>
         /\ stage[r] \notin {"idle", "done"}
         /\ \E g \in {"locked", "written", "decided", "done"}, t \in L!Status :
              stage' = [stage EXCEPT ![r] = g] /\ status' = [status EXCEPT ![r] = t]
         /\ \/ logs' = logs
            \/ /\ stage[r] = "written"
               /\ logs' = [logs EXCEPT ![job[r].key] = L!After(r, logs[job[r].key])]
         /\ StatusOf(r)'
<1>0. LogTypes /\ StatusOf(r)
  BY DEF ProfileInv, StatusInv
<1>00. status[r] \in L!Status /\ status = [status EXCEPT ![r] = status[r]]
  BY <1>0 DEF LogTypes
<1>1. CASE L!Lock(r)
  BY <1>0, <1>00, <1>1 DEF L!Lock, Logging, StatusOf, LogTypes
<1>2. CASE L!Write(r)
  <2> DEFINE v == L!Verdict(job[r], logs[job[r].key])
  <2>1. /\ stage[r] = "locked" /\ stage' = [stage EXCEPT ![r] = "written"]
        /\ status' = [status EXCEPT ![r] = v] /\ UNCHANGED <<vars, job, logs>>
    BY <1>2 DEF L!Write, L!KeyOf, Logging
  <2>2. /\ v \in {"created", "skipped", "updated"}
        /\ v = "updated" => job[r].profile /\ logs[job[r].key] # <<>>
        /\ v = "skipped" /\ job[r].profile => HasContent(job[r].key)
    BY DEF L!Verdict, L!Duplicate, L!Fillable, L!HasData, HasContent
  <2> HIDE DEF v
  <2>3. stage'[r] = "written" /\ status'[r] = v
    BY <1>0, <2>1 DEF LogTypes
  <2>4. v \in L!Status
    BY <2>2 DEF L!Status
  <2>5. StatusOf(r)'
    BY <2>1, <2>2, <2>3 DEF StatusOf, Good, HasContent
  <2> QED
    BY <2>1, <2>4, <2>5
<1>3. CASE L!Remember(r)
  BY <1>0, <1>00, <1>3 DEF L!Remember, Logging, StatusOf, HasContent, LogTypes
<1>4. CASE L!Fail(r)
  <2>1. /\ stage[r] \in {"waiting", "locked", "written"}
        /\ stage' = [stage EXCEPT ![r] = "decided"]
        /\ status' = [status EXCEPT ![r] = "warning"] /\ UNCHANGED <<vars, job, logs>>
    BY <1>4 DEF L!Fail, Logging
  <2> QED
    BY <1>0, <2>1 DEF LogTypes, StatusOf, Good, L!Status
<1>5. CASE L!CommitUnheard(r)
  <2>1. /\ stage[r] = "written"
        /\ stage' = [stage EXCEPT ![r] = "decided"]
        /\ status' = [status EXCEPT ![r] = "warning"] /\ UNCHANGED <<vars, job>>
        /\ logs' = [logs EXCEPT ![job[r].key] = L!After(r, logs[job[r].key])]
    BY <1>5 DEF L!CommitUnheard, L!KeyOf, Logging
  <2>2. StatusOf(r)'
    BY <1>0, <2>1 DEF LogTypes, StatusOf, Good
  <2> QED
    BY <2>1, <2>2 DEF L!Status
<1>6. CASE L!Commit(r)
  <2>1. /\ stage[r] = "written"
        /\ stage' = [stage EXCEPT ![r] = "decided"]
        /\ UNCHANGED <<vars, job, status>>
        /\ logs' = [logs EXCEPT ![job[r].key] = L!After(r, logs[job[r].key])]
    BY <1>6 DEF L!Commit, L!KeyOf, Logging
  <2>2. job[r].key \in Key
    BY <1>0, CallsAssumption DEF LogTypes, Call
  <2>3. logs'[job[r].key] = L!After(r, logs[job[r].key])
    BY <1>0, <2>1, <2>2 DEF LogTypes
  <2>4. job[r].profile => HasContent(job[r].key)'
    BY <2>1, <2>3, LoggedRows DEF HasContent
  <2>5. StatusOf(r)'
    BY <1>0, <2>1, <2>4 DEF LogTypes, StatusOf
  <2> QED
    BY <1>00, <2>1, <2>5
<1> QED
  BY <1>1, <1>2, <1>3, <1>4, <1>5, <1>6 DEF Logging, L!Step

(* Rows and content are there for good. *)
LEMMA LogKept ==
  ASSUME ProfileInv, NEW r \in Request, Logging(r)
  PROVE  /\ logs' \in [Key -> Seq(L!LogRow)]
         /\ \A k \in Key : /\ logs[k] # <<>> => logs'[k] # <<>>
                           /\ HasContent(k) => HasContent(k)'
         /\ RowInv'
<1>0. LogTypes /\ RowInv
  BY DEF ProfileInv
<1>1. UNCHANGED vars
  BY LoggingMeans
<1>2. CASE logs' = logs
  BY <1>0, <1>1, <1>2, MainStill DEF LogTypes, RowInv, HasContent
<1>3. CASE /\ stage[r] = "written"
           /\ logs' = [logs EXCEPT ![job[r].key] = L!After(r, logs[job[r].key])]
  <2> DEFINE j == job[r].key
             new == L!After(r, logs[j])
  <2>1. j \in Key
    BY <1>0, CallsAssumption DEF LogTypes, Call
  <2>2. /\ new \in Seq(L!LogRow)
        /\ \A i \in DOMAIN logs[j] :
             i \in DOMAIN new /\ (logs[j][i].data # NoBody => new[i].data # NoBody)
        /\ \A i \in DOMAIN new : TellsOf(new[i], j)
        /\ logs[j] # <<>> => new # <<>>
    BY <1>3, LoggedRows
  <2> HIDE DEF new
  <2>3. logs'[j] = new /\ \A k \in Key : k # j => logs'[k] = logs[k]
    BY <1>0, <1>3, <2>1 DEF LogTypes, new
  <2>4. logs' \in [Key -> Seq(L!LogRow)]
    BY <1>0, <1>3, <2>2 DEF LogTypes, new
  <2> HIDE DEF j
  <2>5. \A k \in Key : (logs[k] # <<>> => logs'[k] # <<>>) /\ (HasContent(k) => HasContent(k)')
    BY <2>2, <2>3 DEF HasContent
  <2>6. RowInv'
    <3> SUFFICES ASSUME NEW k \in Key, NEW i \in DOMAIN logs'[k]
                 PROVE  TellsOf(logs[k][i], k)'
      BY DEF RowInv
    <3>1. TellsOf(logs'[k][i], k)
      BY <1>0, <2>2, <2>3 DEF RowInv
    <3>2. call' = call /\ outcome' = outcome
      BY <1>1 DEF vars
    <3> QED
      BY <3>1, <3>2 DEF TellsOf, Backed, KeyOf, BodyOf
  <2> QED
    BY <2>4, <2>5, <2>6
<1> QED
  BY <1>2, <1>3, LoggingMeans

LEMMA LoggingInv ==
  ASSUME ProfileInv, NEW r \in Request, Logging(r)
  PROVE  ProfileInv'
<1>0. IInv /\ LogTypes /\ LinkInv /\ StatusInv
  BY DEF ProfileInv
<1>1. UNCHANGED vars /\ job' = job /\ stage[r] \notin {"idle", "done"}
  BY LoggingMeans
<1>2. PICK g \in {"locked", "written", "decided", "done"}, t \in L!Status :
        stage' = [stage EXCEPT ![r] = g] /\ status' = [status EXCEPT ![r] = t]
  BY LoggingMeans
<1>3. IInv'
  BY <1>0, <1>1, NextInv
<1>4. LogTypes'
  <2>1. g \in L!Stage
    BY DEF L!Stage
  <2>2. stage' \in [Request -> L!Stage] /\ status' \in [Request -> L!Status]
    BY <1>0, <1>2, <2>1 DEF LogTypes
  <2> QED
    BY <1>0, <1>1, <2>2, LogKept DEF LogTypes
<1>5. \A q \in Request : /\ q # r => stage'[q] = stage[q] /\ status'[q] = status[q]
                         /\ stage'[q] # "idle" => stage[q] # "idle"
  BY <1>0, <1>1, <1>2 DEF LogTypes
<1>6. LinkInv'
  <2>1. pc[r] # "done"
    BY <1>0, <1>1 DEF LinkInv
  <2> QED
    BY <1>0, <1>1, <1>5, <2>1, MainStill DEF LinkInv
<1>7. StatusInv'
  <2> SUFFICES ASSUME NEW q \in Request PROVE StatusOf(q)'
    BY DEF StatusInv
  <2>1. CASE q = r
    BY <2>1, LoggingMeans
  <2>2. CASE q # r
    <3>1. job[q].key \in Key
      BY <1>0, CallsAssumption DEF LogTypes, Call
    <3>2. StatusOf(q)
      BY <1>0 DEF StatusInv
    <3>3. /\ logs[job[q].key] # <<>> => logs'[job[q].key] # <<>>
          /\ HasContent(job[q].key) => HasContent(job[q].key)'
      BY <1>1, <3>1, LogKept DEF HasContent
    <3> QED
      BY <1>1, <1>5, <2>2, <3>2, <3>3 DEF StatusOf
  <2> QED
    BY <2>1, <2>2
<1> QED
  BY <1>3, <1>4, <1>6, <1>7, LogKept DEF ProfileInv

(* The memory of the log database plays no part, nor does a stutter. *)
LEMMA StillInv ==
  ASSUME ProfileInv, UNCHANGED <<vars, stage, job, status, logs>>
  PROVE  ProfileInv'
<1>0. IInv /\ LogTypes /\ LinkInv /\ StatusInv /\ RowInv
  BY DEF ProfileInv
<1>1. IInv'
  BY <1>0, NextInv
<1>2. LogTypes' /\ StatusInv'
  BY <1>0 DEF LogTypes, StatusInv, StatusOf, HasContent
<1>3. LinkInv' /\ RowInv'
  BY <1>0, MainStill DEF LinkInv, RowInv
<1> QED
  BY <1>1, <1>2, <1>3 DEF ProfileInv

LEMMA ProfileNextInv == ProfileInv /\ [ProfileNext]_profileVars => ProfileInv'
<1> SUFFICES ASSUME ProfileInv, [ProfileNext]_profileVars PROVE ProfileInv'
  OBVIOUS
<1>1. ASSUME NEW r \in Request, Writing(r) \/ Reply(r)
      PROVE  ProfileInv'
  BY <1>1, WritingInv DEF Writing, Reply
<1>2. ASSUME NEW r \in Request, LogBegin(r)
      PROVE  ProfileInv'
  BY <1>2, LogBeginInv
<1>3. ASSUME NEW r \in Request, Logging(r)
      PROVE  ProfileInv'
  BY <1>3, LoggingInv
<1>4. ASSUME NEW k \in Key, Environment(k), UNCHANGED logVars
      PROVE  ProfileInv'
  BY <1>4, WritingInv
<1>5. CASE L!Forget /\ UNCHANGED vars
  BY <1>5, StillInv DEF L!Forget
<1>6. CASE UNCHANGED profileVars
  BY <1>6, StillInv DEF profileVars, logVars
<1> QED
  BY <1>1, <1>2, <1>3, <1>4, <1>5, <1>6 DEF ProfileNext

-----------------------------------------------------------------------------
(* The two databases of a tenant agree in the sense of ProfileInv however  *)
(* many requests run, fail or are lost between the two commits.            *)
THEOREM ProfileInvariance == ProfileSpec => []ProfileInv
<1>1. ProfileInit => ProfileInv
  BY ProfileInitInv
<1>2. ProfileInv /\ [ProfileNext]_profileVars => ProfileInv'
  BY ProfileNextInv
<1> QED
  BY <1>1, <1>2, PTL DEF ProfileSpec

(* profile_status "complete" is said only when header, relations, marker   *)
(* and a log row with content are all committed.                           *)
THEOREM CompleteMeansComplete == ProfileSpec => []CompleteIsComplete
<1>1. ProfileInv => CompleteIsComplete
  <2> SUFFICES ASSUME ProfileInv, NEW r \in Request, Replied(r), Complete(r)
               PROVE  /\ stored[KeyOf(r)] # NoDoc
                      /\ rels[KeyOf(r)] # {}
                      /\ \E i \in DOMAIN marks[KeyOf(r)] :
                           marks[KeyOf(r)][i].body = BodyOf(r)
                      /\ HasContent(KeyOf(r))
    BY DEF CompleteIsComplete, HasContent, KeyOf, BodyOf
  <2>0. IInv /\ LinkInv /\ StatusOf(r)
    BY DEF ProfileInv, StatusInv
  <2>1. Backed(r) /\ pc[r] = "done" /\ call[r].profile /\ status[r] \in Good
    BY DEF Replied, Complete, Backed, Good
  <2>2. stage[r] = "done" /\ job[r] = call[r]
    BY <2>0, <2>1 DEF LinkInv
  <2>3. HasContent(KeyOf(r))
    BY <2>0, <2>1, <2>2 DEF StatusOf, KeyOf
  <2> QED
    BY <2>0, <2>1, <2>3, BackedMeans
<1> QED
  BY <1>1, ProfileInvariance, PTL

(* A row of the audit log tells of a document that is stored and of a      *)
(* payload that was accepted for it; if the document was written with its  *)
(* profile, of exactly that payload.                                       *)
THEOREM LogTellsTheTruth == ProfileSpec => []LogFollowsDocument
<1>1. ProfileInv => LogFollowsDocument
  <2> SUFFICES ASSUME ProfileInv, NEW k \in Key, NEW i \in DOMAIN logs[k]
               PROVE  /\ stored[k] # NoDoc
                      /\ outcome[logs[k][i].by] \in {"created", "already_exists"}
                      /\ logs[k][i].data # NoBody =>
                           /\ \E n \in DOMAIN marks[k] : marks[k][n].body = logs[k][i].data
                           /\ BornWithProfile(k) =>
                                logs[k][i].data = call[stored[k].by].body
    BY DEF LogFollowsDocument
  <2> DEFINE row == logs[k][i]
  <2>0. IInv /\ TellsOf(row, k)
    BY DEF ProfileInv, RowInv
  <2> HIDE DEF row
  <2>1. stored[k] # NoDoc /\ outcome[row.by] \in {"created", "already_exists"}
    <3>1. row.by \in Request /\ Backed(row.by) /\ KeyOf(row.by) = k
      BY <2>0 DEF TellsOf
    <3>2. stored[KeyOf(row.by)] # NoDoc
      BY <2>0, <3>1, BackedMeans
    <3> QED
      BY <3>1, <3>2 DEF Backed
  <2>2. ASSUME row.data # NoBody
        PROVE  /\ \E n \in DOMAIN marks[k] : marks[k][n].body = row.data
               /\ BornWithProfile(k) => row.data = call[stored[k].by].body
    <3>1. PICK q \in Request :
            Backed(q) /\ call[q].profile /\ KeyOf(q) = k /\ row.data = BodyOf(q)
      BY <2>0, <2>2 DEF TellsOf
    <3>2. \E n \in DOMAIN marks[k] : marks[k][n].body = row.data
      BY <2>0, <3>1, BackedMeans
    <3>3. BornWithProfile(k) =>
            marks[k] = <<[by |-> stored[k].by, body |-> BodyOf(stored[k].by)]>>
      BY <2>0 DEF IInv, ProfileWrittenOnce
    <3>4. BornWithProfile(k) => row.data = BodyOf(stored[k].by)
      BY <3>2, <3>3
    <3> QED
      BY <3>2, <3>4 DEF BodyOf
  <2> QED
    BY <2>1, <2>2 DEF row
<1> QED
  BY <1>1, ProfileInvariance, PTL

(* A step of the whole is one of the document's transaction, one of the    *)
(* log's, or leaves them alone.                                            *)
LEMMA WholeStep ==
  ASSUME ProfileInv, [ProfileNext]_profileVars
  PROVE  [Next]_vars /\ [L!Next]_logVars
<1>1. ASSUME NEW r \in Request, Writing(r)
      PROVE  Next /\ UNCHANGED logVars
  BY <1>1 DEF Writing, Next
<1>2. ASSUME NEW r \in Request, LogBegin(r)
      PROVE  UNCHANGED vars /\ L!Next
  <2>1. call[r] \in Calls
    BY DEF ProfileInv, IInv, TypeOK
  <2>. QED
    BY <1>2, <2>1 DEF LogBegin, L!Next
<1>3. ASSUME NEW r \in Request, Logging(r)
      PROVE  UNCHANGED vars /\ L!Next
  BY <1>3 DEF Logging, L!Next
<1>4. ASSUME NEW r \in Request, Reply(r)
      PROVE  Next /\ UNCHANGED logVars
  BY <1>4 DEF Reply, Next
<1>5. ASSUME NEW k \in Key, Environment(k), UNCHANGED logVars
      PROVE  Next /\ UNCHANGED logVars
  BY <1>5 DEF Next
<1>6. CASE L!Forget /\ UNCHANGED vars
  BY <1>6 DEF L!Next
<1>7. CASE UNCHANGED profileVars
  BY <1>7 DEF profileVars
<1>. QED
  BY <1>1, <1>2, <1>3, <1>4, <1>5, <1>6, <1>7 DEF ProfileNext

(* createDocument runs insertDocument and then writeERPLog, and neither is *)
(* disturbed by the other: the whole is a behaviour of DocumentWrite and   *)
(* one of ErpLog.  So what is proved of either, with any constants, holds  *)
(* in the whole, and its documents are written in one step each.           *)
THEOREM WholeKeepsItsParts == ProfileSpec => Spec /\ L!Spec /\ WrittenOnce
<1>1. ProfileInit => Init /\ L!Init
  BY DEF ProfileInit
<1>2. ProfileSpec => Spec
  BY <1>1, WholeStep, ProfileInvariance, PTL DEF ProfileSpec, Spec
<1>3. L!Spec <=> L!Init /\ [][L!Next]_logVars
  BY DEF L!Spec, L!vars, logVars
<1>4. ProfileSpec => L!Spec
  BY <1>1, <1>3, WholeStep, ProfileInvariance, PTL DEF ProfileSpec
<1>. QED
  BY <1>2, <1>4, ImplementsWriteOnce
=============================================================================
