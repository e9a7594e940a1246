------------------------- MODULE ImageStore_proofs --------------------------
(***************************************************************************)
(* ImageStore, for any users, contents, uploads, deletions and             *)
(* conversions: temporary files have one owner and go with it, a stored    *)
(* original has a live row once all requests have returned, a deletion     *)
(* takes files only from rows that came late, and a variant is lost only   *)
(* when a deleted row shares its path.                                     *)
(***************************************************************************)
EXTENDS ImageStore, WellFoundedInduction, TLAPS

---------------------------------------------------------------------------
\* Rows

\* First finds a row of those it looks at.
LEMMA LeastIsThere ==
    ASSUME NEW S \in SUBSET Nat, S # {}
    PROVE  Least(S) \in S
  <1>1. PICK i \in S : \A j \in S : ~ (<<j, i>> \in OpToRel(<, Nat))
    BY NatLessThanWellFounded, WFMin
  <1>2. \A j \in S : ~ (j < i)
    BY <1>1 DEF OpToRel
  <1>3. \A j \in S : i <= j
    BY <1>2
  <1> QED BY <1>3 DEF Least

UploadRecord == [pc : UploadPc, user : Users \cup {NoUser},
                 content : Contents \cup {NoContent}, row : RowId,
                 day : 0 .. MaxDay, consumed : BOOLEAN]
TempRecord == [there : BOOLEAN, request : {"owns", "released", "done"}]
JobRecord == [pc : JobPc, row : RowId, from : Uploads \cup {NoUpload}]
DeleteRecord == [pc : DeletePc, user : Users \cup {NoUser}, contents : SUBSET Contents,
                 todo : SUBSET RowId, refs : SUBSET RowId, row : RowId, seen : RowId]

\* The rows a request, a conversion or a deletion holds by their primary key
\* are in the table, and what a deletion goes through is deleted.
NeedsRow == {"reuse", "exists", "dedup", "restore", "submit"}
NeedsContent == {"deleted", "reuse", "exists", "dedup", "restore", "write", "insert", "undo"}
UploadFits(r, rs) ==
    /\ r \in UploadRecord
    /\ r.pc \in NeedsRow => r.row \in DOMAIN rs
    /\ r.pc \in NeedsContent => r.content \in Contents /\ r.user \in Users
    /\ r.pc \in {"insert", "undo"} => r.day \in Days
JobFits(r, rs) ==
    /\ r \in JobRecord
    /\ r.pc # "free" => r.row \in DOMAIN rs
    /\ r.pc \in {"free", "read", "settle"} => r.from = NoUpload
DeleteFits(r, rs) ==
    /\ r \in DeleteRecord
    /\ r.todo \subseteq DOMAIN rs /\ r.refs \subseteq DOMAIN rs
    /\ \A i \in r.todo : ~ rs[i].live
    /\ r.pc \in {"vrows", "unlink"} => r.row \in DOMAIN rs

RowsAreKnown ==
    /\ \A u \in Uploads : UploadFits(upload[u], rows)
    /\ \A j \in Conversions : JobFits(job[j], rows)
    /\ \A d \in Deletes : DeleteFits(delete[d], rows)

\* A temp file is its request's until a conversion takes it over, which is when
\* the request is over but for its return.
Relied(u) == \E j \in Conversions : job[j].from = u
TempFits(r, t, relied) ==
    LET over == r.pc \in {"idle", "release"} \/ (r.pc = "return" /\ r.consumed) IN
      /\ ~ over => ~ relied /\ ~ r.consumed /\ t.request = "owns"
      /\ over /\ ~ relied => ~ t.there
      /\ r.pc = "release" => r.consumed /\ t.request = "owns"
      /\ r.pc = "return" /\ r.consumed => t.request = "released"
      /\ r.pc = "idle" => t.request = "done" /\ ~ r.consumed

TempsHaveOwners == \A u \in Uploads : TempFits(upload[u], temp[u], Relied(u))

KnownInv == StoreTypeOK /\ RowsAreKnown /\ TempsHaveOwners

LEMMA StoreTyped ==
    ASSUME KnownInv
    PROVE  /\ rows \in Seq(ImageRow) /\ Len(rows) \in Nat /\ Len(rows) <= MaxRows
           /\ DOMAIN rows = 1 .. Len(rows) /\ DOMAIN rows \subseteq RowId
           /\ DOMAIN rows \subseteq Nat
           /\ \A i \in DOMAIN rows : rows[i] \in ImageRow
           /\ upload \in [Uploads -> UploadRecord] /\ temp \in [Uploads -> TempRecord]
           /\ job \in [Conversions -> JobRecord] /\ delete \in [Deletes -> DeleteRecord]
           /\ errors \in Nat /\ today \in Days
           /\ Live \subseteq DOMAIN rows
           /\ \A c : LiveOf(c) \subseteq DOMAIN rows /\ DeletedOf(c) \subseteq DOMAIN rows
  <1>1. rows \in Seq(ImageRow) /\ Len(rows) \in Nat /\ Len(rows) <= MaxRows /\ MaxRows \in Nat
        /\ DOMAIN rows = 1 .. Len(rows) /\ \A i \in DOMAIN rows : rows[i] \in ImageRow
    BY StoreAssumption DEF KnownInv, StoreTypeOK
  <1>2. DOMAIN rows \subseteq RowId /\ DOMAIN rows \subseteq Nat
    BY <1>1 DEF RowId
  <1>3. errors \in Nat /\ today \in Days
    BY StoreAssumption DEF KnownInv, StoreTypeOK
  <1> QED BY <1>1, <1>2, <1>3 DEF KnownInv, StoreTypeOK, UploadRecord, TempRecord, JobRecord, DeleteRecord,
             Live, LiveOf, DeletedOf

\* What becomes of the table in a step: rows are added with keys of their own, no
\* path changes and no row comes back.
RowsGoOn ==
    /\ rows' \in Seq(ImageRow) /\ Len(rows') <= MaxRows
    /\ DOMAIN rows \subseteq DOMAIN rows'
    /\ \A i \in DOMAIN rows : rows'[i].path = rows[i].path /\ (rows'[i].live => rows[i].live)
    /\ \A i \in DOMAIN rows' \ DOMAIN rows : i \in Nat /\ i > Len(rows) /\ rows'[i].variant = "none"

LEMMA RowsStay ==
    ASSUME KnownInv, UNCHANGED rows
    PROVE  RowsGoOn
  BY StoreTyped DEF RowsGoOn

LEMMA RowAdded ==
    ASSUME KnownInv, NEW u \in Users, NEW c \in Contents, NEW p \in Path, Len(rows) < MaxRows, NewRow(u, c, p)
    PROVE  /\ RowsGoOn /\ DOMAIN rows' = DOMAIN rows \cup {Len(rows) + 1}
           /\ \A i \in DOMAIN rows : rows'[i] = rows[i]
           /\ rows'[Len(rows) + 1].path = p /\ rows'[Len(rows) + 1].live
           /\ Len(rows) + 1 \in DOMAIN rows'
           /\ Len(rows) + 1 \in RowId
  <1> DEFINE r == [owner |-> u, content |-> c, path |-> p, live |-> TRUE, variant |-> "none"]
  <1>1. r \in ImageRow /\ r.path = p /\ r.live /\ r.variant = "none"
    BY DEF ImageRow
  <1>2. rows' = Append(rows, r)
    BY DEF NewRow
  <1> HIDE DEF r
  <1>3. /\ rows' \in Seq(ImageRow) /\ Len(rows') = Len(rows) + 1
        /\ \A i \in 1 .. Len(rows) : rows'[i] = rows[i]
        /\ rows'[Len(rows) + 1] = r
        /\ DOMAIN rows' = 1 .. Len(rows) + 1
    BY <1>1, <1>2, StoreTyped
  <1>4. DOMAIN rows' = DOMAIN rows \cup {Len(rows) + 1}
    BY <1>3, StoreTyped
  <1>5. Len(rows) + 1 > Len(rows) /\ Len(rows') <= MaxRows /\ Len(rows) + 1 \in RowId /\ Len(rows) + 1 \in Nat
    BY <1>3, StoreTyped, StoreAssumption DEF RowId
  <1> QED BY <1>1, <1>3, <1>4, <1>5, StoreTyped DEF RowsGoOn

LEMMA VariantChanged ==
    ASSUME KnownInv, NEW i \in DOMAIN rows, NEW v \in {"none", "busy", "completed", "gone"},
           rows' = [rows EXCEPT ![i].variant = v]
    PROVE  /\ RowsGoOn /\ DOMAIN rows' = DOMAIN rows
           /\ \A k \in DOMAIN rows : rows'[k].path = rows[k].path /\ rows'[k].live = rows[k].live
           /\ \A k \in DOMAIN rows \ {i} : rows'[k] = rows[k]
           /\ rows'[i].variant = v
  <1>1. [rows[i] EXCEPT !.variant = v] \in ImageRow
        /\ [rows[i] EXCEPT !.variant = v].path = rows[i].path
        /\ [rows[i] EXCEPT !.variant = v].live = rows[i].live
        /\ [rows[i] EXCEPT !.variant = v].variant = v
    BY StoreTyped DEF ImageRow
  <1>2. rows' = [rows EXCEPT ![i] = [rows[i] EXCEPT !.variant = v]]
    BY StoreTyped
  <1>3. rows' \in Seq(ImageRow) /\ Len(rows') = Len(rows) /\ DOMAIN rows' = DOMAIN rows
    BY <1>1, <1>2, StoreTyped
  <1> QED BY <1>1, <1>2, <1>3, StoreTyped DEF RowsGoOn

LEMMA RowsDeleted ==
    ASSUME KnownInv, NEW S \in SUBSET DOMAIN rows,
           rows' = [i \in DOMAIN rows |-> IF i \in S THEN [rows[i] EXCEPT !.live = FALSE] ELSE rows[i]]
    PROVE  /\ RowsGoOn /\ DOMAIN rows' = DOMAIN rows
           /\ \A i \in DOMAIN rows : /\ rows'[i].path = rows[i].path
                                     /\ rows'[i].variant = rows[i].variant
                                     /\ i \in S => ~ rows'[i].live
                                     /\ i \notin S => rows'[i].live = rows[i].live
  <1>1. \A i \in DOMAIN rows : LET q == [rows[i] EXCEPT !.live = FALSE]
                               IN  q \in ImageRow /\ q.path = rows[i].path /\ ~ q.live
                                   /\ q.variant = rows[i].variant
    BY StoreTyped DEF ImageRow
  <1>2. /\ \A i \in DOMAIN rows : rows'[i] \in ImageRow
        /\ \A i \in DOMAIN rows : /\ rows'[i].path = rows[i].path
                                  /\ rows'[i].variant = rows[i].variant
                                  /\ i \in S => ~ rows'[i].live
                                  /\ i \notin S => rows'[i].live = rows[i].live
    BY <1>1, StoreTyped
  <1>3. DOMAIN rows' = DOMAIN rows /\ rows' \in [1 .. Len(rows) -> ImageRow]
    BY <1>2, StoreTyped
  <1>4. rows' \in Seq(ImageRow) /\ Len(rows') = Len(rows)
    BY <1>3, StoreTyped
  <1> QED BY <1>2, <1>3, <1>4, StoreTyped DEF RowsGoOn

LEMMA NobodyLosesRows ==
    ASSUME KnownInv, RowsGoOn
    PROVE  /\ \A r : UploadFits(r, rows) => UploadFits(r, rows')
           /\ \A r : JobFits(r, rows) => JobFits(r, rows')
           /\ \A r : DeleteFits(r, rows) => DeleteFits(r, rows')
  BY DEF RowsGoOn, UploadFits, JobFits, DeleteFits

---------------------------------------------------------------------------
\* Errors: how many the code has taken, and where one left a file.
ErrorsKnown == errors' \in 0 .. MaxErrors /\ left' \subseteq Path

LEMMA ErrorsCounted ==
    ASSUME KnownInv, Works \/ Fails \/ \E p \in Path : FailsLeaving(p)
    PROVE  ErrorsKnown
  BY StoreAssumption DEF KnownInv, StoreTypeOK, Works, Errs, Fails, FailsLeaving, ErrorsKnown

LEMMA ErrorsStay ==
    ASSUME KnownInv, UNCHANGED <<errors, left>>
    PROVE  ErrorsKnown
  BY ErrorsCounted DEF Works

---------------------------------------------------------------------------
\* Uploads

ReliedThen(u) == \E j \in Conversions : job'[j].from = u

LEMMA UploadCloses ==
    ASSUME KnownInv, NEW u \in Uploads, NEW r, RowsGoOn,
           upload' = [upload EXCEPT ![u] = r], UploadFits(r, rows'),
           temp' \in [Uploads -> TempRecord], \A v \in Uploads \ {u} : temp'[v] = temp[v],
           files' \subseteq Path, ErrorsKnown, UNCHANGED <<vfiles, delete, today>>,
           job' \in [Conversions -> JobRecord], \A j \in Conversions : JobFits(job'[j], rows'),
           \A v \in Uploads \ {u} : ReliedThen(v) <=> Relied(v),
           TempFits(r, temp'[u], ReliedThen(u))
    PROVE  KnownInv'
  <1>1. upload' \in [Uploads -> UploadRecord] /\ upload'[u] = r
        /\ \A v \in Uploads \ {u} : upload'[v] = upload[v]
    BY StoreTyped DEF UploadFits
  <1>2. StoreTypeOK'
    BY <1>1 DEF KnownInv, StoreTypeOK, RowsGoOn, UploadRecord, TempRecord, JobRecord, ErrorsKnown
  <1>3. RowsAreKnown'
    <2>1. \A v \in Uploads : UploadFits(upload'[v], rows')
      BY <1>1, NobodyLosesRows DEF KnownInv, RowsAreKnown
    <2>2. \A d \in Deletes : DeleteFits(delete'[d], rows')
      BY NobodyLosesRows DEF KnownInv, RowsAreKnown
    <2> QED BY <2>1, <2>2 DEF RowsAreKnown, UploadFits, JobFits, DeleteFits
  <1>4. TempsHaveOwners'
    <2>1. \A v \in Uploads : TempFits(upload'[v], temp'[v], ReliedThen(v))
      BY <1>1 DEF KnownInv, TempsHaveOwners, TempFits
    <2> QED BY <2>1 DEF TempsHaveOwners, TempFits, Relied, ReliedThen
  <1> QED BY <1>2, <1>3, <1>4 DEF KnownInv

\* A step of an upload that moves nothing but the upload.
LEMMA UploadMoves ==
    ASSUME KnownInv, NEW u \in Uploads, NEW r, UploadFits(r, rows), upload' = [upload EXCEPT ![u] = r],
           UNCHANGED <<rows, files, temp, vfiles, delete, today, job>>, ErrorsKnown,
           TempFits(r, temp[u], Relied(u))
    PROVE  KnownInv'
  <1>1. RowsGoOn /\ temp \in [Uploads -> TempRecord] /\ files \subseteq Path
        /\ job \in [Conversions -> JobRecord]
    BY RowsStay, StoreTyped DEF KnownInv, StoreTypeOK
  <1>2. \A j \in Conversions : JobFits(job'[j], rows')
    BY DEF KnownInv, RowsAreKnown
  <1>3. \A v \in Uploads : ReliedThen(v) <=> Relied(v)
    BY DEF Relied, ReliedThen
  <1>4. TempFits(r, temp'[u], ReliedThen(u))
    BY <1>3 DEF TempFits
  <1>5. UploadFits(r, rows')
    BY DEF UploadFits
  <1> QED BY <1>1, <1>2, <1>3, <1>4, <1>5, UploadCloses

\* The records an upload goes through.
LEMMA UploadRecords ==
    ASSUME KnownInv, NEW u \in Uploads
    PROVE  /\ IdleUpload \in UploadRecord /\ IdleUpload.pc = "idle" /\ ~ IdleUpload.consumed
           /\ upload[u] \in UploadRecord
  <1>1. 0 \in RowId /\ 0 \in 0 .. MaxDay
    BY StoreAssumption DEF RowId
  <1> QED BY <1>1, StoreTyped DEF IdleUpload, UploadRecord, NoRow, UploadPc

LEMMA PcMoved ==
    ASSUME NEW q \in UploadRecord, NEW s \in UploadPc, NEW r, r = [q EXCEPT !.pc = s]
    PROVE  /\ r \in UploadRecord /\ r.pc = s /\ r.user = q.user /\ r.content = q.content
           /\ r.row = q.row /\ r.day = q.day /\ r.consumed = q.consumed
  BY DEF UploadRecord

\* The returns of processAndSaveImage.
LEMMA ReturnRecord ==
    ASSUME KnownInv, NEW u \in Uploads, UpReturn(u)
    PROVE  \E r \in UploadRecord :
              /\ upload' = [upload EXCEPT ![u] = r]
              /\ \A rs : UploadFits(r, rs)
              /\ r.pc = "return" /\ r.consumed = upload[u].consumed
  <1> DEFINE r == [IdleUpload EXCEPT !.pc = "return", !.consumed = upload[u].consumed]
  <1>1. IdleUpload \in UploadRecord /\ upload[u].consumed \in BOOLEAN
    BY UploadRecords DEF UploadRecord
  <1>2. r \in UploadRecord /\ r.pc = "return" /\ r.consumed = upload[u].consumed
    BY <1>1 DEF UploadRecord, UploadPc
  <1>3. \A rs : UploadFits(r, rs)
    BY <1>2 DEF UploadFits, NeedsRow, NeedsContent
  <1>4. upload' = [upload EXCEPT ![u] = r]
    BY DEF UpReturn
  <1> QED BY <1>2, <1>3, <1>4

\* Requests that look for what is there already.
LEMMA FindInv ==
    ASSUME KnownInv, NEW u \in Uploads,
           FindByHash(u) \/ FindDeletedByHash(u) \/ CountForReuse(u) \/ CheckExists(u)
    PROVE  KnownInv'
  <1> USE DEF UploadRest, UpAt, UpGo
  <1>1. /\ UNCHANGED <<rows, files, temp, vfiles, delete, today, job>>
        /\ upload[u].pc \in {"parsed", "deleted", "reuse", "exists"}
        /\ Works \/ Fails
    BY DEF FindByHash, FindDeletedByHash, CountForReuse, CheckExists, Works
  <1>2. /\ UploadFits(upload[u], rows) /\ TempFits(upload[u], temp[u], Relied(u))
        /\ ErrorsKnown /\ upload[u] \in UploadRecord
    BY <1>1, ErrorsCounted, UploadRecords DEF KnownInv, RowsAreKnown, TempsHaveOwners
  <1>3. ~ Relied(u) /\ ~ upload[u].consumed /\ temp[u].request = "owns"
    BY <1>1, <1>2 DEF TempFits
  <1>4. ASSUME NEW r, UploadFits(r, rows), upload' = [upload EXCEPT ![u] = r],
               r.pc \in UploadPc \ {"idle", "release"}, ~ r.consumed
        PROVE  KnownInv'
    <2>1. TempFits(r, temp[u], Relied(u))
      BY <1>3, <1>4 DEF TempFits
    <2> QED BY <1>1, <1>2, <1>4, <2>1, UploadMoves
  <1>5. ASSUME NEW s \in {"write", "restore", "dedup", "exists"}, UpGo(u, s),
               upload[u].pc \in {"deleted", "reuse", "exists"}, s = "write" \/ upload[u].pc # "deleted"
        PROVE  KnownInv'
    <2> DEFINE r == [upload[u] EXCEPT !.pc = s]
    <2>1. r \in UploadRecord /\ r.pc = s /\ r.user = upload[u].user /\ r.content = upload[u].content
          /\ r.row = upload[u].row /\ r.consumed = upload[u].consumed
      <3>1. s \in UploadPc
        BY DEF UploadPc
      <3>2. r = [upload[u] EXCEPT !.pc = s]
        OBVIOUS
      <3> HIDE DEF r
      <3> QED BY <1>2, <3>1, <3>2, PcMoved
    <2>2. upload' = [upload EXCEPT ![u] = r]
      BY <1>5
    <2> HIDE DEF r
    <2>3. UploadFits(r, rows)
      BY <1>2, <1>5, <2>1 DEF UploadFits, NeedsRow, NeedsContent
    <2> QED BY <1>3, <1>4, <2>1, <2>2, <2>3 DEF UploadPc
  <1>6. CASE FindByHash(u)
    <2>1. ASSUME UpReturn(u) PROVE KnownInv'
      BY <1>3, <1>4, <2>1, ReturnRecord DEF UploadPc
    <2>2. ASSUME NEW user \in Users, NEW c \in Contents, NEW s \in {"deleted", "dedup"}, NEW i \in RowId,
                 s = "dedup" => i \in DOMAIN rows,
                 upload' = [upload EXCEPT ![u] = [IdleUpload EXCEPT
                              !.pc = s, !.user = user, !.content = c, !.row = i]]
          PROVE  KnownInv'
      <3> DEFINE r == [IdleUpload EXCEPT !.pc = s, !.user = user, !.content = c, !.row = i]
      <3>1. r \in UploadRecord /\ r.pc = s /\ r.user = user /\ r.content = c /\ r.row = i /\ ~ r.consumed
        <4>1. s \in UploadPc
          BY DEF UploadPc
        <4>2. IdleUpload \in UploadRecord /\ ~ IdleUpload.consumed
          BY UploadRecords
        <4>3. r \in UploadRecord /\ r.pc = s /\ r.user = user /\ r.content = c /\ r.row = i
              /\ r.consumed = IdleUpload.consumed
          BY <4>1, <4>2 DEF UploadRecord
        <4> QED BY <4>2, <4>3
      <3>2. upload' = [upload EXCEPT ![u] = r]
        BY <2>2
      <3> HIDE DEF r
      <3>3. UploadFits(r, rows)
        BY <2>2, <3>1 DEF UploadFits, NeedsRow, NeedsContent
      <3> QED BY <1>4, <3>1, <3>2, <3>3 DEF UploadPc
    <2>3. PICK user \in Users, c \in Contents :
             \/ upload' = [upload EXCEPT ![u] = [IdleUpload EXCEPT
                              !.pc = "deleted", !.user = user, !.content = c, !.row = NoRow]]
             \/ /\ LiveOf(c) # {}
                /\ upload' = [upload EXCEPT ![u] = [IdleUpload EXCEPT
                              !.pc = "dedup", !.user = user, !.content = c, !.row = Least(LiveOf(c))]]
             \/ UpReturn(u)
      BY <1>6 DEF FindByHash
    <2>4. NoRow \in RowId
      BY StoreAssumption DEF NoRow, RowId
    <2>5. LiveOf(c) # {} => Least(LiveOf(c)) \in DOMAIN rows /\ Least(LiveOf(c)) \in RowId
      <3>1. LiveOf(c) \in SUBSET Nat /\ LiveOf(c) \subseteq DOMAIN rows /\ DOMAIN rows \subseteq RowId
        BY StoreTyped
      <3> QED BY <3>1, LeastIsThere
    <2> QED BY <2>1, <2>2, <2>3, <2>4, <2>5
  <1>7. CASE FindDeletedByHash(u)
    <2> DEFINE hits == DeletedOf(upload[u].content)
    <2>1. CASE UpGo(u, "write")
      BY <1>5, <1>7, <2>1 DEF FindDeletedByHash
    <2>2. CASE hits # {} /\ upload' = [upload EXCEPT ![u].row = Least(hits), ![u].pc = "reuse"]
      <3> DEFINE r == [upload[u] EXCEPT !.row = Least(hits), !.pc = "reuse"]
      <3>1. Least(hits) \in DOMAIN rows /\ Least(hits) \in RowId
        <4>1. hits \in SUBSET Nat /\ hits \subseteq DOMAIN rows /\ DOMAIN rows \subseteq RowId
          BY StoreTyped
        <4> QED BY <2>2, <4>1, LeastIsThere
      <3>2. upload' = [upload EXCEPT ![u].row = Least(hits), ![u].pc = "reuse"]
        BY <2>2
      <3> HIDE DEF hits
      <3>3. upload' = [upload EXCEPT ![u] = r]
        BY <3>2
      <3>4. r \in UploadRecord /\ r.pc = "reuse" /\ r.row = Least(hits) /\ r.user = upload[u].user
            /\ r.content = upload[u].content /\ r.consumed = upload[u].consumed
        BY <1>2, <3>1 DEF UploadRecord, UploadPc
      <3> HIDE DEF r
      <3>5. UploadFits(r, rows)
        BY <1>2, <1>7, <3>1, <3>4 DEF UploadFits, NeedsRow, NeedsContent, FindDeletedByHash
      <3> QED BY <1>3, <1>4, <3>3, <3>4, <3>5 DEF UploadPc
    <2>3. CASE UpReturn(u)
      BY <1>3, <1>4, <2>3, ReturnRecord DEF UploadPc
    <2> QED BY <1>7, <2>1, <2>2, <2>3 DEF FindDeletedByHash
  <1>8. CASE CountForReuse(u) \/ CheckExists(u)
    <2>1. PICK s \in {"write", "restore", "dedup", "exists"} : UpGo(u, s)
      BY <1>8 DEF CountForReuse, CheckExists, Reuse
    <2>2. upload[u].pc \in {"reuse", "exists"}
      BY <1>8 DEF CountForReuse, CheckExists
    <2> QED BY <1>5, <2>1, <2>2
  <1> QED BY <1>6, <1>7, <1>8

LEMMA UploadNow ==
    ASSUME KnownInv, NEW u \in Uploads
    PROVE  /\ UploadFits(upload[u], rows) /\ TempFits(upload[u], temp[u], Relied(u))
           /\ upload[u] \in UploadRecord /\ temp[u] \in TempRecord
           /\ \A j \in Conversions : JobFits(job[j], rows)
           /\ temp \in [Uploads -> TempRecord] /\ job \in [Conversions -> JobRecord]
           /\ files \subseteq Path /\ vfiles \subseteq Path /\ errors \in 0 .. MaxErrors
           /\ left \subseteq Path
  BY StoreTyped DEF KnownInv, RowsAreKnown, TempsHaveOwners, StoreTypeOK

\* The paths an upload writes to, and takes back.
LEMMA UploadPaths ==
    ASSUME KnownInv, NEW u \in Uploads
    PROVE  /\ UpAt(u, "write") => <<upload[u].content, today>> \in Path
           /\ UpAt(u, "undo") => <<upload[u].content, upload[u].day>> \in Path
  BY UploadNow, StoreTyped DEF UpAt, UploadFits, NeedsContent, Path

\* A way out of processAndSaveImage that hands nothing over.
LEMMA ReturnInv ==
    ASSUME KnownInv, NEW u \in Uploads, UpReturn(u), upload[u].pc \notin {"idle", "release", "return"},
           RowsGoOn, files' \subseteq Path, ErrorsKnown,
           UNCHANGED <<temp, vfiles, delete, today, job>>
    PROVE  KnownInv'
  <1>1. PICK r \in UploadRecord : /\ upload' = [upload EXCEPT ![u] = r] /\ UploadFits(r, rows')
                                  /\ r.pc = "return" /\ r.consumed = upload[u].consumed
    BY ReturnRecord
  <1>2. TempFits(upload[u], temp[u], Relied(u)) /\ temp \in [Uploads -> TempRecord]
        /\ job \in [Conversions -> JobRecord] /\ \A j \in Conversions : JobFits(job[j], rows')
    BY UploadNow, NobodyLosesRows
  <1>3. \A v \in Uploads : ReliedThen(v) <=> Relied(v)
    BY DEF Relied, ReliedThen
  <1>4. ~ Relied(u) /\ ~ upload[u].consumed /\ temp[u].request = "owns"
    BY <1>2 DEF TempFits
  <1>5. TempFits(r, temp'[u], ReliedThen(u))
    BY <1>1, <1>3, <1>4 DEF TempFits
  <1>6. /\ temp' \in [Uploads -> TempRecord] /\ job' \in [Conversions -> JobRecord]
        /\ \A j \in Conversions : JobFits(job'[j], rows')
        /\ \A v \in Uploads \ {u} : temp'[v] = temp[v]
    BY <1>2 DEF JobFits
  <1> QED BY <1>1, <1>3, <1>5, <1>6, UploadCloses

\* The same, when the rows stay.
LEMMA GiveUpInv ==
    ASSUME KnownInv, NEW u \in Uploads, Restore(u) \/ UndoSaveFile(u) \/ SaveDeduped(u)
    PROVE  KnownInv'
  <1>1. ErrorsKnown /\ files' \subseteq Path
    <2>1. CASE UndoSaveFile(u)
      <3>1. files' \subseteq files
        BY <2>1 DEF UndoSaveFile
      <3>2. Works \/ FailsLeaving(<<upload[u].content, upload[u].day>>)
        BY <2>1 DEF UndoSaveFile
      <3>3. <<upload[u].content, upload[u].day>> \in Path
        BY <2>1, UploadPaths DEF UndoSaveFile
      <3>4. ErrorsKnown
        BY <3>2, <3>3, ErrorsCounted
      <3> QED BY <3>1, <3>4, UploadNow
    <2>2. CASE Restore(u) \/ SaveDeduped(u)
      BY <2>2, UploadNow, ErrorsStay DEF Restore, SaveDeduped, Works
    <2> QED BY <2>1, <2>2
  <1>2. UpReturn(u) /\ UNCHANGED <<temp, vfiles, delete, today, job>>
        /\ upload[u].pc \in {"restore", "undo", "dedup"}
    BY DEF Restore, UndoSaveFile, SaveDeduped, UpAt, UploadRest
  <1>3. RowsGoOn
    <2>1. CASE UNCHANGED rows
      BY <2>1, RowsStay
    <2>2. CASE SaveDeduped(u) /\ rows' # rows
      <3>1. upload[u].row \in DOMAIN rows /\ upload[u].content \in Contents /\ upload[u].user \in Users
        BY <2>2, UploadNow DEF SaveDeduped, UpAt, UploadFits, NeedsRow, NeedsContent
      <3>2. rows[upload[u].row].path \in Path
        BY <3>1, StoreTyped DEF ImageRow
      <3> QED BY <2>2, <3>1, <3>2, RowAdded DEF SaveDeduped
    <2> QED BY <2>1, <2>2 DEF Restore, UndoSaveFile
  <1> QED BY <1>1, <1>2, <1>3, ReturnInv

LEMMA ReceiveInv ==
    ASSUME KnownInv, NEW u \in Uploads, ReceivePart(u) \/ RejectRequest(u)
    PROVE  KnownInv'
  <1>1. /\ UNCHANGED <<rows, files, vfiles, job, delete, today, errors>> /\ RowsGoOn
        /\ \A v \in Uploads : ReliedThen(v) <=> Relied(v)
        /\ job' \in [Conversions -> JobRecord] /\ \A j \in Conversions : JobFits(job'[j], rows')
        /\ files' \subseteq Path /\ ErrorsKnown
    BY RowsStay, UploadNow, ErrorsStay DEF ReceivePart, RejectRequest, UploadRest, Relied, ReliedThen, JobFits
  <1>2. TempFits(upload[u], temp[u], Relied(u)) /\ upload[u] \in UploadRecord
        /\ temp \in [Uploads -> TempRecord]
    BY UploadNow
  <1>3. ASSUME NEW t \in TempRecord, NEW r \in UploadRecord, r.pc \in {"idle", "parsed"},
               temp' = [temp EXCEPT ![u] = t], upload' = [upload EXCEPT ![u] = r],
               TempFits(r, t, Relied(u))
        PROVE  KnownInv'
    <2>1. temp' \in [Uploads -> TempRecord] /\ temp'[u] = t /\ \A v \in Uploads \ {u} : temp'[v] = temp[v]
      BY <1>2, <1>3
    <2>2. UploadFits(r, rows')
      BY <1>3 DEF UploadFits, NeedsRow, NeedsContent
    <2>3. TempFits(r, temp'[u], ReliedThen(u))
      BY <1>1, <1>3, <2>1 DEF TempFits
    <2> QED BY <1>1, <1>3, <2>1, <2>2, <2>3, UploadCloses
  <1>4. CASE ReceivePart(u)
    <2> DEFINE r == [upload[u] EXCEPT !.pc = "parsed"]
               t == [there |-> TRUE, request |-> "owns"]
    <2>1. r \in UploadRecord /\ r.pc = "parsed" /\ r.consumed = upload[u].consumed
      BY <1>2 DEF UploadRecord, UploadPc
    <2>2. ~ Relied(u) /\ ~ upload[u].consumed
      BY <1>2, <1>4 DEF ReceivePart, UpAt, Relied, TempFits
    <2>3. t \in TempRecord /\ TempFits(r, t, Relied(u))
      BY <2>1, <2>2 DEF TempRecord, TempFits
    <2>4. temp' = [temp EXCEPT ![u] = t] /\ upload' = [upload EXCEPT ![u] = r]
      BY <1>4 DEF ReceivePart
    <2> HIDE DEF r, t
    <2> QED BY <1>3, <2>1, <2>3, <2>4
  <1>5. CASE RejectRequest(u)
    <2>1. ~ Relied(u)
      BY <1>2, <1>5 DEF RejectRequest, UpAt, TempFits
    <2>2. NoTemp \in TempRecord /\ ~ NoTemp.there /\ NoTemp.request = "done"
      BY DEF NoTemp, TempRecord
    <2>3. IdleUpload \in UploadRecord /\ IdleUpload.pc = "idle" /\ ~ IdleUpload.consumed
      BY UploadRecords
    <2>4. TempFits(IdleUpload, NoTemp, Relied(u))
      BY <2>1, <2>2, <2>3 DEF TempFits
    <2> QED BY <1>3, <1>5, <2>2, <2>3, <2>4 DEF RejectRequest
  <1> QED BY <1>4, <1>5

LEMMA SaveFileInv ==
    ASSUME KnownInv, NEW u \in Uploads, SaveFile(u)
    PROVE  KnownInv'
  <1> DEFINE p == <<upload[u].content, today>>
  <1>1. p \in Path /\ upload[u].pc = "write"
    BY UploadNow, StoreTyped DEF SaveFile, UpAt, UploadFits, NeedsContent, Path
  <1>2. files' \subseteq Path /\ ErrorsKnown /\ UNCHANGED rows /\ RowsGoOn
        /\ UNCHANGED <<vfiles, job, delete, today>>
    <2>1. /\ UNCHANGED rows /\ UNCHANGED <<vfiles, job, delete, today>>
          /\ files' \subseteq files \cup {p}
          /\ (left' = left \ {p} /\ UNCHANGED errors) \/ FailsLeaving(p)
      BY DEF SaveFile, UploadRest
    <2>2. CASE left' = left \ {p} /\ UNCHANGED errors
      BY <1>1, <2>1, <2>2, UploadNow, RowsStay DEF ErrorsKnown
    <2>3. CASE FailsLeaving(p)
      BY <1>1, <2>1, <2>3, UploadNow, RowsStay, ErrorsCounted
    <2> QED BY <2>1, <2>2, <2>3
  <1>3. CASE UpReturn(u) /\ UNCHANGED temp
    BY <1>1, <1>2, <1>3, ReturnInv
  <1>4. CASE /\ upload' = [upload EXCEPT ![u].pc = "insert", ![u].day = today]
             /\ \E moved \in BOOLEAN : temp' = [temp EXCEPT ![u].there = @ /\ ~ moved]
    <2>1. PICK moved \in BOOLEAN : temp' = [temp EXCEPT ![u].there = @ /\ ~ moved]
      BY <1>4
    <2> DEFINE r == [upload[u] EXCEPT !.pc = "insert", !.day = today]
               b == temp[u].there /\ ~ moved
               t == [temp[u] EXCEPT !.there = b]
    <2>2. UploadFits(upload[u], rows) /\ TempFits(upload[u], temp[u], Relied(u)) /\ upload[u] \in UploadRecord
          /\ temp \in [Uploads -> TempRecord] /\ today \in Days /\ today \in 0 .. MaxDay
      BY UploadNow, StoreTyped DEF Days
    <2>3. r \in UploadRecord /\ r.pc = "insert" /\ r.day = today /\ r.consumed = upload[u].consumed
          /\ r.content = upload[u].content /\ r.user = upload[u].user
      BY <2>2 DEF UploadRecord, UploadPc
    <2>4. b \in BOOLEAN
      OBVIOUS
    <2>5. temp' = [temp EXCEPT ![u] = t] /\ upload' = [upload EXCEPT ![u] = r]
      BY <1>4, <2>1
    <2> HIDE DEF r, b
    <2>6. t \in TempRecord /\ t.request = temp[u].request
      BY <2>2, <2>4 DEF TempRecord
    <2> HIDE DEF t
    <2>7. temp' \in [Uploads -> TempRecord] /\ temp'[u] = t /\ \A v \in Uploads \ {u} : temp'[v] = temp[v]
      BY <2>2, <2>5, <2>6
    <2>8. \A v \in Uploads : ReliedThen(v) <=> Relied(v)
      BY <1>2 DEF Relied, ReliedThen
    <2>9. TempFits(r, temp'[u], ReliedThen(u))
      <3>1. ~ Relied(u) /\ ~ upload[u].consumed /\ temp[u].request = "owns"
        BY <1>1, <2>2 DEF TempFits
      <3> QED BY <2>3, <2>6, <2>7, <2>8, <3>1 DEF TempFits
    <2>10. UploadFits(r, rows')
      BY <1>1, <2>2, <2>3 DEF UploadFits, NeedsRow, NeedsContent
    <2>11. job' \in [Conversions -> JobRecord] /\ \A j \in Conversions : JobFits(job'[j], rows')
      BY <1>2, UploadNow DEF JobFits
    <2> QED BY <1>2, <2>5, <2>7, <2>8, <2>9, <2>10, <2>11, UploadCloses
  <1> QED BY <1>3, <1>4 DEF SaveFile

LEMMA SaveImageInv ==
    ASSUME KnownInv, NEW u \in Uploads, SaveImage(u)
    PROVE  KnownInv'
  <1>1. /\ UploadFits(upload[u], rows) /\ TempFits(upload[u], temp[u], Relied(u)) /\ upload[u] \in UploadRecord
        /\ temp \in [Uploads -> TempRecord] /\ ErrorsKnown /\ files' \subseteq Path
        /\ upload[u].pc = "insert" /\ UNCHANGED <<files, temp, vfiles, job, delete, today>>
    BY UploadNow, ErrorsStay DEF SaveImage, UpAt, UploadRest
  <1>2. ~ Relied(u) /\ ~ upload[u].consumed /\ temp[u].request = "owns"
    BY <1>1 DEF TempFits
  <1>3. CASE UNCHANGED rows /\ UpGo(u, "undo")
    <2> DEFINE r == [upload[u] EXCEPT !.pc = "undo"]
    <2>1. r \in UploadRecord /\ r.pc = "undo" /\ r.user = upload[u].user /\ r.content = upload[u].content
          /\ r.day = upload[u].day /\ r.consumed = upload[u].consumed
      BY <1>1 DEF UploadRecord, UploadPc
    <2>2. upload' = [upload EXCEPT ![u] = r]
      BY <1>3 DEF UpGo
    <2> HIDE DEF r
    <2>3. UploadFits(r, rows)
      BY <1>1, <2>1 DEF UploadFits, NeedsRow, NeedsContent
    <2>4. TempFits(r, temp[u], Relied(u))
      BY <1>2, <2>1 DEF TempFits
    <2> QED BY <1>1, <1>3, <2>2, <2>3, <2>4, UploadMoves
  <1>4. CASE /\ Len(rows) < MaxRows
             /\ NewRow(upload[u].user, upload[u].content, <<upload[u].content, upload[u].day>>)
             /\ upload' = [upload EXCEPT ![u].pc = "submit", ![u].row = Len(rows) + 1]
    <2> DEFINE r == [upload[u] EXCEPT !.pc = "submit", !.row = Len(rows) + 1]
               p == <<upload[u].content, upload[u].day>>
    <2>1. p \in Path /\ upload[u].content \in Contents /\ upload[u].user \in Users
      BY <1>1 DEF UploadFits, NeedsContent, Path
    <2> HIDE DEF p
    <2>2. RowsGoOn /\ Len(rows) + 1 \in DOMAIN rows' /\ Len(rows) + 1 \in RowId
      BY <1>4, <2>1, RowAdded DEF p
    <2>3. r \in UploadRecord /\ r.pc = "submit" /\ r.row = Len(rows) + 1 /\ r.consumed = upload[u].consumed
      BY <1>1, <2>2 DEF UploadRecord, UploadPc
    <2>4. upload' = [upload EXCEPT ![u] = r]
      BY <1>4
    <2> HIDE DEF r
    <2>5. UploadFits(r, rows')
      BY <2>2, <2>3 DEF UploadFits, NeedsRow, NeedsContent
    <2>6. \A v \in Uploads : ReliedThen(v) <=> Relied(v)
      BY <1>1 DEF Relied, ReliedThen
    <2>7. TempFits(r, temp'[u], ReliedThen(u))
      BY <1>1, <1>2, <2>3, <2>6 DEF TempFits
    <2>8. job' \in [Conversions -> JobRecord] /\ \A j \in Conversions : JobFits(job'[j], rows')
      <3>1. \A j \in Conversions : JobFits(job[j], rows')
        BY <2>2, UploadNow, NobodyLosesRows
      <3> QED BY <1>1, <3>1, UploadNow DEF JobFits
    <2>9. temp' \in [Uploads -> TempRecord] /\ \A v \in Uploads \ {u} : temp'[v] = temp[v]
      BY <1>1
    <2> QED BY <1>1, <2>2, <2>4, <2>5, <2>6, <2>7, <2>8, <2>9, UploadCloses
  <1> QED BY <1>3, <1>4 DEF SaveImage

LEMMA SubmitInv ==
    ASSUME KnownInv, NEW u \in Uploads, SubmitConversion(u)
    PROVE  KnownInv'
  <1>1. /\ UploadFits(upload[u], rows) /\ TempFits(upload[u], temp[u], Relied(u)) /\ upload[u] \in UploadRecord
        /\ temp \in [Uploads -> TempRecord] /\ ErrorsKnown /\ files' \subseteq Path
        /\ upload[u].pc = "submit" /\ UNCHANGED <<rows, files, temp, vfiles, delete, today>>
        /\ RowsGoOn
    BY UploadNow, RowsStay, ErrorsStay DEF SubmitConversion, UpAt
  <1>2. ~ Relied(u) /\ ~ upload[u].consumed /\ temp[u].request = "owns"
    BY <1>1 DEF TempFits
  <1>3. CASE UpReturn(u) /\ UNCHANGED job
    BY <1>1, <1>3, ReturnInv
  <1>4. ASSUME NEW j \in Conversions, job[j].pc = "free",
               job' = [job EXCEPT ![j] = [pc |-> "trigger", row |-> upload[u].row, from |-> u]],
               upload' = [upload EXCEPT ![u].pc = "release", ![u].consumed = TRUE]
        PROVE  KnownInv'
    <2> DEFINE r == [upload[u] EXCEPT !.pc = "release", !.consumed = TRUE]
               q == [pc |-> "trigger", row |-> upload[u].row, from |-> u]
    <2>1. r \in UploadRecord /\ r.pc = "release" /\ r.consumed
      BY <1>1 DEF UploadRecord, UploadPc
    <2>2. q \in JobRecord /\ JobFits(q, rows') /\ q.from = u
      <3>1. upload[u].row \in DOMAIN rows /\ upload[u].row \in RowId
        BY <1>1, StoreTyped DEF UploadFits, NeedsRow
      <3> QED BY <1>1, <3>1 DEF JobRecord, JobFits, JobPc
    <2>3. upload' = [upload EXCEPT ![u] = r] /\ job' = [job EXCEPT ![j] = q]
      BY <1>4
    <2> HIDE DEF r, q
    <2>4. UploadFits(r, rows')
      BY <2>1 DEF UploadFits, NeedsRow, NeedsContent
    <2>5. job[j].from = NoUpload /\ job \in [Conversions -> JobRecord]
      BY <1>4, UploadNow DEF JobFits
    <2>6. job' \in [Conversions -> JobRecord] /\ job'[j] = q
          /\ \A k \in Conversions \ {j} : job'[k] = job[k]
      BY <2>2, <2>3, <2>5
    <2>7. \A k \in Conversions : JobFits(job'[k], rows')
      BY <1>1, <2>2, <2>6, UploadNow DEF JobFits
    <2>8. \A v \in Uploads \ {u} : ReliedThen(v) <=> Relied(v)
      BY <2>2, <2>5, <2>6, StoreAssumption DEF Relied, ReliedThen
    <2>9. ReliedThen(u)
      BY <2>2, <2>6 DEF ReliedThen
    <2>10. TempFits(r, temp'[u], ReliedThen(u))
      BY <1>1, <1>2, <2>1, <2>9 DEF TempFits
    <2>11. temp' \in [Uploads -> TempRecord] /\ \A v \in Uploads \ {u} : temp'[v] = temp[v]
      BY <1>1
    <2> QED BY <1>1, <2>3, <2>4, <2>6, <2>7, <2>8, <2>10, <2>11, UploadCloses
  <1> QED BY <1>3, <1>4 DEF SubmitConversion

LEMMA EndInv ==
    ASSUME KnownInv, NEW u \in Uploads, ReleaseRequestCleanup(u) \/ EndUpload(u)
    PROVE  KnownInv'
  <1>1. /\ UNCHANGED <<rows, files, vfiles, job, delete, today, errors>> /\ RowsGoOn
        /\ \A v \in Uploads : ReliedThen(v) <=> Relied(v)
        /\ job' \in [Conversions -> JobRecord] /\ \A j \in Conversions : JobFits(job'[j], rows')
        /\ files' \subseteq Path /\ ErrorsKnown
    BY RowsStay, UploadNow, ErrorsStay DEF ReleaseRequestCleanup, EndUpload, UploadRest, Relied, ReliedThen, JobFits
  <1>2. TempFits(upload[u], temp[u], Relied(u)) /\ upload[u] \in UploadRecord
        /\ temp \in [Uploads -> TempRecord] /\ temp[u] \in TempRecord
    BY UploadNow
  <1>3. ASSUME NEW t \in TempRecord, NEW r \in UploadRecord, r.pc \in {"idle", "return"},
               temp' = [temp EXCEPT ![u] = t], upload' = [upload EXCEPT ![u] = r],
               TempFits(r, t, Relied(u))
        PROVE  KnownInv'
    <2>1. temp' \in [Uploads -> TempRecord] /\ temp'[u] = t /\ \A v \in Uploads \ {u} : temp'[v] = temp[v]
      BY <1>2, <1>3
    <2>2. UploadFits(r, rows')
      BY <1>3 DEF UploadFits, NeedsRow, NeedsContent
    <2>3. TempFits(r, temp'[u], ReliedThen(u))
      BY <1>1, <1>3, <2>1 DEF TempFits
    <2> QED BY <1>1, <1>3, <2>1, <2>2, <2>3, UploadCloses
  <1>4. CASE ReleaseRequestCleanup(u)
    <2> DEFINE s == IF temp[u].request = "owns" THEN "released" ELSE temp[u].request
               t == [temp[u] EXCEPT !.request = s]
    <2>1. upload[u].consumed /\ temp[u].request = "owns" /\ (~ Relied(u) => ~ temp[u].there)
      BY <1>2, <1>4 DEF TempFits, ReleaseRequestCleanup, UpAt
    <2>2. s = "released" /\ temp' = [temp EXCEPT ![u] = t]
      BY <1>4, <2>1 DEF ReleaseRequestCleanup
    <2> HIDE DEF s
    <2>3. t \in TempRecord /\ t.request = "released" /\ t.there = temp[u].there
      BY <1>2, <2>2 DEF TempRecord
    <2> HIDE DEF t
    <2>4. PICK r \in UploadRecord : /\ upload' = [upload EXCEPT ![u] = r]
                                    /\ r.pc = "return" /\ r.consumed = upload[u].consumed
      BY <1>4, ReturnRecord DEF ReleaseRequestCleanup
    <2>5. TempFits(r, t, Relied(u))
      BY <2>1, <2>3, <2>4 DEF TempFits
    <2> QED BY <1>3, <2>2, <2>3, <2>4, <2>5
  <1>5. CASE EndUpload(u)
    <2> DEFINE b == temp[u].there /\ upload[u].consumed /\ temp[u].request # "owns"
               t == [there |-> b, request |-> "done"]
    <2>1. b \in BOOLEAN /\ temp' = [temp EXCEPT ![u] = t]
      BY <1>5 DEF EndUpload
    <2>2. b => Relied(u)
      BY <1>2, <1>5 DEF EndUpload, UpAt, TempFits
    <2> HIDE DEF b
    <2>3. t \in TempRecord /\ t.there = b /\ t.request = "done"
      BY <2>1 DEF TempRecord
    <2> HIDE DEF t
    <2>4. IdleUpload \in UploadRecord /\ IdleUpload.pc = "idle" /\ ~ IdleUpload.consumed
      BY UploadRecords
    <2>5. TempFits(IdleUpload, t, Relied(u))
      BY <2>2, <2>3, <2>4 DEF TempFits
    <2> QED BY <1>3, <1>5, <2>1, <2>3, <2>4, <2>5 DEF EndUpload
  <1> QED BY <1>4, <1>5

LEMMA UploadKnown ==
    ASSUME KnownInv, NEW u \in Uploads, UploadStep(u)
    PROVE  KnownInv'
  BY FindInv, GiveUpInv, ReceiveInv, SaveFileInv, SaveImageInv, SubmitInv, EndInv DEF UploadStep

---------------------------------------------------------------------------
\* Conversions
\* What a conversion writes into the table: the status of the variant of its row,
\* unless the variant is gone.
LEMMA VariantSet ==
    ASSUME KnownInv, NEW j \in Conversions, job[j].pc # "free",
           NEW v \in {"none", "busy", "completed", "gone"}, SetVariant(j, v)
    PROVE  /\ RowsGoOn /\ DOMAIN rows' = DOMAIN rows /\ job[j].row \in DOMAIN rows
           /\ \A k \in DOMAIN rows : rows'[k].path = rows[k].path /\ rows'[k].live = rows[k].live
           /\ \A k \in DOMAIN rows \ {job[j].row} : rows'[k] = rows[k]
           /\ rows'[job[j].row].variant \in {v, "gone"}
  <1> DEFINE i == job[j].row
             w == IF rows[i].variant = "gone" THEN rows[i].variant ELSE v
  <1>1. i \in DOMAIN rows
    BY UploadNow, StoreTyped DEF KnownInv, RowsAreKnown, JobFits
  <1>2. w \in {v, "gone"} /\ rows' = [rows EXCEPT ![i].variant = w]
    BY DEF SetVariant
  <1> HIDE DEF i, w
  <1>3. /\ RowsGoOn /\ DOMAIN rows' = DOMAIN rows
        /\ \A k \in DOMAIN rows : rows'[k].path = rows[k].path /\ rows'[k].live = rows[k].live
        /\ \A k \in DOMAIN rows \ {i} : rows'[k] = rows[k]
        /\ rows'[i].variant = w
    BY <1>1, <1>2, VariantChanged
  <1> QED BY <1>1, <1>2, <1>3 DEF i

LEMMA JobNow ==
    ASSUME KnownInv, NEW j \in Conversions
    PROVE  JobFits(job[j], rows) /\ job[j] \in JobRecord /\ job \in [Conversions -> JobRecord]
           /\ FreeJob \in JobRecord /\ FreeJob.pc = "free" /\ FreeJob.from = NoUpload
           /\ \A rs : JobFits(FreeJob, rs)
  <1>1. FreeJob \in JobRecord /\ FreeJob.pc = "free" /\ FreeJob.from = NoUpload
    BY StoreAssumption DEF FreeJob, JobRecord, JobPc, NoRow, RowId
  <1> QED BY <1>1, StoreTyped DEF KnownInv, RowsAreKnown, JobFits

\* A conversion lets go of a temp file only when it has removed it.
LEMMA JobCloses ==
    ASSUME KnownInv, NEW j \in Conversions, NEW q, job' = [job EXCEPT ![j] = q], JobFits(q, rows'),
           RowsGoOn, vfiles' \subseteq Path, JobRest,
           temp' \in [Uploads -> TempRecord],
           \A u \in Uploads : temp'[u].request = temp[u].request /\ (temp'[u].there => temp[u].there),
           q.from \in {job[j].from, NoUpload},
           q.from = NoUpload => \A u \in Uploads : u = job[j].from => ~ temp'[u].there
    PROVE  KnownInv'
  <1>1. q \in JobRecord /\ job \in [Conversions -> JobRecord]
    BY JobNow DEF JobFits
  <1>2. job' \in [Conversions -> JobRecord] /\ job'[j] = q /\ \A k \in Conversions \ {j} : job'[k] = job[k]
    BY <1>1
  <1>3. StoreTypeOK'
    BY <1>2 DEF KnownInv, StoreTypeOK, RowsGoOn, JobRest, TempRecord, JobRecord
  <1>4. RowsAreKnown'
    <2>1. \A v \in Uploads : UploadFits(upload'[v], rows')
      BY NobodyLosesRows DEF KnownInv, RowsAreKnown, JobRest
    <2>2. \A d \in Deletes : DeleteFits(delete'[d], rows')
      BY NobodyLosesRows DEF KnownInv, RowsAreKnown, JobRest
    <2>3. \A k \in Conversions : JobFits(job'[k], rows')
      BY <1>2, NobodyLosesRows DEF KnownInv, RowsAreKnown
    <2> QED BY <2>1, <2>2, <2>3 DEF RowsAreKnown, UploadFits, JobFits, DeleteFits
  <1>5. ASSUME NEW u \in Uploads PROVE TempFits(upload'[u], temp'[u], ReliedThen(u))
    <2>1. ReliedThen(u) => Relied(u)
      BY <1>2, StoreAssumption DEF Relied, ReliedThen
    <2>2. Relied(u) /\ ~ ReliedThen(u) => ~ temp'[u].there
      BY <1>2 DEF Relied, ReliedThen
    <2>3. TempFits(upload[u], temp[u], Relied(u))
      BY DEF KnownInv, TempsHaveOwners
    <2>4. upload'[u] = upload[u]
      BY DEF JobRest
    <2> QED BY <2>1, <2>2, <2>3, <2>4 DEF TempFits
  <1>6. TempsHaveOwners'
    BY <1>5 DEF TempsHaveOwners, TempFits, Relied, ReliedThen
  <1> QED BY <1>3, <1>4, <1>6 DEF KnownInv

LEMMA TempDropped ==
    ASSUME KnownInv, NEW j \in Conversions, DropTemp(j)
    PROVE  /\ temp' \in [Uploads -> TempRecord]
           /\ \A u \in Uploads : temp'[u].request = temp[u].request /\ (temp'[u].there => temp[u].there)
           /\ \A u \in Uploads : u = job[j].from => ~ temp'[u].there
  <1>1. \A u \in Uploads : LET t == [temp[u] EXCEPT !.there = FALSE]
                           IN  t \in TempRecord /\ t.request = temp[u].request /\ ~ t.there
    BY StoreTyped DEF TempRecord
  <1> QED BY <1>1, StoreTyped DEF DropTemp

LEMMA TempKept ==
    ASSUME KnownInv, UNCHANGED temp
    PROVE  /\ temp' \in [Uploads -> TempRecord]
           /\ \A u \in Uploads : temp'[u].request = temp[u].request /\ (temp'[u].there => temp[u].there)
  BY StoreTyped

LEMMA ConversionInv ==
    ASSUME KnownInv, NEW j \in Conversions, JobStep(j)
    PROVE  KnownInv'
  <1>1. JobFits(job[j], rows) /\ job[j] \in JobRecord /\ job \in [Conversions -> JobRecord]
        /\ FreeJob \in JobRecord /\ FreeJob.pc = "free" /\ FreeJob.from = NoUpload
        /\ \A rs : JobFits(FreeJob, rs)
        /\ vfiles \subseteq Path /\ NoUpload \notin Uploads
    BY JobNow, StoreAssumption DEF KnownInv, StoreTypeOK
  <1>2. ASSUME NEW s \in {"pipeline", "settle"}, JobGo(j, s), job[j].pc # "free",
               s = "settle" => job[j].from = NoUpload,
               UNCHANGED temp, JobRest, RowsGoOn, vfiles' \subseteq Path
        PROVE  KnownInv'
    <2> DEFINE q == [job[j] EXCEPT !.pc = s]
    <2>1. q \in JobRecord /\ q.pc = s /\ q.row = job[j].row /\ q.from = job[j].from
      BY <1>1 DEF JobRecord, JobPc
    <2>2. job' = [job EXCEPT ![j] = q]
      BY <1>2 DEF JobGo
    <2> HIDE DEF q
    <2>3. JobFits(q, rows')
      BY <1>1, <1>2, <2>1 DEF JobFits, RowsGoOn
    <2>4. q.from = NoUpload => \A u \in Uploads : u = job[j].from => ~ temp'[u].there
      BY <1>1, <2>1
    <2> QED BY <1>2, <2>1, <2>2, <2>3, <2>4, TempKept, JobCloses
  <1>3. ASSUME EndConversion(j), JobRest, RowsGoOn, vfiles' \subseteq Path,
               DropTemp(j) \/ (UNCHANGED temp /\ job[j].from = NoUpload)
        PROVE  KnownInv'
    <2>1. /\ temp' \in [Uploads -> TempRecord]
          /\ \A u \in Uploads : temp'[u].request = temp[u].request /\ (temp'[u].there => temp[u].there)
          /\ \A u \in Uploads : u = job[j].from => ~ temp'[u].there
      BY <1>1, <1>3, TempDropped, TempKept
    <2> QED BY <1>1, <1>3, <2>1, JobCloses DEF EndConversion
  <1>4. CASE View(j)
    <2>1. PICK i \in Live : job' = [job EXCEPT ![j] = [FreeJob EXCEPT !.pc = "trigger", !.row = i]]
      BY <1>4 DEF View
    <2> DEFINE q == [FreeJob EXCEPT !.pc = "trigger", !.row = i]
    <2>2. i \in DOMAIN rows /\ i \in RowId
      BY StoreTyped
    <2>3. q \in JobRecord /\ q.pc = "trigger" /\ q.row = i /\ q.from = FreeJob.from
      BY <1>1, <2>2 DEF JobRecord, JobPc
    <2>4. job[j].from = NoUpload /\ UNCHANGED <<rows, vfiles, temp>> /\ JobRest
      BY <1>1, <1>4 DEF View, JobFits
    <2> HIDE DEF q
    <2>5. RowsGoOn /\ JobFits(q, rows') /\ q.from = NoUpload
      BY <1>1, <2>2, <2>3, <2>4, RowsStay DEF JobFits
    <2>6. \A u \in Uploads : u = job[j].from => ~ temp'[u].there
      BY <1>1, <2>4
    <2>7. job' = [job EXCEPT ![j] = q]
      BY <2>1 DEF q
    <2> QED BY <1>1, <2>4, <2>5, <2>6, <2>7, TempKept, JobCloses
  <1>5. CASE Trigger(j)
    <2>1. CASE SetVariant(j, "busy") /\ JobGo(j, "pipeline") /\ UNCHANGED temp
      BY <1>1, <1>2, <1>5, <2>1, VariantSet DEF Trigger
    <2>2. CASE EndConversion(j) /\ DropTemp(j) /\ UNCHANGED rows
      BY <1>1, <1>3, <1>5, <2>2, RowsStay DEF Trigger
    <2> QED BY <1>5, <2>1, <2>2 DEF Trigger
  <1>6. CASE ReadSource(j)
    <2>1. job[j].pc = "pipeline" /\ DropTemp(j) /\ vfiles' \subseteq Path /\ JobRest
      BY <1>1, <1>6 DEF ReadSource
    <2>2. CASE job' = [job EXCEPT ![j].pc = "read", ![j].from = NoUpload] /\ UNCHANGED rows
      <3> DEFINE q == [job[j] EXCEPT !.pc = "read", !.from = NoUpload]
      <3>1. q \in JobRecord /\ q.pc = "read" /\ q.row = job[j].row /\ q.from = NoUpload
        BY <1>1 DEF JobRecord, JobPc
      <3>2. job' = [job EXCEPT ![j] = q]
        BY <2>2
      <3> HIDE DEF q
      <3>3. RowsGoOn /\ JobFits(q, rows')
        BY <1>1, <2>1, <2>2, <3>1, RowsStay DEF JobFits
      <3> QED BY <2>1, <3>1, <3>2, <3>3, TempDropped, JobCloses
    <2>3. CASE EndConversion(j) /\ SetVariant(j, "none")
      BY <1>3, <2>1, <2>3, VariantSet
    <2> QED BY <1>6, <2>2, <2>3 DEF ReadSource
  <1>7. CASE SaveVariantFile(j)
    <2>1. job[j].pc = "read" /\ job[j].from = NoUpload /\ job[j].row \in DOMAIN rows
      BY <1>1, <1>7 DEF SaveVariantFile, JobFits
    <2>2. VariantPath(job[j].row) \in Path
      BY <2>1, StoreTyped DEF VariantPath, ImageRow
    <2>3. RowsGoOn /\ vfiles' \subseteq Path
      BY <1>1, <1>7, <2>2, RowsStay DEF SaveVariantFile
    <2> QED BY <1>2, <1>7, <2>1, <2>3 DEF SaveVariantFile
  <1>8. CASE CompleteVariant(j)
    <2>1. job[j].pc = "settle" /\ job[j].from = NoUpload
      BY <1>1, <1>8 DEF CompleteVariant, JobFits
    <2>2. RowsGoOn
      BY <1>8, <2>1, VariantSet DEF CompleteVariant
    <2> QED BY <1>1, <1>3, <1>8, <2>1, <2>2 DEF CompleteVariant
  <1> QED BY <1>4, <1>5, <1>6, <1>7, <1>8 DEF JobStep
---------------------------------------------------------------------------
\* Deletions

LEMMA DeleteNow ==
    ASSUME KnownInv, NEW d \in Deletes
    PROVE  /\ DeleteFits(delete[d], rows) /\ delete[d] \in DeleteRecord
           /\ delete \in [Deletes -> DeleteRecord]
           /\ IdleDelete \in DeleteRecord /\ IdleDelete.pc = "idle" /\ \A rs : DeleteFits(IdleDelete, rs)
           /\ errors \in 0 .. MaxErrors /\ files \subseteq Path /\ vfiles \subseteq Path
  <1>1. /\ IdleDelete \in DeleteRecord /\ IdleDelete.pc = "idle"
        /\ IdleDelete.todo = {} /\ IdleDelete.refs = {}
    BY StoreAssumption DEF IdleDelete, DeleteRecord, DeletePc, NoRow, RowId
  <1> QED BY <1>1, StoreTyped DEF KnownInv, RowsAreKnown, DeleteFits, StoreTypeOK

LEMMA DeleteCloses ==
    ASSUME KnownInv, NEW d \in Deletes, NEW q, delete' = [delete EXCEPT ![d] = q],
           DeleteFits(q, rows'), RowsGoOn, files' \subseteq Path, vfiles' \subseteq Path,
           ErrorsKnown, DelRest
    PROVE  KnownInv'
  <1>1. delete' \in [Deletes -> DeleteRecord] /\ delete'[d] = q
        /\ \A e \in Deletes \ {d} : delete'[e] = delete[e]
    BY DeleteNow DEF DeleteFits
  <1>2. StoreTypeOK'
    BY <1>1 DEF KnownInv, StoreTypeOK, RowsGoOn, DelRest, DeleteRecord, ErrorsKnown
  <1>3. RowsAreKnown'
    <2>1. \A v \in Uploads : UploadFits(upload'[v], rows')
      BY NobodyLosesRows DEF KnownInv, RowsAreKnown, DelRest
    <2>2. \A j \in Conversions : JobFits(job'[j], rows')
      BY NobodyLosesRows DEF KnownInv, RowsAreKnown, DelRest
    <2>3. \A e \in Deletes : DeleteFits(delete'[e], rows')
      BY <1>1, NobodyLosesRows DEF KnownInv, RowsAreKnown
    <2> QED BY <2>1, <2>2, <2>3 DEF RowsAreKnown, UploadFits, JobFits, DeleteFits
  <1>4. TempsHaveOwners'
    BY DEF KnownInv, TempsHaveOwners, TempFits, Relied, DelRest
  <1> QED BY <1>2, <1>3, <1>4 DEF KnownInv

LEMMA DeletionKnown ==
    ASSUME KnownInv, NEW d \in Deletes, BeginDelete(d) \/ DeleteStep(d)
    PROVE  KnownInv'
  <1>1. /\ DeleteFits(delete[d], rows) /\ delete[d] \in DeleteRecord /\ delete \in [Deletes -> DeleteRecord]
        /\ IdleDelete \in DeleteRecord /\ IdleDelete.pc = "idle" /\ \A rs : DeleteFits(IdleDelete, rs)
        /\ errors \in 0 .. MaxErrors /\ files \subseteq Path /\ vfiles \subseteq Path
    BY DeleteNow
  <1>2. CASE BeginDelete(d)
    <2>1. PICK user \in Users, cs \in SUBSET Contents, s \in {"first", "tx"} :
             delete' = [delete EXCEPT ![d] = [IdleDelete EXCEPT !.pc = s, !.user = user, !.contents = cs]]
      BY <1>2 DEF BeginDelete
    <2> DEFINE q == [IdleDelete EXCEPT !.pc = s, !.user = user, !.contents = cs]
    <2>2. q \in DeleteRecord /\ q.pc = s /\ q.todo = IdleDelete.todo /\ q.refs = IdleDelete.refs
      BY <1>1 DEF DeleteRecord, DeletePc
    <2>3. delete' = [delete EXCEPT ![d] = q]
      BY <2>1
    <2> HIDE DEF q
    <2>4. DeleteFits(q, rows')
      BY <1>1, <2>2 DEF DeleteFits
    <2> QED BY <1>1, <1>2, <2>3, <2>4, RowsStay, ErrorsStay, DeleteCloses DEF BeginDelete
  <1>3. ASSUME EndDelete(d), UNCHANGED rows, files' \subseteq Path, vfiles' \subseteq Path,
               ErrorsKnown, DelRest
        PROVE  KnownInv'
    BY <1>1, <1>3, RowsStay, DeleteCloses DEF EndDelete
  <1>4. CASE CheckOwner(d)
    <2>1. UNCHANGED <<rows, files, vfiles>> /\ ErrorsKnown /\ DelRest /\ delete[d].pc = "first"
      BY <1>4, ErrorsStay DEF CheckOwner, DelAt
    <2>2. ASSUME DelGo(d, "tx") PROVE KnownInv'
      <3> DEFINE q == [delete[d] EXCEPT !.pc = "tx"]
      <3>1. q \in DeleteRecord /\ q.pc = "tx" /\ q.todo = delete[d].todo /\ q.refs = delete[d].refs
        BY <1>1 DEF DeleteRecord, DeletePc
      <3>2. delete' = [delete EXCEPT ![d] = q]
        BY <2>2 DEF DelGo
      <3> HIDE DEF q
      <3>3. DeleteFits(q, rows')
        BY <1>1, <2>1, <3>1 DEF DeleteFits
      <3> QED BY <1>1, <2>1, <3>2, <3>3, RowsStay, DeleteCloses
    <2>3. EndDelete(d) \/ DelGo(d, "tx")
      BY <1>4 DEF CheckOwner
    <2> QED BY <1>1, <1>3, <2>1, <2>2, <2>3
  <1>5. CASE DeleteTransaction(d)
    <2> DEFINE S == Doomed(d)
    <2>1. UNCHANGED <<files, vfiles>> /\ ErrorsKnown /\ DelRest /\ delete[d].pc = "tx"
      BY <1>5, ErrorsStay DEF DeleteTransaction, DelAt
    <2>2. S \in SUBSET DOMAIN rows /\ S \in SUBSET RowId
      BY StoreTyped DEF Doomed
    <2>3. CASE /\ rows' = [i \in DOMAIN rows |->
                             IF i \in S THEN [rows[i] EXCEPT !.live = FALSE] ELSE rows[i]]
               /\ delete' = [delete EXCEPT ![d].pc = "vfiles", ![d].todo = S, ![d].refs = S]
      <3> HIDE DEF S
      <3> DEFINE q == [delete[d] EXCEPT !.pc = "vfiles", !.todo = S, !.refs = S]
      <3>1. q \in DeleteRecord /\ q.pc = "vfiles" /\ q.todo = S /\ q.refs = S
        BY <1>1, <2>2 DEF DeleteRecord, DeletePc
      <3>2. delete' = [delete EXCEPT ![d] = q]
        BY <2>3
      <3> HIDE DEF q
      <3>3. RowsGoOn /\ DOMAIN rows' = DOMAIN rows /\ \A i \in S : ~ rows'[i].live
        BY <2>2, <2>3, RowsDeleted
      <3>4. DeleteFits(q, rows')
        BY <2>2, <3>1, <3>3 DEF DeleteFits
      <3> QED BY <1>1, <2>1, <3>2, <3>3, <3>4, DeleteCloses
    <2>4. CASE EndDelete(d) /\ UNCHANGED rows
      BY <1>1, <1>3, <2>1, <2>4
    <2> QED BY <1>5, <2>3, <2>4 DEF DeleteTransaction
  <1>6. CASE DeleteVariantFiles(d)
    <2>1. /\ vfiles' \subseteq Path /\ ErrorsKnown /\ UNCHANGED <<rows, files>> /\ DelRest
          /\ delete[d].pc = "vfiles"
      BY <1>1, <1>6, ErrorsCounted DEF DeleteVariantFiles, DelAt
    <2>2. ASSUME NEW i \in delete[d].todo, delete' = [delete EXCEPT ![d].pc = "vrows", ![d].row = i]
          PROVE  KnownInv'
      <3> DEFINE q == [delete[d] EXCEPT !.pc = "vrows", !.row = i]
      <3>1. i \in DOMAIN rows /\ i \in RowId
        BY <1>1, StoreTyped DEF DeleteFits
      <3>2. q \in DeleteRecord /\ q.pc = "vrows" /\ q.row = i /\ q.todo = delete[d].todo /\ q.refs = delete[d].refs
        BY <1>1, <3>1 DEF DeleteRecord, DeletePc
      <3>3. delete' = [delete EXCEPT ![d] = q]
        BY <2>2
      <3> HIDE DEF q
      <3>4. DeleteFits(q, rows')
        BY <1>1, <2>1, <3>1, <3>2 DEF DeleteFits
      <3> QED BY <1>1, <2>1, <3>3, <3>4, RowsStay, DeleteCloses
    <2>3. ASSUME NEW i \in delete[d].todo, NEW s \in {"count", "vfiles"},
                 delete' = [delete EXCEPT ![d].todo = delete[d].todo \ {i}, ![d].pc = s]
          PROVE  KnownInv'
      <3> DEFINE q == [delete[d] EXCEPT !.todo = delete[d].todo \ {i}, !.pc = s]
      <3>1. q \in DeleteRecord /\ q.pc = s /\ q.todo = delete[d].todo \ {i} /\ q.refs = delete[d].refs
        BY <1>1 DEF DeleteRecord, DeletePc
      <3>2. delete' = [delete EXCEPT ![d] = q]
        BY <2>3
      <3> HIDE DEF q
      <3>3. DeleteFits(q, rows')
        BY <1>1, <2>1, <2>3, <3>1 DEF DeleteFits
      <3> QED BY <1>1, <2>1, <3>2, <3>3, RowsStay, DeleteCloses
    <2>4. \E i \in delete[d].todo :
             \/ delete' = [delete EXCEPT ![d].pc = "vrows", ![d].row = i]
             \/ \E s \in {"count", "vfiles"} :
                   delete' = [delete EXCEPT ![d].todo = delete[d].todo \ {i}, ![d].pc = s]
      BY <1>6 DEF DeleteVariantFiles, AfterVariants
    <2> QED BY <2>2, <2>3, <2>4
  <1>7. CASE DeleteVariantRows(d)
    <2> DEFINE i == delete[d].row
               rest == delete[d].todo \ {i}
               s == AfterVariants(rest)
               w == IF rows[i].variant = "none" THEN rows[i].variant ELSE "gone"
               q == [delete[d] EXCEPT !.todo = rest, !.row = NoRow, !.pc = s]
    <2>1. i \in DOMAIN rows
      BY <1>1, <1>7 DEF DeleteVariantRows, DelAt, DeleteFits
    <2>2. (rows' = [rows EXCEPT ![i].variant = w] \/ UNCHANGED rows) /\ w \in {"none", "gone"}
      BY <1>7 DEF DeleteVariantRows
    <2>3. delete' = [delete EXCEPT ![d] = q]
      BY <1>7 DEF DeleteVariantRows
    <2>4. s \in {"count", "vfiles"} /\ s \in DeletePc /\ NoRow \in RowId
      BY StoreAssumption DEF NoRow, RowId, DeletePc, AfterVariants
    <2> HIDE DEF i, s, w
    <2>5. RowsGoOn /\ DOMAIN rows' = DOMAIN rows
          /\ \A k \in DOMAIN rows : rows'[k].live = rows[k].live
      BY <2>1, <2>2, VariantChanged, RowsStay
    <2>6. q \in DeleteRecord /\ q.pc = s /\ q.todo = rest /\ q.refs = delete[d].refs
      BY <1>1, <2>4 DEF DeleteRecord
    <2> HIDE DEF q
    <2>7. DeleteFits(q, rows')
      BY <1>1, <2>4, <2>5, <2>6 DEF DeleteFits
    <2>8. ErrorsKnown
      BY <1>7, ErrorsCounted DEF DeleteVariantRows
    <2> QED BY <1>1, <1>7, <2>3, <2>5, <2>7, <2>8, DeleteCloses DEF DeleteVariantRows
  <1>8. CASE CountReferences(d)
    <2>1. UNCHANGED <<rows, files, vfiles>> /\ DelRest /\ delete[d].pc = "count"
      BY <1>8 DEF CountReferences, DelAt
    <2>0. ErrorsKnown
      <3>1. \A i \in delete[d].refs : rows[i].path \in Path
        BY <1>1, StoreTyped DEF DeleteFits, ImageRow
      <3>2. Works \/ \E i \in delete[d].refs : FailsLeaving(rows[i].path)
        BY <1>8 DEF CountReferences
      <3> QED BY <3>1, <3>2, ErrorsCounted
    <2>2. CASE EndDelete(d)
      BY <1>1, <1>3, <2>0, <2>1, <2>2
    <2>3. ASSUME NEW i \in delete[d].refs, delete' = [delete EXCEPT ![d].refs = @ \ {i}]
          PROVE  KnownInv'
      <3> DEFINE q == [delete[d] EXCEPT !.refs = delete[d].refs \ {i}]
      <3>1. q \in DeleteRecord /\ q.pc = "count" /\ q.todo = delete[d].todo /\ q.refs = delete[d].refs \ {i}
        BY <1>1, <2>1 DEF DeleteRecord
      <3>2. delete' = [delete EXCEPT ![d] = q]
        BY <2>3
      <3> HIDE DEF q
      <3>3. DeleteFits(q, rows')
        BY <1>1, <2>1, <3>1 DEF DeleteFits
      <3> QED BY <1>1, <2>0, <2>1, <3>2, <3>3, RowsStay, DeleteCloses
    <2>4. ASSUME NEW i \in delete[d].refs,
                 delete' = [delete EXCEPT ![d].refs = @ \ {i}, ![d].pc = "unlink",
                                          ![d].row = i, ![d].seen = Len(rows)]
          PROVE  KnownInv'
      <3> DEFINE q == [delete[d] EXCEPT !.refs = delete[d].refs \ {i}, !.pc = "unlink",
                                        !.row = i, !.seen = Len(rows)]
      <3>1. i \in DOMAIN rows /\ i \in RowId /\ Len(rows) \in RowId
        BY <1>1, StoreTyped, StoreAssumption DEF DeleteFits, RowId
      <3>2. q \in DeleteRecord /\ q.pc = "unlink" /\ q.todo = delete[d].todo
            /\ q.refs = delete[d].refs \ {i} /\ q.row = i
        BY <1>1, <3>1 DEF DeleteRecord, DeletePc
      <3>3. delete' = [delete EXCEPT ![d] = q]
        BY <2>4
      <3> HIDE DEF q
      <3>4. DeleteFits(q, rows')
        BY <1>1, <2>1, <3>1, <3>2 DEF DeleteFits
      <3> QED BY <1>1, <2>0, <2>1, <3>3, <3>4, RowsStay, DeleteCloses
    <2> QED BY <1>8, <2>2, <2>3, <2>4 DEF CountReferences
  <1>9. CASE DeleteFile(d)
    <2> DEFINE q == [delete[d] EXCEPT !.pc = "count", !.row = NoRow, !.seen = 0]
    <2>1. NoRow \in RowId /\ 0 \in RowId
      BY StoreAssumption DEF NoRow, RowId
    <2>2. q \in DeleteRecord /\ q.pc = "count" /\ q.todo = delete[d].todo /\ q.refs = delete[d].refs
      BY <1>1, <2>1 DEF DeleteRecord, DeletePc
    <2>3. delete' = [delete EXCEPT ![d] = q] /\ files' \subseteq Path /\ UNCHANGED <<rows, vfiles>> /\ DelRest
      BY <1>1, <1>9 DEF DeleteFile
    <2> HIDE DEF q
    <2>4. DeleteFits(q, rows')
      BY <1>1, <2>2, <2>3 DEF DeleteFits
    <2>5. ErrorsKnown
      <3>1. rows[delete[d].row].path \in Path
        BY <1>1, <1>9, StoreTyped DEF DeleteFile, DelAt, DeleteFits, ImageRow
      <3>2. Works \/ FailsLeaving(rows[delete[d].row].path)
        BY <1>9 DEF DeleteFile
      <3> QED BY <3>1, <3>2, ErrorsCounted
    <2> QED BY <1>1, <2>3, <2>4, <2>5, RowsStay, DeleteCloses
  <1> QED BY <1>2, <1>4, <1>5, <1>6, <1>7, <1>8, <1>9 DEF DeleteStep
---------------------------------------------------------------------------
\* The store as a whole

LEMMA KnownInit == StoreInit => KnownInv
  <1> SUFFICES ASSUME StoreInit PROVE KnownInv
    OBVIOUS
  <1>1. IdleUpload \in UploadRecord /\ IdleUpload.pc = "idle" /\ ~ IdleUpload.consumed
    BY StoreAssumption DEF IdleUpload, UploadRecord, UploadPc, NoRow, RowId
  <1>2. FreeJob \in JobRecord /\ FreeJob.pc = "free" /\ FreeJob.from = NoUpload
    BY StoreAssumption DEF FreeJob, JobRecord, JobPc, NoRow, RowId
  <1>3. IdleDelete \in DeleteRecord /\ IdleDelete.pc = "idle" /\ IdleDelete.todo = {} /\ IdleDelete.refs = {}
    BY StoreAssumption DEF IdleDelete, DeleteRecord, DeletePc, NoRow, RowId
  <1>4. NoTemp \in TempRecord /\ ~ NoTemp.there /\ NoTemp.request = "done"
    BY DEF NoTemp, TempRecord
  <1>5. rows = <<>> /\ rows \in Seq(ImageRow) /\ Len(rows) <= MaxRows
    BY StoreAssumption DEF StoreInit
  <1>6. StoreTypeOK
    <2>1. upload \in [Uploads -> UploadRecord] /\ job \in [Conversions -> JobRecord]
          /\ delete \in [Deletes -> DeleteRecord] /\ temp \in [Uploads -> TempRecord]
      BY <1>1, <1>2, <1>3, <1>4 DEF StoreInit
    <2>2. today \in Days /\ errors \in 0 .. MaxErrors /\ files \subseteq Path /\ vfiles \subseteq Path
          /\ left \subseteq Path
      BY StoreAssumption DEF StoreInit, Days
    <2> QED BY <1>5, <2>1, <2>2 DEF StoreTypeOK, UploadRecord, JobRecord, DeleteRecord, TempRecord
  <1>7. RowsAreKnown
    <2>1. \A u \in Uploads : UploadFits(upload[u], rows)
      BY <1>1 DEF StoreInit, UploadFits, NeedsRow, NeedsContent
    <2>2. \A j \in Conversions : JobFits(job[j], rows)
      BY <1>2 DEF StoreInit, JobFits
    <2>3. \A d \in Deletes : DeleteFits(delete[d], rows)
      BY <1>3 DEF StoreInit, DeleteFits
    <2> QED BY <2>1, <2>2, <2>3 DEF RowsAreKnown
  <1>8. TempsHaveOwners
    <2>1. \A u \in Uploads : upload[u] = IdleUpload /\ temp[u] = NoTemp
      BY DEF StoreInit
    <2> QED BY <1>1, <1>4, <2>1 DEF TempsHaveOwners, TempFits
  <1> QED BY <1>6, <1>7, <1>8 DEF KnownInv

LEMMA MidnightInv ==
    ASSUME KnownInv, Midnight
    PROVE  KnownInv'
  <1>1. today' \in Days
    BY StoreTyped, StoreAssumption DEF Midnight, Days
  <1>2. StoreTypeOK'
    BY <1>1 DEF KnownInv, StoreTypeOK, Midnight
  <1>3. RowsAreKnown'
    BY DEF KnownInv, RowsAreKnown, UploadFits, JobFits, DeleteFits, Midnight
  <1>4. TempsHaveOwners'
    BY DEF KnownInv, TempsHaveOwners, TempFits, Relied, Midnight
  <1> QED BY <1>2, <1>3, <1>4 DEF KnownInv

LEMMA CleanInv ==
    ASSUME KnownInv, CleanTempFiles
    PROVE  KnownInv'
  <1>1. \A u \in Uploads : LET t == [temp[u] EXCEPT !.there = FALSE]
                           IN  t \in TempRecord /\ t.request = temp[u].request /\ ~ t.there
    BY StoreTyped DEF TempRecord
  <1>2. temp' \in [Uploads -> TempRecord]
        /\ \A u \in Uploads : temp'[u].request = temp[u].request /\ ~ temp'[u].there
    BY <1>1 DEF CleanTempFiles
  <1>3. StoreTypeOK'
    BY <1>2 DEF KnownInv, StoreTypeOK, CleanTempFiles, TempRecord
  <1>4. RowsAreKnown'
    BY DEF KnownInv, RowsAreKnown, UploadFits, JobFits, DeleteFits, CleanTempFiles
  <1>5. TempsHaveOwners'
    BY <1>2 DEF KnownInv, TempsHaveOwners, TempFits, Relied, CleanTempFiles
  <1> QED BY <1>3, <1>4, <1>5 DEF KnownInv

LEMMA KnownStep ==
    ASSUME KnownInv, [StoreNext]_storeVars
    PROVE  KnownInv'
  <1>1. CASE UNCHANGED storeVars
    <2>1. StoreTypeOK'
      BY <1>1 DEF KnownInv, StoreTypeOK, storeVars
    <2>2. RowsAreKnown'
      BY <1>1 DEF KnownInv, RowsAreKnown, UploadFits, JobFits, DeleteFits, storeVars
    <2>3. TempsHaveOwners'
      BY <1>1 DEF KnownInv, TempsHaveOwners, TempFits, Relied, storeVars
    <2> QED BY <2>1, <2>2, <2>3 DEF KnownInv
  <1> QED BY <1>1, UploadKnown, ConversionInv, DeletionKnown, MidnightInv, CleanInv DEF StoreNext

LEMMA KnownAlways == StoreSpec => []KnownInv
  BY KnownInit, KnownStep, PTL DEF StoreSpec

\* The store keeps its types.
THEOREM StoreTypes == StoreSpec => []StoreTypeOK
  <1>1. KnownInv => StoreTypeOK
    BY DEF KnownInv
  <1> QED BY <1>1, KnownAlways, PTL

\* Every temp file of an upload is removed once its request has returned and no
\* conversion has it, whatever happened in between (processAndSaveImage's
\* deferred cleanup, triggerConversion, Execute).
THEOREM TempFilesAreRemoved == StoreSpec => []TempFilesEnd
  <1>1. KnownInv => TempFilesEnd
    BY DEF KnownInv, TempsHaveOwners, TempFits, Relied, TempFilesEnd
  <1> QED BY <1>1, KnownAlways, PTL

\* A temp file is either the request's or the conversion's to remove, except
\* between the submission and releaseRequestCleanup.
THEOREM TempFilesHaveOneOwner == StoreSpec => []OneOwnerOfTempFile
  <1>1. KnownInv => OneOwnerOfTempFile
    BY DEF KnownInv, TempsHaveOwners, TempFits, Relied, OneOwnerOfTempFile
  <1> QED BY <1>1, KnownAlways, PTL
---------------------------------------------------------------------------
\* Reference counts

LEMMA RowsStep ==
    ASSUME KnownInv, [StoreNext]_storeVars
    PROVE  RowsGoOn
  <1>1. CASE UNCHANGED rows
    BY <1>1, RowsStay
  <1>2. ASSUME NEW u \in Uploads, SaveDeduped(u) \/ SaveImage(u), rows' # rows PROVE RowsGoOn
    <2>1. UploadFits(upload[u], rows) /\ upload[u].pc \in {"dedup", "insert"}
      BY <1>2, UploadNow DEF SaveDeduped, SaveImage, UpAt
    <2>2. upload[u].user \in Users /\ upload[u].content \in Contents
      BY <2>1 DEF UploadFits, NeedsContent
    <2>3. SaveDeduped(u) => rows[upload[u].row].path \in Path
      BY <2>1, StoreTyped DEF SaveDeduped, UpAt, UploadFits, NeedsRow, ImageRow
    <2>4. SaveImage(u) => <<upload[u].content, upload[u].day>> \in Path
      BY <2>1, <2>2 DEF SaveImage, UpAt, UploadFits, Path
    <2> QED BY <1>2, <2>2, <2>3, <2>4, RowAdded DEF SaveDeduped, SaveImage
  <1>3. ASSUME NEW j \in Conversions, JobStep(j), rows' # rows PROVE RowsGoOn
    BY <1>3, VariantSet DEF JobStep, View, Trigger, ReadSource, SaveVariantFile, CompleteVariant
  <1>4. ASSUME NEW d \in Deletes, DeleteStep(d), rows' # rows PROVE RowsGoOn
    <2>1. CASE DeleteTransaction(d)
      <3>1. Doomed(d) \in SUBSET DOMAIN rows
        BY StoreTyped DEF Doomed
      <3> QED BY <1>4, <2>1, <3>1, RowsDeleted DEF DeleteTransaction
    <2>2. CASE DeleteVariantRows(d)
      <3> DEFINE i == delete[d].row
                 w == IF rows[i].variant = "none" THEN rows[i].variant ELSE "gone"
      <3>1. i \in DOMAIN rows
        BY <2>2, DeleteNow DEF DeleteVariantRows, DelAt, DeleteFits
      <3>2. rows' = [rows EXCEPT ![i].variant = w] /\ w \in {"none", "gone"}
        BY <1>4, <2>2 DEF DeleteVariantRows
      <3> HIDE DEF i, w
      <3> QED BY <3>1, <3>2, VariantChanged
    <2> QED BY <1>4, <2>1, <2>2 DEF DeleteStep, CheckOwner, DeleteVariantFiles, CountReferences, DeleteFile
  <1>5. ASSUME NEW u \in Uploads, UploadStep(u), rows' # rows PROVE SaveDeduped(u) \/ SaveImage(u)
    BY <1>5 DEF UploadStep, ReceivePart, RejectRequest, FindByHash, FindDeletedByHash, CountForReuse,
         CheckExists, Restore, SaveFile, UndoSaveFile, SubmitConversion, ReleaseRequestCleanup, EndUpload
  <1> QED BY <1>1, <1>2, <1>3, <1>4, <1>5 DEF StoreNext, BeginDelete, Midnight, CleanTempFiles, storeVars

\* Between the count and the removal of a file the rows that were counted stay
\* deleted: what is live on the path has come later.
Counted(r, rs) ==
    r.pc = "unlink" =>
        /\ r.seen <= Len(rs)
        /\ \A i \in DOMAIN rs : rs[i].live /\ rs[i].path = rs[r.row].path => i > r.seen

CountedRowsAreGone == \A d \in Deletes : Counted(delete[d], rows)

LEMMA CountedStays ==
    ASSUME KnownInv, RowsGoOn, NEW r, DeleteFits(r, rows), Counted(r, rows)
    PROVE  Counted(r, rows')
  <1> SUFFICES ASSUME r.pc = "unlink"
               PROVE  /\ r.seen <= Len(rows')
                      /\ \A i \in DOMAIN rows' : rows'[i].live /\ rows'[i].path = rows'[r.row].path => i > r.seen
    BY DEF Counted
  <1>1. r.seen \in Nat /\ Len(rows) \in Nat /\ r.seen <= Len(rows) /\ r.row \in DOMAIN rows
    BY StoreTyped, StoreAssumption DEF DeleteFits, DeleteRecord, RowId, Counted
  <1>2. Len(rows') \in Nat /\ Len(rows) <= Len(rows')
    <2>1. Len(rows') \in Nat /\ DOMAIN rows' = 1 .. Len(rows') /\ DOMAIN rows = 1 .. Len(rows)
      BY StoreTyped DEF RowsGoOn
    <2> QED BY <1>1, <2>1 DEF RowsGoOn
  <1>3. ASSUME NEW i \in DOMAIN rows', rows'[i].live, rows'[i].path = rows'[r.row].path
        PROVE  i > r.seen
    <2>1. CASE i \in DOMAIN rows
      BY <1>1, <1>3, <2>1 DEF RowsGoOn, Counted
    <2>2. CASE i \notin DOMAIN rows
      BY <1>1, <2>2 DEF RowsGoOn
    <2> QED BY <2>1, <2>2
  <1> QED BY <1>1, <1>2, <1>3

\* A deletion comes to the removal of a file by a count that finds no live row.
LEMMA ComesToUnlink ==
    ASSUME KnownInv, [StoreNext]_storeVars, NEW d \in Deletes
    PROVE  \/ delete'[d] = delete[d]
           \/ delete'[d].pc # "unlink"
           \/ /\ UNCHANGED rows /\ LiveOn(rows[delete'[d].row].path) = {}
              /\ delete'[d].seen = Len(rows)
  <1>1. ASSUME NEW e \in Deletes, BeginDelete(e) \/ DeleteStep(e), d # e PROVE delete'[d] = delete[d]
    <2>1. CASE BeginDelete(e)
      BY <1>1, <2>1, DeleteNow DEF BeginDelete
    <2>2. CASE CheckOwner(e) \/ DeleteTransaction(e)
      BY <1>1, <2>2, DeleteNow DEF CheckOwner, DeleteTransaction, EndDelete, DelGo
    <2>3. CASE DeleteVariantFiles(e)
      BY <1>1, <2>3, DeleteNow DEF DeleteVariantFiles
    <2>4. CASE DeleteVariantRows(e)
      BY <1>1, <2>4, DeleteNow DEF DeleteVariantRows
    <2>5. CASE CountReferences(e)
      BY <1>1, <2>5, DeleteNow DEF CountReferences, EndDelete
    <2>6. CASE DeleteFile(e)
      BY <1>1, <2>6, DeleteNow DEF DeleteFile
    <2> QED BY <1>1, <2>1, <2>2, <2>3, <2>4, <2>5, <2>6 DEF DeleteStep
  <1>2. /\ delete \in [Deletes -> DeleteRecord] /\ delete[d] \in DeleteRecord
        /\ IdleDelete \in DeleteRecord /\ IdleDelete.pc = "idle"
    BY DeleteNow
  <1>3. CASE EndDelete(d)
    BY <1>2, <1>3 DEF EndDelete
  <1>4. CASE BeginDelete(d)
    <2>1. PICK user \in Users, cs \in SUBSET Contents, s \in {"first", "tx"} :
             delete' = [delete EXCEPT ![d] = [IdleDelete EXCEPT !.pc = s, !.user = user, !.contents = cs]]
      BY <1>4 DEF BeginDelete
    <2> QED BY <1>2, <2>1 DEF DeleteRecord
  <1>5. CASE DeleteStep(d)
    <2>1. CASE CheckOwner(d)
      BY <1>2, <1>3, <2>1 DEF CheckOwner, DelGo, DeleteRecord
    <2>2. CASE DeleteTransaction(d)
      <3>1. CASE delete' = [delete EXCEPT ![d].pc = "vfiles", ![d].todo = Doomed(d), ![d].refs = Doomed(d)]
        BY <1>2, <3>1 DEF DeleteRecord
      <3> QED BY <1>3, <2>2, <3>1 DEF DeleteTransaction
    <2>3. CASE DeleteVariantFiles(d)
      <3>1. ASSUME NEW i, delete' = [delete EXCEPT ![d].pc = "vrows", ![d].row = i]
            PROVE  delete'[d].pc # "unlink"
        BY <1>2, <3>1 DEF DeleteRecord
      <3>2. ASSUME NEW S, delete' = [delete EXCEPT ![d].todo = S, ![d].pc = AfterVariants(S)]
            PROVE  delete'[d].pc # "unlink"
        BY <1>2, <3>2 DEF DeleteRecord, AfterVariants
      <3> QED BY <2>3, <3>1, <3>2 DEF DeleteVariantFiles
    <2>4. CASE DeleteVariantRows(d)
      BY <1>2, <2>4 DEF DeleteVariantRows, DeleteRecord, AfterVariants
    <2>5. CASE DeleteFile(d)
      BY <1>2, <2>5 DEF DeleteFile, DeleteRecord
    <2>6. CASE CountReferences(d)
      <3>1. UNCHANGED rows /\ delete[d].pc = "count"
        BY <2>6 DEF CountReferences, DelAt
      <3>2. ASSUME NEW i \in delete[d].refs,
                   delete' = [delete EXCEPT ![d].refs = @ \ {i}]
            PROVE  delete'[d].pc # "unlink"
        BY <1>2, <3>1, <3>2 DEF DeleteRecord
      <3>3. ASSUME NEW i \in delete[d].refs, LiveOn(rows[i].path) = {},
                   delete' = [delete EXCEPT ![d].refs = @ \ {i}, ![d].pc = "unlink",
                                            ![d].row = i, ![d].seen = Len(rows)]
            PROVE  delete'[d].row = i /\ delete'[d].seen = Len(rows)
        BY <1>2, <3>3 DEF DeleteRecord
      <3> QED BY <1>3, <2>6, <3>1, <3>2, <3>3 DEF CountReferences
    <2> QED BY <1>5, <2>1, <2>2, <2>3, <2>4, <2>5, <2>6 DEF DeleteStep
  <1>6. \/ delete' = delete
        \/ \E e \in Deletes : BeginDelete(e) \/ DeleteStep(e)
    BY DEF StoreNext, storeVars, UploadStep, ReceivePart, RejectRequest, FindByHash, FindDeletedByHash,
         CountForReuse, CheckExists, SaveDeduped, Restore, SaveFile, SaveImage, UndoSaveFile,
         SubmitConversion, ReleaseRequestCleanup, EndUpload, UploadRest, JobStep, View, Trigger,
         ReadSource, SaveVariantFile, CompleteVariant, JobRest, Midnight, CleanTempFiles
  <1> QED BY <1>1, <1>4, <1>5, <1>6

LEMMA CountedStaysGone ==
    ASSUME KnownInv, CountedRowsAreGone, [StoreNext]_storeVars
    PROVE  CountedRowsAreGone'
  <1>1. ASSUME NEW d \in Deletes PROVE Counted(delete'[d], rows')
    <2>1. CASE delete'[d] = delete[d]
      <3>1. Counted(delete[d], rows')
        BY RowsStep, DeleteNow, CountedStays DEF CountedRowsAreGone
      <3> QED BY <2>1, <3>1 DEF Counted
    <2>2. CASE delete'[d].pc # "unlink"
      BY <2>2 DEF Counted
    <2>3. CASE /\ UNCHANGED rows /\ LiveOn(rows[delete'[d].row].path) = {}
               /\ delete'[d].seen = Len(rows)
      <3>1. \A i \in DOMAIN rows : ~ (rows[i].live /\ rows[i].path = rows[delete'[d].row].path)
        BY <2>3 DEF LiveOn, Live
      <3> QED BY <2>3, <3>1, StoreTyped DEF Counted
    <2> QED BY <2>1, <2>2, <2>3, ComesToUnlink
  <1> QED BY <1>1 DEF CountedRowsAreGone, Counted

LEMMA CountedInit == StoreInit => CountedRowsAreGone
  BY DEF StoreInit, CountedRowsAreGone, Counted, IdleDelete

LEMMA CountedAlways == StoreSpec => []CountedRowsAreGone
  BY KnownAlways, CountedInit, CountedStaysGone, PTL DEF StoreSpec

\* DeleteSingle and DeleteBatch remove a file only when CountImagesByStoragePath
\* found no live row, and none of the rows it looked at comes back before the
\* removal: a file can be taken only from a row inserted after the count.
THEOREM FilesAreTakenFromLateRows == StoreSpec => OnlyLateRowsLoseFiles
  <1> DEFINE Late == \A d \in Deletes :
                        delete[d].pc = "unlink" /\ delete'[d].pc # "unlink" =>
                           \A i \in LiveOn(rows[delete[d].row].path) : i > delete[d].seen
  <1>1. CountedRowsAreGone => Late
    BY DEF CountedRowsAreGone, Counted, LiveOn, Live
  <1>2. CountedRowsAreGone /\ [StoreNext]_storeVars => [Late]_storeVars
    BY <1>1
  <1> QED BY <1>2, CountedAlways, PTL DEF StoreSpec, OnlyLateRowsLoseFiles
---------------------------------------------------------------------------
\* Files

\* A stored original has a live row, or an upload that is about to insert one or
\* to remove it again, or a deletion that has yet to look at it.
Writes(r, p) == r.pc \in {"insert", "undo"} /\ <<r.content, r.day>> = p
Removes(r, rs, p) ==
    /\ r.pc \in {"vfiles", "vrows", "count", "unlink"}
    /\ \/ \E i \in r.refs : rs[i].path = p
       \/ r.pc = "unlink" /\ rs[r.row].path = p

Remembered(p) ==
    \/ \E i \in DOMAIN rows : rows[i].live /\ rows[i].path = p
    \/ \E u \in Uploads : Writes(upload[u], p)
    \/ \E d \in Deletes : Removes(delete[d], rows, p)
RememberedThen(p) ==
    \/ \E i \in DOMAIN rows' : rows'[i].live /\ rows'[i].path = p
    \/ \E u \in Uploads : Writes(upload'[u], p)
    \/ \E d \in Deletes : Removes(delete'[d], rows', p)

FilesAreRemembered == \A p \in files \ left : Remembered(p)

LEMMA RemovesStays ==
    ASSUME KnownInv, RowsGoOn, NEW d \in Deletes, NEW p, Removes(delete[d], rows, p)
    PROVE  Removes(delete[d], rows', p)
  <1>1. delete[d].refs \subseteq DOMAIN rows
        /\ (delete[d].pc = "unlink" => delete[d].row \in DOMAIN rows)
    BY DeleteNow DEF DeleteFits
  <1> QED BY <1>1 DEF Removes, RowsGoOn

\* What a step of an upload leaves alone.
LEMMA UploadKeeps ==
    ASSUME KnownInv, NEW u \in Uploads, UploadStep(u)
    PROVE  /\ UNCHANGED <<delete, vfiles>>
           /\ \A v \in Uploads \ {u} : upload'[v] = upload[v]
           /\ \A k \in DOMAIN rows : k \in DOMAIN rows' /\ rows'[k] = rows[k]
           /\ \A k \in DOMAIN rows' \ DOMAIN rows : rows'[k].variant = "none"
           /\ \A j \in Conversions : job'[j] = job[j] \/ job'[j].pc = "trigger"
  <1>1. upload \in [Uploads -> UploadRecord] /\ job \in [Conversions -> JobRecord]
    BY StoreTyped
  <1>2. UNCHANGED <<delete, vfiles>>
    BY DEF UploadStep, ReceivePart, RejectRequest, FindByHash, FindDeletedByHash, CountForReuse,
         CheckExists, SaveDeduped, Restore, SaveFile, SaveImage, UndoSaveFile, SubmitConversion,
         ReleaseRequestCleanup, EndUpload, UploadRest
  <1>3. \A v \in Uploads \ {u} : upload'[v] = upload[v]
    <2>1. ASSUME UpReturn(u) PROVE \A v \in Uploads \ {u} : upload'[v] = upload[v]
      BY <1>1, <2>1 DEF UpReturn
    <2>2. ASSUME NEW s, UpGo(u, s) PROVE \A v \in Uploads \ {u} : upload'[v] = upload[v]
      BY <1>1, <2>2 DEF UpGo
    <2>3. CASE ReceivePart(u) \/ RejectRequest(u) \/ EndUpload(u)
      BY <1>1, <2>3 DEF ReceivePart, RejectRequest, EndUpload
    <2>4. CASE FindByHash(u)
      <3>1. UpReturn(u) \/ \E r : upload' = [upload EXCEPT ![u] = r]
        BY <2>4 DEF FindByHash
      <3> QED BY <1>1, <2>1, <3>1
    <2>5. CASE FindDeletedByHash(u)
      BY <1>1, <2>1, <2>2, <2>5 DEF FindDeletedByHash
    <2>6. CASE CountForReuse(u) \/ CheckExists(u)
      BY <2>2, <2>6 DEF CountForReuse, CheckExists
    <2>7. CASE SaveDeduped(u) \/ Restore(u) \/ UndoSaveFile(u) \/ ReleaseRequestCleanup(u)
      BY <2>1, <2>7 DEF SaveDeduped, Restore, UndoSaveFile, ReleaseRequestCleanup
    <2>8. CASE SaveFile(u)
      BY <1>1, <2>1, <2>8 DEF SaveFile
    <2>9. CASE SaveImage(u)
      BY <1>1, <2>2, <2>9 DEF SaveImage
    <2>10. CASE SubmitConversion(u)
      BY <1>1, <2>1, <2>10 DEF SubmitConversion
    <2> QED BY <2>3, <2>4, <2>5, <2>6, <2>7, <2>8, <2>9, <2>10 DEF UploadStep
  <1>4. /\ \A k \in DOMAIN rows : k \in DOMAIN rows' /\ rows'[k] = rows[k]
        /\ \A k \in DOMAIN rows' \ DOMAIN rows : rows'[k].variant = "none"
    <2>1. RowsGoOn
      BY RowsStep DEF StoreNext
    <2>2. CASE UNCHANGED rows
      BY <2>2
    <2>3. CASE SaveDeduped(u)
      <3>1. upload[u].row \in DOMAIN rows /\ upload[u].content \in Contents /\ upload[u].user \in Users
        BY <2>3, UploadNow DEF SaveDeduped, UpAt, UploadFits, NeedsRow, NeedsContent
      <3>2. rows[upload[u].row].path \in Path
        BY <3>1, StoreTyped DEF ImageRow
      <3> QED BY <2>1, <2>3, <3>1, <3>2, RowAdded DEF SaveDeduped, RowsGoOn
    <2>4. CASE SaveImage(u)
      <3>1. /\ upload[u].content \in Contents /\ upload[u].user \in Users
            /\ <<upload[u].content, upload[u].day>> \in Path
        BY <2>4, UploadNow DEF SaveImage, UpAt, UploadFits, NeedsContent, Path
      <3> QED BY <2>1, <2>4, <3>1, RowAdded DEF SaveImage, RowsGoOn
    <2> QED BY <2>2, <2>3, <2>4 DEF UploadStep, ReceivePart, RejectRequest, FindByHash,
             FindDeletedByHash, CountForReuse, CheckExists, Restore, SaveFile, UndoSaveFile,
             SubmitConversion, ReleaseRequestCleanup, EndUpload
  <1>5. \A j \in Conversions : job'[j] = job[j] \/ job'[j].pc = "trigger"
    <2>1. CASE SubmitConversion(u)
      BY <1>1, <2>1 DEF SubmitConversion
    <2>2. CASE UNCHANGED job
      BY <2>2
    <2> QED BY <2>1, <2>2 DEF UploadStep, ReceivePart, RejectRequest, FindByHash,
             FindDeletedByHash, CountForReuse, CheckExists, SaveDeduped, Restore, SaveFile, SaveImage,
             UndoSaveFile, ReleaseRequestCleanup, EndUpload, UploadRest
  <1> QED BY <1>2, <1>3, <1>4, <1>5

LEMMA UploadRemembers ==
    ASSUME KnownInv, NEW u \in Uploads, UploadStep(u),
           NEW p \in files' \ left', p \in files \ left => Remembered(p)
    PROVE  RememberedThen(p)
  <1>1. RowsGoOn
    BY RowsStep DEF StoreNext
  <1>2. /\ upload[u] \in UploadRecord /\ upload \in [Uploads -> UploadRecord]
    BY StoreTyped
  <1>3. CASE \E i \in DOMAIN rows : rows[i].live /\ rows[i].path = p
    BY <1>3, UploadKeeps DEF RememberedThen
  <1>4. CASE \E d \in Deletes : Removes(delete[d], rows, p)
    <2>1. PICK d \in Deletes : Removes(delete[d], rows', p)
      BY <1>1, <1>4, RemovesStays
    <2>2. delete'[d] = delete[d]
      BY UploadKeeps
    <2>3. Removes(delete'[d], rows', p)
      BY <2>1, <2>2 DEF Removes
    <2> QED BY <2>3 DEF RememberedThen
  <1>5. ASSUME NEW v \in Uploads, v # u, Writes(upload[v], p) PROVE RememberedThen(p)
    BY <1>5, UploadKeeps DEF RememberedThen, Writes
  <1>6. ASSUME Writes(upload[u], p) PROVE RememberedThen(p)
    <2>1. SaveImage(u) \/ UndoSaveFile(u)
      BY <1>6 DEF Writes, UploadStep, UpAt, ReceivePart, RejectRequest, FindByHash, FindDeletedByHash,
           CountForReuse, CheckExists, SaveDeduped, Restore, SaveFile, SubmitConversion,
           ReleaseRequestCleanup, EndUpload
    <2>2. ~ UndoSaveFile(u)
      BY <1>6 DEF UndoSaveFile, FailsLeaving, Writes
    <2>3. CASE UpGo(u, "undo")
      <3>1. upload'[u].pc = "undo" /\ upload'[u].content = upload[u].content /\ upload'[u].day = upload[u].day
        BY <1>2, <2>3 DEF UpGo, UploadRecord
      <3> QED BY <1>6, <3>1 DEF Writes, RememberedThen
    <2>4. CASE /\ Len(rows) < MaxRows
               /\ NewRow(upload[u].user, upload[u].content, <<upload[u].content, upload[u].day>>)
      <3>1. /\ upload[u].content \in Contents /\ upload[u].user \in Users
            /\ <<upload[u].content, upload[u].day>> \in Path
        BY <1>6, UploadNow DEF Writes, UploadFits, NeedsContent, Path
      <3>2. rows'[Len(rows) + 1].path = p /\ rows'[Len(rows) + 1].live /\ Len(rows) + 1 \in DOMAIN rows'
        BY <1>6, <2>4, <3>1, RowAdded DEF Writes
      <3> QED BY <3>2 DEF RememberedThen
    <2> QED BY <2>1, <2>2, <2>3, <2>4 DEF SaveImage
  <1>7. CASE p \notin files \ left
    <2>1. SaveFile(u)
      <3>1. (files' \subseteq files /\ left \subseteq left') \/ SaveFile(u)
        BY DEF UploadStep, ReceivePart, RejectRequest, FindByHash, FindDeletedByHash, CountForReuse,
             CheckExists, SaveDeduped, Restore, SaveImage, UndoSaveFile, SubmitConversion,
             ReleaseRequestCleanup, EndUpload, Works, Fails, FailsLeaving
      <3> QED BY <1>7, <3>1
    <2>2. upload' = [upload EXCEPT ![u].pc = "insert", ![u].day = today] /\ p = <<upload[u].content, today>>
      BY <1>7, <2>1 DEF SaveFile, FailsLeaving
    <2>3. upload'[u].pc = "insert" /\ upload'[u].content = upload[u].content /\ upload'[u].day = today
      BY <1>2, <2>2 DEF UploadRecord
    <2> QED BY <2>2, <2>3 DEF Writes, RememberedThen
  <1> QED BY <1>3, <1>4, <1>5, <1>6, <1>7 DEF Remembered

LEMMA JobRows ==
    ASSUME KnownInv, NEW j \in Conversions, JobStep(j)
    PROVE  \/ UNCHANGED rows
           \/ /\ job[j].pc # "free" /\ DOMAIN rows' = DOMAIN rows /\ job[j].row \in DOMAIN rows
              /\ \A k \in DOMAIN rows : rows'[k].path = rows[k].path /\ rows'[k].live = rows[k].live
              /\ \A k \in DOMAIN rows \ {job[j].row} : rows'[k] = rows[k]
              /\ rows'[job[j].row].variant = "completed" => job[j].pc = "settle"
  BY VariantSet DEF JobStep, View, Trigger, ReadSource, SaveVariantFile, CompleteVariant

LEMMA JobRemembers ==
    ASSUME KnownInv, NEW j \in Conversions, JobStep(j),
           NEW p \in files' \ left', p \in files \ left => Remembered(p)
    PROVE  RememberedThen(p)
  <1>1. UNCHANGED <<files, left, upload, delete>> /\ RowsGoOn
    BY RowsStep DEF StoreNext, JobStep, View, Trigger, ReadSource, SaveVariantFile, CompleteVariant, JobRest
  <1>2. CASE \E i \in DOMAIN rows : rows[i].live /\ rows[i].path = p
    BY <1>2, JobRows DEF RememberedThen
  <1>3. CASE \E u \in Uploads : Writes(upload[u], p)
    BY <1>1, <1>3 DEF RememberedThen, Writes
  <1>4. CASE \E d \in Deletes : Removes(delete[d], rows, p)
    <2>1. PICK d \in Deletes : Removes(delete[d], rows', p)
      BY <1>1, <1>4, RemovesStays
    <2>2. Removes(delete'[d], rows', p)
      BY <1>1, <2>1 DEF Removes
    <2> QED BY <2>2 DEF RememberedThen
  <1> QED BY <1>1, <1>2, <1>3, <1>4 DEF Remembered

\* What a step of a deletion does to the other deletions and to the table.
LEMMA DeleteKeeps ==
    ASSUME KnownInv, NEW d \in Deletes, BeginDelete(d) \/ DeleteStep(d)
    PROVE  /\ UNCHANGED <<upload, job>> /\ files' \subseteq files
           /\ \A e \in Deletes \ {d} : delete'[e] = delete[e]
           /\ \/ UNCHANGED rows
              \/ /\ DeleteTransaction(d) /\ DOMAIN rows' = DOMAIN rows
                 /\ delete' = [delete EXCEPT ![d].pc = "vfiles", ![d].todo = Doomed(d), ![d].refs = Doomed(d)]
                 /\ \A i \in DOMAIN rows : /\ rows'[i].path = rows[i].path
                                           /\ rows'[i].variant = rows[i].variant
                                           /\ i \notin Doomed(d) => rows'[i].live = rows[i].live
              \/ /\ DeleteVariantRows(d) /\ DOMAIN rows' = DOMAIN rows
                 /\ \A i \in DOMAIN rows : /\ rows'[i].path = rows[i].path
                                           /\ rows'[i].live = rows[i].live
                                           /\ rows'[i].variant = "completed" => rows[i].variant = "completed"
  <1>1. UNCHANGED <<upload, job>> /\ files' \subseteq files
    BY DEF DeleteStep, BeginDelete, CheckOwner, DeleteTransaction, DeleteVariantFiles, DeleteVariantRows,
         CountReferences, DeleteFile, DelRest
  <1>2. \A e \in Deletes \ {d} : delete'[e] = delete[e]
    <2>1. CASE BeginDelete(d)
      BY <2>1, DeleteNow DEF BeginDelete
    <2>2. CASE CheckOwner(d) \/ DeleteTransaction(d)
      BY <2>2, DeleteNow DEF CheckOwner, DeleteTransaction, EndDelete, DelGo
    <2>3. CASE DeleteVariantFiles(d)
      BY <2>3, DeleteNow DEF DeleteVariantFiles
    <2>4. CASE DeleteVariantRows(d)
      BY <2>4, DeleteNow DEF DeleteVariantRows
    <2>5. CASE CountReferences(d)
      BY <2>5, DeleteNow DEF CountReferences, EndDelete
    <2>6. CASE DeleteFile(d)
      BY <2>6, DeleteNow DEF DeleteFile
    <2> QED BY <2>1, <2>2, <2>3, <2>4, <2>5, <2>6 DEF DeleteStep
  <1>3. CASE DeleteTransaction(d)
    <2>1. Doomed(d) \in SUBSET DOMAIN rows
      BY StoreTyped DEF Doomed
    <2>2. CASE UNCHANGED rows
      BY <1>1, <1>2, <2>2
    <2>3. CASE /\ rows' = [i \in DOMAIN rows |->
                             IF i \in Doomed(d) THEN [rows[i] EXCEPT !.live = FALSE] ELSE rows[i]]
               /\ delete' = [delete EXCEPT ![d].pc = "vfiles", ![d].todo = Doomed(d), ![d].refs = Doomed(d)]
      BY <1>1, <1>2, <1>3, <2>1, <2>3, RowsDeleted
    <2> QED BY <1>3, <2>2, <2>3 DEF DeleteTransaction
  <1>4. CASE DeleteVariantRows(d) /\ rows' # rows
    <2> DEFINE i == delete[d].row
               w == IF rows[i].variant = "none" THEN rows[i].variant ELSE "gone"
    <2>1. i \in DOMAIN rows
      BY <1>4, DeleteNow DEF DeleteVariantRows, DelAt, DeleteFits
    <2>2. rows' = [rows EXCEPT ![i].variant = w] /\ w \in {"none", "gone"}
      BY <1>4 DEF DeleteVariantRows
    <2> HIDE DEF i, w
    <2>3. DOMAIN rows' = DOMAIN rows
          /\ \A k \in DOMAIN rows : /\ rows'[k].path = rows[k].path /\ rows'[k].live = rows[k].live
                                    /\ k = i \/ rows'[k] = rows[k]
          /\ rows'[i].variant = w
      BY <2>1, <2>2, VariantChanged
    <2> QED BY <1>1, <1>2, <1>4, <2>2, <2>3
  <1> QED BY <1>1, <1>2, <1>3, <1>4 DEF DeleteStep, BeginDelete, CheckOwner, DeleteVariantFiles,
           CountReferences, DeleteFile

LEMMA DeleteRemembers ==
    ASSUME KnownInv, NEW d \in Deletes, BeginDelete(d) \/ DeleteStep(d),
           NEW p \in files' \ left', p \in files \ left => Remembered(p)
    PROVE  RememberedThen(p)
  <1>1. /\ RowsGoOn /\ UNCHANGED upload /\ \A e \in Deletes \ {d} : delete'[e] = delete[e]
    BY RowsStep, DeleteKeeps DEF StoreNext
  <1>0. p \in files \ left
    <2>1. left \subseteq left'
      BY DEF BeginDelete, DeleteStep, CheckOwner, DeleteTransaction, DeleteVariantFiles,
           DeleteVariantRows, CountReferences, DeleteFile, Works, Fails, FailsLeaving
    <2> QED BY <2>1, DeleteKeeps
  <1>2. /\ DeleteFits(delete[d], rows) /\ delete[d] \in DeleteRecord /\ delete \in [Deletes -> DeleteRecord]
    BY DeleteNow
  <1>3. CASE \E u \in Uploads : Writes(upload[u], p)
    BY <1>1, <1>3 DEF RememberedThen, Writes
  <1>4. ASSUME NEW e \in Deletes, e # d, Removes(delete[e], rows, p) PROVE RememberedThen(p)
    <2>1. Removes(delete[e], rows', p)
      BY <1>1, <1>4, RemovesStays
    <2>2. Removes(delete'[e], rows', p)
      BY <1>1, <1>4, <2>1 DEF Removes
    <2> QED BY <2>2 DEF RememberedThen
  <1>5. ASSUME NEW i \in DOMAIN rows, rows[i].live, rows[i].path = p PROVE RememberedThen(p)
    <2>1. CASE UNCHANGED rows \/ DeleteVariantRows(d)
      <3>1. i \in DOMAIN rows' /\ rows'[i].live /\ rows'[i].path = p
        BY <1>5, <2>1, DeleteKeeps DEF DeleteVariantRows, DeleteTransaction, DelAt
      <3> QED BY <3>1 DEF RememberedThen
    <2>2. CASE /\ DOMAIN rows' = DOMAIN rows
               /\ delete' = [delete EXCEPT ![d].pc = "vfiles", ![d].todo = Doomed(d), ![d].refs = Doomed(d)]
               /\ \A k \in DOMAIN rows : /\ rows'[k].path = rows[k].path
                                         /\ k \notin Doomed(d) => rows'[k].live = rows[k].live
      <3>1. CASE i \notin Doomed(d)
        BY <1>5, <2>2, <3>1 DEF RememberedThen
      <3>2. CASE i \in Doomed(d)
        <4>1. delete'[d].pc = "vfiles" /\ delete'[d].refs = Doomed(d)
          BY <1>2, <2>2 DEF DeleteRecord
        <4>2. Removes(delete'[d], rows', p)
          BY <1>5, <2>2, <3>2, <4>1 DEF Removes
        <4> QED BY <4>2 DEF RememberedThen
      <3> QED BY <3>1, <3>2
    <2> QED BY <2>1, <2>2, DeleteKeeps
  <1>6. ASSUME Removes(delete[d], rows, p) PROVE RememberedThen(p)
    <2>1. SUFFICES ASSUME ~ \E i \in DOMAIN rows : rows[i].live /\ rows[i].path = p
                   PROVE  Removes(delete'[d], rows', p)
      BY <1>5 DEF RememberedThen
    <2>2. DeleteVariantFiles(d) \/ DeleteVariantRows(d) \/ CountReferences(d) \/ DeleteFile(d)
      BY <1>6 DEF Removes, DeleteStep, BeginDelete, CheckOwner, DeleteTransaction, DelAt
    <2>3. ASSUME NEW S, S \subseteq delete[d].refs, delete'[d].refs = S,
                 delete'[d].pc \in {"vfiles", "vrows", "count", "unlink"}, \E i \in S : rows[i].path = p
          PROVE  Removes(delete'[d], rows', p)
      BY <1>1, <1>2, <2>3 DEF Removes, DeleteFits, RowsGoOn
    <2>4. CASE DeleteVariantFiles(d)
      <3>1. ASSUME NEW i, delete' = [delete EXCEPT ![d].pc = "vrows", ![d].row = i]
            PROVE  delete'[d].pc = "vrows" /\ delete'[d].refs = delete[d].refs
        BY <1>2, <3>1 DEF DeleteRecord
      <3>2. ASSUME NEW S, delete' = [delete EXCEPT ![d].todo = S, ![d].pc = AfterVariants(S)]
            PROVE  delete'[d].pc \in {"count", "vfiles"} /\ delete'[d].refs = delete[d].refs
        BY <1>2, <3>2 DEF DeleteRecord, AfterVariants
      <3>3. delete'[d].pc \in {"vfiles", "vrows", "count"} /\ delete'[d].refs = delete[d].refs
        BY <2>4, <3>1, <3>2 DEF DeleteVariantFiles
      <3> QED BY <1>6, <2>3, <2>4, <3>3 DEF Removes, DeleteVariantFiles, DelAt
    <2>5. CASE DeleteVariantRows(d)
      <3>1. delete'[d].pc \in {"count", "vfiles"} /\ delete'[d].refs = delete[d].refs
        BY <1>2, <2>5 DEF DeleteVariantRows, DeleteRecord, AfterVariants
      <3> QED BY <1>6, <2>3, <2>5, <3>1 DEF Removes, DeleteVariantRows, DelAt
    <2>6. CASE CountReferences(d)
      <3>1. delete[d].pc = "count" /\ delete[d].refs # {} /\ UNCHANGED rows
        BY <1>6, <2>6 DEF Removes, CountReferences, DelAt
      <3>2. PICK i \in delete[d].refs :
               \/ /\ delete' = [delete EXCEPT ![d].refs = @ \ {i}]
                  /\ LiveOn(rows[i].path) # {} \/ FailsLeaving(rows[i].path)
               \/ delete' = [delete EXCEPT ![d].refs = @ \ {i}, ![d].pc = "unlink",
                                           ![d].row = i, ![d].seen = Len(rows)]
        BY <2>6, <3>1 DEF CountReferences
      <3>3. CASE /\ delete' = [delete EXCEPT ![d].refs = @ \ {i}]
                 /\ LiveOn(rows[i].path) # {} \/ FailsLeaving(rows[i].path)
        <4>1. delete'[d].pc = "count" /\ delete'[d].refs = delete[d].refs \ {i}
          BY <1>2, <3>1, <3>3 DEF DeleteRecord
        <4>2. rows[i].path # p
          BY <2>1, <3>3 DEF LiveOn, Live, FailsLeaving
        <4> QED BY <1>6, <2>3, <3>1, <4>1, <4>2 DEF Removes
      <3>4. CASE delete' = [delete EXCEPT ![d].refs = @ \ {i}, ![d].pc = "unlink",
                                          ![d].row = i, ![d].seen = Len(rows)]
        <4>1. delete'[d].pc = "unlink" /\ delete'[d].refs = delete[d].refs \ {i} /\ delete'[d].row = i
          BY <1>2, <3>4 DEF DeleteRecord
        <4> QED BY <1>6, <3>1, <4>1 DEF Removes
      <3> QED BY <3>2, <3>3, <3>4
    <2>7. CASE DeleteFile(d)
      <3>1. rows[delete[d].row].path # p
        BY <2>7 DEF DeleteFile, FailsLeaving
      <3>2. delete'[d].pc = "count" /\ delete'[d].refs = delete[d].refs
        BY <1>2, <2>7 DEF DeleteFile, DeleteRecord
      <3> QED BY <1>6, <2>3, <3>1, <3>2 DEF Removes
    <2> QED BY <2>2, <2>4, <2>5, <2>6, <2>7
  <1> QED BY <1>0, <1>3, <1>4, <1>5, <1>6 DEF Remembered

LEMMA FilesStep ==
    ASSUME KnownInv, FilesAreRemembered, [StoreNext]_storeVars
    PROVE  FilesAreRemembered'
  <1> SUFFICES ASSUME NEW p \in files' \ left' PROVE RememberedThen(p)
    BY DEF FilesAreRemembered, Remembered, RememberedThen, Writes, Removes
  <1>1. p \in files \ left => Remembered(p)
    BY DEF FilesAreRemembered
  <1>2. CASE UNCHANGED <<rows, files, left, upload, delete>>
    BY <1>1, <1>2 DEF Remembered, RememberedThen, Writes, Removes
  <1> QED BY <1>1, <1>2, UploadRemembers, JobRemembers, DeleteRemembers
          DEF StoreNext, storeVars, Midnight, CleanTempFiles

LEMMA FilesAlways == StoreSpec => []FilesAreRemembered
  <1>1. StoreInit => FilesAreRemembered
    BY DEF StoreInit, FilesAreRemembered
  <1> QED BY <1>1, KnownAlways, FilesStep, PTL DEF StoreSpec

\* Once all requests have returned every stored original has a live row, whatever
\* the order in which uploads, shared uploads and deletions looked and wrote,
\* unless the write of that file, the undoing of it, the count of its references
\* or its removal failed since it was last written.
THEOREM FilesAreNotForgotten == StoreSpec => []NoFileIsForgotten
  <1>1. FilesAreRemembered => NoFileIsForgotten
    BY DEF FilesAreRemembered, Remembered, Writes, Removes, NoFileIsForgotten, Quiet, LiveOn, Live
  <1> QED BY <1>1, FilesAlways, PTL

---------------------------------------------------------------------------
\* Variants

\* The file of a completed variant is there or a row of that path was deleted,
\* and so it is already for the conversion that is about to complete.
HasVariant(i) ==
    \/ VariantPath(i) \in vfiles
    \/ \E k \in DOMAIN rows : rows[k].path = rows[i].path /\ ~ rows[k].live
HasVariantThen(i) ==
    \/ rows'[i].path \in vfiles'
    \/ \E k \in DOMAIN rows' : rows'[k].path = rows'[i].path /\ ~ rows'[k].live

VariantsAreThere ==
    /\ \A i \in DOMAIN rows : rows[i].variant = "completed" => HasVariant(i)
    /\ \A j \in Conversions : job[j].pc = "settle" => HasVariant(job[j].row)

\* A variant file is taken only on behalf of a deleted row.
LEMMA VariantStays ==
    ASSUME KnownInv, [StoreNext]_storeVars, NEW i \in DOMAIN rows, HasVariant(i)
    PROVE  HasVariantThen(i)
  <1>1. RowsGoOn
    BY RowsStep
  <1>2. CASE \E k \in DOMAIN rows : rows[k].path = rows[i].path /\ ~ rows[k].live
    BY <1>1, <1>2 DEF RowsGoOn, HasVariantThen
  <1>3. CASE VariantPath(i) \in vfiles /\ vfiles \subseteq vfiles'
    BY <1>1, <1>3 DEF RowsGoOn, HasVariantThen, VariantPath
  <1>4. ASSUME NEW d \in Deletes, DeleteVariantFiles(d), VariantPath(i) \in vfiles
        PROVE  HasVariantThen(i)
    <2>1. PICK k \in delete[d].todo : vfiles \ {VariantPath(k)} \subseteq vfiles'
      BY <1>4 DEF DeleteVariantFiles
    <2>2. k \in DOMAIN rows /\ ~ rows[k].live /\ UNCHANGED rows
      BY <1>4, DeleteNow DEF DeleteFits, DeleteVariantFiles
    <2> QED BY <1>4, <2>1, <2>2 DEF VariantPath, HasVariantThen
  <1>5. vfiles \subseteq vfiles' \/ \E d \in Deletes : DeleteVariantFiles(d)
    BY UploadKeeps DEF StoreNext, storeVars, JobStep, View, Trigger, ReadSource, SaveVariantFile,
         CompleteVariant, Midnight, CleanTempFiles, BeginDelete, DeleteStep, CheckOwner,
         DeleteTransaction, DeleteVariantRows, CountReferences, DeleteFile
  <1> QED BY <1>2, <1>3, <1>4, <1>5 DEF HasVariant

LEMMA VariantsStep ==
    ASSUME KnownInv, VariantsAreThere, [StoreNext]_storeVars
    PROVE  VariantsAreThere'
  <1>1. RowsGoOn
    BY RowsStep
  <1>2. \A i \in DOMAIN rows' \ DOMAIN rows : rows'[i].variant # "completed"
    BY <1>1 DEF RowsGoOn
  <1>3. ASSUME NEW i \in DOMAIN rows, rows'[i].variant = "completed" PROVE HasVariant(i)
    <2>1. CASE rows[i].variant = "completed"
      BY <2>1 DEF VariantsAreThere
    <2>2. CASE rows[i].variant # "completed"
      <3>1. UNCHANGED rows \/ (\E u \in Uploads : UploadStep(u)) \/ (\E j \in Conversions : JobStep(j))
            \/ \E d \in Deletes : BeginDelete(d) \/ DeleteStep(d)
        BY DEF StoreNext, storeVars, Midnight, CleanTempFiles
      <3>2. ~ UNCHANGED rows /\ ~ \E u \in Uploads : UploadStep(u)
        BY <1>3, <2>2, UploadKeeps
      <3>3. ~ \E d \in Deletes : BeginDelete(d) \/ DeleteStep(d)
        BY <1>3, <2>2, DeleteKeeps
      <3>4. PICK j \in Conversions : JobStep(j)
        BY <3>1, <3>2, <3>3
      <3>5. i = job[j].row /\ job[j].pc = "settle"
        BY <1>3, <2>2, <3>2, <3>4, JobRows
      <3> QED BY <3>5 DEF VariantsAreThere
    <2> QED BY <2>1, <2>2
  <1>4. ASSUME NEW j \in Conversions, job'[j].pc = "settle"
        PROVE  job'[j].row \in DOMAIN rows /\ HasVariantThen(job'[j].row)
    <2>1. job \in [Conversions -> JobRecord] /\ job[j] \in JobRecord /\ JobFits(job[j], rows)
          /\ FreeJob \in JobRecord /\ FreeJob.pc = "free"
      BY JobNow
    <2>2. CASE job'[j] = job[j]
      BY <1>4, <2>1, <2>2, VariantStays DEF VariantsAreThere, JobFits
    <2>3. CASE SaveVariantFile(j)
      <3>1. job'[j].row = job[j].row /\ job[j].row \in DOMAIN rows /\ UNCHANGED rows
            /\ VariantPath(job[j].row) \in vfiles'
        BY <2>1, <2>3 DEF SaveVariantFile, JobGo, JobRecord, JobFits
      <3> QED BY <3>1 DEF VariantPath, HasVariantThen
    <2>4. ASSUME NEW k \in Conversions, JobStep(k), k # j PROVE job'[j] = job[j]
      BY <2>1, <2>4 DEF JobStep, View, Trigger, ReadSource, SaveVariantFile, CompleteVariant,
           EndConversion, JobGo
    <2>5. CASE JobStep(j) /\ ~ SaveVariantFile(j)
      <3>1. CASE View(j)
        <4>1. PICK i \in Live : job' = [job EXCEPT ![j] = [FreeJob EXCEPT !.pc = "trigger", !.row = i]]
          BY <3>1 DEF View
        <4>2. job'[j].pc = "trigger"
          BY <2>1, <4>1 DEF JobRecord
        <4> QED BY <1>4, <4>2
      <3>2. ASSUME JobGo(j, "pipeline") PROVE job'[j].pc # "settle"
        BY <2>1, <3>2 DEF JobGo, JobRecord
      <3>3. ASSUME EndConversion(j) PROVE job'[j].pc # "settle"
        BY <2>1, <3>3 DEF EndConversion
      <3>4. ASSUME job' = [job EXCEPT ![j].pc = "read", ![j].from = NoUpload] PROVE job'[j].pc # "settle"
        BY <2>1, <3>4 DEF JobRecord
      <3> QED BY <1>4, <2>5, <3>1, <3>2, <3>3, <3>4 DEF JobStep, Trigger, ReadSource, CompleteVariant
    <2>6. CASE \E u \in Uploads : UploadStep(u)
      BY <1>4, <2>2, <2>6, UploadKeeps
    <2>7. CASE UNCHANGED job
      BY <2>2, <2>7
    <2> QED BY <2>2, <2>3, <2>4, <2>5, <2>6, <2>7, DeleteKeeps
            DEF StoreNext, storeVars, Midnight, CleanTempFiles
  <1>5. \A i \in DOMAIN rows' : rows'[i].variant = "completed" => HasVariantThen(i)
    BY <1>2, <1>3, VariantStays
  <1> QED BY <1>4, <1>5 DEF VariantsAreThere, HasVariant, HasVariantThen, VariantPath

LEMMA VariantsAlways == StoreSpec => []VariantsAreThere
  <1>1. StoreInit => VariantsAreThere
    BY DEF StoreInit, VariantsAreThere, FreeJob
  <1> QED BY <1>1, KnownAlways, VariantsStep, PTL DEF StoreSpec

\* A live row's completed variant loses its file only where rows share a path and
\* another of them was deleted: deletions that are rolled back, conversions that
\* run meanwhile and uploads cost nobody a variant.
THEOREM VariantsAreLostBySharing == StoreSpec => []VariantLossNeedsSharing
  <1>1. KnownInv /\ VariantsAreThere => VariantLossNeedsSharing
    BY StoreTyped DEF VariantsAreThere, HasVariant, VariantLossNeedsSharing, Live
  <1> QED BY <1>1, KnownAlways, VariantsAlways, PTL

=============================================================================
