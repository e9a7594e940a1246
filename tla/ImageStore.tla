----------------------------- MODULE ImageStore -----------------------------
(***************************************************************************)
(* The image store: rows of images, their files and the files of their     *)
(* variants, under concurrent uploads, deletions and conversions           *)
(* (internal/image/write_service.go, delete_service.go,                    *)
(* upload_source.go, database/repo/images/images_repository.go).           *)
(*                                                                         *)
(* A content is a file hash.  The identifier of a row is the first twelve  *)
(* characters of the hash, also for the row of a second user, whose id is  *)
(* appended behind them: the rows of one content share their identifier.   *)
(* One action is one statement, transaction, file operation or step in     *)
(* memory of one goroutine.                                                *)
(***************************************************************************)
EXTENDS Naturals, Sequences, FiniteSets

CONSTANTS
    Users,
    NoUser,       \* the user of an idle request
    Contents,     \* file hashes
    NoContent,
    Uploads,      \* request goroutines that upload, each with a temp file
    Conversions,  \* slots for conversions under way in the pool
    NoUpload,     \* no temp file comes with the conversion
    Deletes,      \* request goroutines that delete
    MaxRows,      \* bound: rows ever inserted
    MaxDay,       \* bound: the storage path holds the day of the upload
    MaxErrors     \* bound: failures that the code only logs or ignores

ASSUME StoreAssumption ==
    /\ NoUser \notin Users
    /\ NoContent \notin Contents
    /\ NoUpload \notin Uploads
    /\ MaxRows \in Nat
    /\ MaxDay \in Nat \ {0}
    /\ MaxErrors \in Nat

VARIABLES
    rows,     \* the table images, in the order of the primary key
    files,    \* paths of stored originals
    vfiles,   \* paths of originals whose variant file is stored
    temp,     \* temp[u]: the upload's temp file, and who removes it
    upload,   \* upload[u]: the locals of processAndSaveImage
    job,      \* job[j]: a conversion, its row and whose temp file it owns
    delete,   \* delete[d]: the locals of DeleteSingle or DeleteBatch
    today,    \* the day of time.Now
    errors,   \* failures so far that were only logged or ignored
    left      \* for the properties: the paths at which one of them left a file

storeVars == <<rows, files, vfiles, temp, upload, job, delete, today, errors, left>>

---------------------------------------------------------------------------
\* Values

Days == 1 .. MaxDay
Path == Contents \X Days

\* variant: its row of image_variants, "gone" once DeleteByImageID ran.
ImageRow == [owner : Users, content : Contents, path : Path, live : BOOLEAN,
             variant : {"none", "busy", "completed", "gone"}]

Live == {i \in DOMAIN rows : rows[i].live}
LiveOn(p) == {i \in Live : rows[i].path = p}
LiveOf(c) == {i \in Live : rows[i].content = c}
DeletedOf(c) == {i \in DOMAIN rows : ~ rows[i].live /\ rows[i].content = c}

\* GenerateConvertedIdentifiers, GenerateThumbnailIdentifiers: the path of a
\* variant comes from the day and the hash in the path of the original, which
\* rows of several users share; so the latter stands for it.
VariantPath(i) == rows[i].path

\* First orders by primary key.
Least(S) == CHOOSE i \in S : \A j \in S : i <= j

UploadPc == {"idle", "parsed", "deleted", "reuse", "exists", "dedup", "restore",
             "write", "insert", "undo", "submit", "release", "return"}
JobPc == {"free", "trigger", "pipeline", "read", "settle"}
DeletePc == {"idle", "first", "tx", "vfiles", "vrows", "count", "unlink"}

NoRow == 0
RowId == 0 .. MaxRows

StoreTypeOK ==
    /\ rows \in Seq(ImageRow) /\ Len(rows) <= MaxRows
    /\ files \subseteq Path
    /\ vfiles \subseteq Path
    /\ temp \in [Uploads -> [there : BOOLEAN,
                             request : {"owns", "released", "done"}]]
    /\ upload \in [Uploads -> [pc : UploadPc, user : Users \cup {NoUser},
                               content : Contents \cup {NoContent}, row : RowId,
                               day : 0 .. MaxDay, consumed : BOOLEAN]]
    /\ job \in [Conversions -> [pc : JobPc, row : RowId, from : Uploads \cup {NoUpload}]]
    /\ delete \in [Deletes -> [pc : DeletePc, user : Users \cup {NoUser}, contents : SUBSET Contents,
                               todo : SUBSET RowId, refs : SUBSET RowId,
                               row : RowId, seen : RowId]]
    /\ today \in Days
    /\ errors \in 0 .. MaxErrors
    /\ left \subseteq Path

IdleUpload == [pc |-> "idle", user |-> NoUser, content |-> NoContent, row |-> NoRow,
               day |-> 0, consumed |-> FALSE]
FreeJob == [pc |-> "free", row |-> NoRow, from |-> NoUpload]
IdleDelete == [pc |-> "idle", user |-> NoUser, contents |-> {}, todo |-> {},
               refs |-> {}, row |-> NoRow, seen |-> 0]
NoTemp == [there |-> FALSE, request |-> "done"]

StoreInit ==
    /\ rows = <<>>
    /\ files = {}
    /\ vfiles = {}
    /\ temp = [u \in Uploads |-> NoTemp]
    /\ upload = [u \in Uploads |-> IdleUpload]
    /\ job = [j \in Conversions |-> FreeJob]
    /\ delete = [d \in Deletes |-> IdleDelete]
    /\ today = 1
    /\ errors = 0
    /\ left = {}

UpAt(u, s) == upload[u].pc = s
UpGo(u, s) == upload' = [upload EXCEPT ![u].pc = s]
UpReturn(u) ==
    upload' = [upload EXCEPT ![u] =
                  [IdleUpload EXCEPT !.pc = "return", !.consumed = upload[u].consumed]]
Works == UNCHANGED <<errors, left>>
Errs == errors < MaxErrors /\ errors' = errors + 1
Fails == Errs /\ UNCHANGED left
FailsLeaving(p) == Errs /\ left' = left \cup {p}

NewRow(u, c, p) ==
    rows' = Append(rows, [owner |-> u, content |-> c, path |-> p, live |-> TRUE,
                          variant |-> "none"])

---------------------------------------------------------------------------
\* Upload

UploadRest == UNCHANGED <<vfiles, job, delete, today>>

\* writePartToTempFile: the part of the request is in a temp file and hashed.
ReceivePart(u) ==
    /\ UpAt(u, "idle")
    /\ \A j \in Conversions : job[j].from # u
    /\ temp' = [temp EXCEPT ![u] = [there |-> TRUE, request |-> "owns"]]
    /\ upload' = [upload EXCEPT ![u].pc = "parsed"]
    /\ UNCHANGED <<rows, files, errors, left>>
    /\ UploadRest

\* A later part is too much or broken: the request is refused as a whole, and
\* what it has received is removed.
RejectRequest(u) ==
    /\ UpAt(u, "parsed")
    /\ upload' = [upload EXCEPT ![u] = IdleUpload]
    /\ temp' = [temp EXCEPT ![u] = NoTemp]
    /\ UNCHANGED <<rows, files, errors, left>>
    /\ UploadRest

\* GetImageByHash: the user's own live row ends the upload (and triggers its
\* conversion, as a view does), and so does an error; another user's is shared.
FindByHash(u) ==
    /\ UpAt(u, "parsed")
    /\ \E user \in Users, c \in Contents :
          LET hits == LiveOf(c)
              Found(s, i) == upload' = [upload EXCEPT ![u] = [IdleUpload EXCEPT
                                 !.pc = s, !.user = user, !.content = c, !.row = i]] IN
            \/ hits = {} /\ Found("deleted", NoRow)
            \/ hits # {} /\ rows[Least(hits)].owner # user /\ Found("dedup", Least(hits))
            \/ UpReturn(u)
    /\ UNCHANGED <<rows, files, temp, errors, left>>
    /\ UploadRest

FindDeletedByHash(u) ==
    /\ UpAt(u, "deleted")
    /\ LET hits == DeletedOf(upload[u].content) IN
         \/ hits = {} /\ UpGo(u, "write")
         \/ hits # {} /\ upload' = [upload EXCEPT ![u].row = Least(hits), ![u].pc = "reuse"]
         \/ UpReturn(u)
    /\ Works
    /\ UNCHANGED <<rows, files, temp>>
    /\ UploadRest

\* canReuseSoftDeletedImage: the path has live rows, or its file exists.  A
\* failure to find out means that the file is written again.
Reuse(u) ==
    IF rows[upload[u].row].owner = upload[u].user THEN "restore" ELSE "dedup"

CountForReuse(u) ==
    /\ UpAt(u, "reuse")
    /\ \/ /\ UpGo(u, IF LiveOn(rows[upload[u].row].path) # {} THEN Reuse(u) ELSE "exists")
          /\ Works
       \/ UpGo(u, "write") /\ Fails
    /\ UNCHANGED <<rows, files, temp>>
    /\ UploadRest

CheckExists(u) ==
    /\ UpAt(u, "exists")
    /\ \/ /\ UpGo(u, IF rows[upload[u].row].path \in files THEN Reuse(u) ELSE "write")
          /\ Works
       \/ UpGo(u, "write") /\ Fails
    /\ UNCHANGED <<rows, files, temp>>
    /\ UploadRest

\* createDedupedImageRecord: a row of the user's own on the path it found.
SaveDeduped(u) ==
    /\ UpAt(u, "dedup")
    /\ UpReturn(u)
    /\ \/ /\ Len(rows) < MaxRows
          /\ NewRow(upload[u].user, upload[u].content, rows[upload[u].row].path)
       \/ UNCHANGED rows
    /\ UNCHANGED <<files, temp, errors, left>>
    /\ UploadRest

\* UpdateImageByIdentifier with deleted_at = nil.  The soft-delete scope hides
\* the very row it is meant to restore: without live rows of that identifier
\* the upload fails, and otherwise it renames them, whoever owns them.  Either
\* way no row is added or revived, and no path changes.
Restore(u) ==
    /\ UpAt(u, "restore")
    /\ UpReturn(u)
    /\ Works
    /\ UNCHANGED <<rows, files, temp>>
    /\ UploadRest

\* SaveWithContext: local storage moves the temp file when it can.  A failed
\* write may leave a file, and nothing removes it; so may the size that cannot
\* be determined behind it.
SaveFile(u) ==
    /\ UpAt(u, "write")
    /\ LET p == <<upload[u].content, today>> IN
         \/ /\ upload' = [upload EXCEPT ![u].pc = "insert", ![u].day = today]
            /\ files' = files \cup {p}
            /\ \E moved \in BOOLEAN :
                  temp' = [temp EXCEPT ![u].there = @ /\ ~ moved]
            /\ left' = left \ {p}
            /\ UNCHANGED errors
         \/ /\ UpReturn(u)
            /\ files' \in {files, files \cup {p}}
            /\ FailsLeaving(p)
            /\ UNCHANGED temp
    /\ UNCHANGED rows
    /\ UploadRest

SaveImage(u) ==
    /\ UpAt(u, "insert")
    /\ \/ /\ Len(rows) < MaxRows
          /\ NewRow(upload[u].user, upload[u].content, <<upload[u].content, upload[u].day>>)
          /\ upload' = [upload EXCEPT ![u].pc = "submit", ![u].row = Len(rows) + 1]
       \/ UNCHANGED rows /\ UpGo(u, "undo")
    /\ UNCHANGED <<files, temp, errors, left>>
    /\ UploadRest

\* Mutant: the file is left behind.
UndoNothing(u) ==
    /\ UpAt(u, "undo")
    /\ UpReturn(u)
    /\ Works
    /\ UNCHANGED <<rows, files, temp>>
    /\ UploadRest

\* The file just written is removed again, whoever else refers to it by now.
\* The error of a removal that fails is ignored.
UndoSaveFile(u) ==
    /\ UpAt(u, "undo")
    /\ UpReturn(u)
    /\ LET p == <<upload[u].content, upload[u].day>> IN
         \/ files' = files \ {p} /\ Works
         \/ UNCHANGED files /\ FailsLeaving(p)
    /\ UNCHANGED <<rows, temp>>
    /\ UploadRest

\* submitBackgroundTask: a task that is accepted owns the temp file.
SubmitConversion(u) ==
    /\ UpAt(u, "submit")
    /\ \/ /\ upload' = [upload EXCEPT ![u].pc = "release", ![u].consumed = TRUE]
          /\ \E j \in Conversions :
                /\ job[j].pc = "free"
                /\ job' = [job EXCEPT ![j] =
                             [pc |-> "trigger", row |-> upload[u].row, from |-> u]]
       \/ UpReturn(u) /\ UNCHANGED job
    /\ UNCHANGED <<rows, files, vfiles, temp, delete, today, errors, left>>

\* Mutant: the request keeps the temp file it has handed over.
KeepRequestCleanup(u) ==
    /\ UpAt(u, "release")
    /\ UpReturn(u)
    /\ UNCHANGED <<rows, files, temp, errors, left>>
    /\ UploadRest

ReleaseRequestCleanup(u) ==
    /\ UpAt(u, "release")
    /\ UpReturn(u)
    /\ temp' = [temp EXCEPT ![u].request = IF @ = "owns" THEN "released" ELSE @]
    /\ UNCHANGED <<rows, files, errors, left>>
    /\ UploadRest

\* The deferred cleanup of processAndSaveImage, on every way out, and then the
\* handler's own.
EndUpload(u) ==
    /\ UpAt(u, "return")
    /\ upload' = [upload EXCEPT ![u] = IdleUpload]
    /\ temp' = [temp EXCEPT ![u] =
                  [there |-> @.there /\ upload[u].consumed /\ @.request # "owns",
                   request |-> "done"]]
    /\ UNCHANGED <<rows, files, errors, left>>
    /\ UploadRest

UploadStep(u) ==
    \/ ReceivePart(u) \/ RejectRequest(u) \/ FindByHash(u) \/ FindDeletedByHash(u)
    \/ CountForReuse(u) \/ CheckExists(u) \/ SaveDeduped(u) \/ Restore(u) \/ SaveFile(u) \/ SaveImage(u)
    \/ UndoSaveFile(u) \/ SubmitConversion(u) \/ ReleaseRequestCleanup(u) \/ EndUpload(u)

---------------------------------------------------------------------------
\* The conversions that uploads and views set off

JobRest == UNCHANGED <<files, upload, delete, today, errors, left>>
EndConversion(j) == job' = [job EXCEPT ![j] = FreeJob]
JobGo(j, s) == job' = [job EXCEPT ![j].pc = s]
DropTemp(j) ==
    temp' = [u \in Uploads |->
               IF u = job[j].from THEN [temp[u] EXCEPT !.there = FALSE] ELSE temp[u]]
HasTemp(j) == \E u \in Uploads : u = job[j].from /\ temp[u].there
SetVariant(j, v) ==
    rows' = [rows EXCEPT ![job[j].row].variant = IF @ = "gone" THEN @ ELSE v]

\* A view, or an upload of what the user already has, converts a live row.
\* (The row is read here: it may be deleted by the time the task runs.)
View(j) ==
    /\ job[j].pc = "free"
    /\ \E i \in Live :
          job' = [job EXCEPT ![j] = [FreeJob EXCEPT !.pc = "trigger", !.row = i]]
    /\ UNCHANGED <<rows, vfiles, temp>>
    /\ JobRest

\* Mutant: a conversion that is not submitted keeps its temp file.
TriggerKeepingTemp(j) ==
    /\ job[j].pc = "trigger"
    /\ \/ /\ rows[job[j].row].variant = "none"
          /\ SetVariant(j, "busy")
          /\ JobGo(j, "pipeline")
       \/ EndConversion(j) /\ UNCHANGED rows
    /\ UNCHANGED <<temp, vfiles>>
    /\ JobRest

\* triggerConversion: UpsertPending inserts the row of the variant, also for an
\* image deleted meanwhile, and the pipeline task is submitted.  When there is
\* nothing to do, or the submission is refused, the deferred call removes the
\* temp file.
Trigger(j) ==
    /\ job[j].pc = "trigger"
    /\ \/ /\ rows[job[j].row].variant = "none"
          /\ SetVariant(j, "busy")
          /\ JobGo(j, "pipeline")
          /\ UNCHANGED temp
       \/ /\ EndConversion(j)
          /\ DropTemp(j)
          /\ UNCHANGED rows
    /\ UNCHANGED vfiles
    /\ JobRest

\* Execute reads the temp file, or else the stored original; either way the
\* temp file is gone when the task has read it.  A task may also fail; the
\* variant can then be tried again.
ReadSource(j) ==
    /\ job[j].pc = "pipeline"
    /\ \/ /\ HasTemp(j) \/ rows[job[j].row].path \in files
          /\ job' = [job EXCEPT ![j].pc = "read", ![j].from = NoUpload]
          /\ UNCHANGED rows
       \/ EndConversion(j) /\ SetVariant(j, "none")
    /\ DropTemp(j)
    /\ UNCHANGED vfiles
    /\ JobRest

SaveVariantFile(j) ==
    /\ job[j].pc = "read"
    /\ JobGo(j, "settle")
    /\ vfiles' = vfiles \cup {VariantPath(job[j].row)}
    /\ UNCHANGED <<rows, temp>>
    /\ JobRest

CompleteVariant(j) ==
    /\ job[j].pc = "settle"
    /\ EndConversion(j)
    /\ SetVariant(j, "completed")
    /\ UNCHANGED <<vfiles, temp>>
    /\ JobRest

JobStep(j) ==
    View(j) \/ Trigger(j) \/ ReadSource(j) \/ SaveVariantFile(j) \/ CompleteVariant(j)

---------------------------------------------------------------------------
\* Deletion

DelRest == UNCHANGED <<temp, upload, job, today>>
DelAt(d, s) == delete[d].pc = s
DelGo(d, s) == delete' = [delete EXCEPT ![d].pc = s]
EndDelete(d) == delete' = [delete EXCEPT ![d] = IdleDelete]

\* DeleteSingle looks the identifier up first, DeleteBatch does not.
BeginDelete(d) ==
    /\ DelAt(d, "idle")
    /\ \E user \in Users, cs \in (SUBSET Contents) \ {{}} :
          \E s \in {"first", "tx"} :
             /\ s = "first" => Cardinality(cs) = 1
             /\ delete' = [delete EXCEPT ![d] =
                   [IdleDelete EXCEPT !.pc = s, !.user = user, !.contents = cs]]
    /\ UNCHANGED <<rows, files, vfiles, errors, left>>
    /\ DelRest

CheckOwner(d) ==
    /\ DelAt(d, "first")
    /\ \/ LET hits == UNION {LiveOf(c) : c \in delete[d].contents} IN
            /\ hits # {} /\ rows[Least(hits)].owner = delete[d].user
            /\ DelGo(d, "tx")
       \/ EndDelete(d)
    /\ UNCHANGED <<rows, files, vfiles, errors, left>>
    /\ DelRest

Doomed(d) ==
    {i \in Live : rows[i].owner = delete[d].user /\ rows[i].content \in delete[d].contents}

\* One UPDATE gives all rows the same deleted_at: two of one content violate
\* the unique index on (deleted_at, file_hash) and the transaction rolls back.
Clash(S) == \E i, j \in S : i # j /\ rows[i].content = rows[j].content

\* Mutant: the files go although the transaction was rolled back.
DeleteAnyway(d) ==
    /\ DelAt(d, "tx")
    /\ LET S == Doomed(d) IN
         /\ S # {}
         /\ \/ UNCHANGED rows
            \/ /\ ~ Clash(S)
               /\ rows' = [i \in DOMAIN rows |->
                             IF i \in S THEN [rows[i] EXCEPT !.live = FALSE] ELSE rows[i]]
         /\ delete' = [delete EXCEPT ![d].pc = "vfiles", ![d].todo = S, ![d].refs = S]
    /\ UNCHANGED <<files, vfiles, errors, left>>
    /\ DelRest

DeleteTransaction(d) ==
    /\ DelAt(d, "tx")
    /\ LET S == Doomed(d) IN
         \/ /\ S # {} /\ ~ Clash(S)
            /\ rows' = [i \in DOMAIN rows |->
                          IF i \in S THEN [rows[i] EXCEPT !.live = FALSE] ELSE rows[i]]
            /\ delete' = [delete EXCEPT ![d].pc = "vfiles", ![d].todo = S, ![d].refs = S]
         \/ EndDelete(d) /\ UNCHANGED rows
    /\ UNCHANGED <<files, vfiles, errors, left>>
    /\ DelRest

\* deleteVariantsForImage reads the variants and deletes their files, without
\* asking who else refers to them.  When it cannot read them, or finds no
\* provider, it leaves the image's variants as they are; a file that cannot be
\* removed stays.
AfterVariants(rest) == IF rest = {} THEN "count" ELSE "vfiles"
DeleteVariantFiles(d) ==
    /\ DelAt(d, "vfiles")
    /\ \E i \in delete[d].todo :
          \/ /\ \/ /\ vfiles' = IF rows[i].variant = "completed"
                                THEN vfiles \ {VariantPath(i)} ELSE vfiles
                   /\ Works
                \/ UNCHANGED vfiles /\ Fails
             /\ delete' = [delete EXCEPT ![d].pc = "vrows", ![d].row = i]
          \/ /\ LET rest == delete[d].todo \ {i} IN
                   delete' = [delete EXCEPT ![d].todo = rest, ![d].pc = AfterVariants(rest)]
             /\ Fails
             /\ UNCHANGED vfiles
    /\ UNCHANGED <<rows, files>>
    /\ DelRest

DeleteVariantRows(d) ==
    /\ DelAt(d, "vrows")
    /\ LET i == delete[d].row
           rest == delete[d].todo \ {i} IN
         /\ \/ rows' = [rows EXCEPT ![i].variant = IF @ = "none" THEN @ ELSE "gone"] /\ Works
            \/ UNCHANGED rows /\ Fails
         /\ delete' = [delete EXCEPT ![d].todo = rest, ![d].row = NoRow,
                                     ![d].pc = AfterVariants(rest)]
    /\ UNCHANGED <<files, vfiles>>
    /\ DelRest

\* Mutant: only the rows of the user who deletes are counted.
CountOwnReferences(d) ==
    /\ DelAt(d, "count")
    /\ IF delete[d].refs = {} THEN EndDelete(d)
       ELSE \E i \in delete[d].refs :
               delete' = IF \E k \in LiveOn(rows[i].path) : rows[k].owner = delete[d].user
                 THEN [delete EXCEPT ![d].refs = @ \ {i}]
                 ELSE [delete EXCEPT ![d].refs = @ \ {i}, ![d].pc = "unlink",
                                     ![d].row = i, ![d].seen = Len(rows)]
    /\ Works
    /\ UNCHANGED <<rows, files, vfiles>>
    /\ DelRest

\* CountImagesByStoragePath for each deleted row; seen remembers, for the
\* properties, which rows were in the table.  The file stays when the count
\* fails, and when it finds a live row.
CountReferences(d) ==
    /\ DelAt(d, "count")
    /\ \/ delete[d].refs = {} /\ EndDelete(d) /\ Works
       \/ \E i \in delete[d].refs :
            \/ /\ delete' = [delete EXCEPT ![d].refs = @ \ {i}]
               /\ \/ LiveOn(rows[i].path) # {} /\ Works
                  \/ FailsLeaving(rows[i].path)
            \/ /\ LiveOn(rows[i].path) = {}
               /\ delete' = [delete EXCEPT ![d].refs = @ \ {i}, ![d].pc = "unlink",
                                           ![d].row = i, ![d].seen = Len(rows)]
               /\ Works
    /\ UNCHANGED <<rows, files, vfiles>>
    /\ DelRest

DeleteFile(d) ==
    /\ DelAt(d, "unlink")
    /\ delete' = [delete EXCEPT ![d].pc = "count", ![d].row = NoRow, ![d].seen = 0]
    /\ LET p == rows[delete[d].row].path IN
         \/ files' = files \ {p} /\ Works
         \/ UNCHANGED files /\ FailsLeaving(p)
    /\ UNCHANGED <<rows, vfiles>>
    /\ DelRest

DeleteStep(d) ==
    \/ CheckOwner(d) \/ DeleteTransaction(d) \/ DeleteVariantFiles(d)
    \/ DeleteVariantRows(d) \/ CountReferences(d) \/ DeleteFile(d)

---------------------------------------------------------------------------
\* The path of an upload holds the day it is made.
Midnight ==
    /\ today < MaxDay
    /\ today' = today + 1
    /\ UNCHANGED <<rows, files, vfiles, temp, upload, job, delete, errors, left>>

\* image-bed clean --temp-only, from beside the server, removes every temp file.
\* (Without the flag the command stops before, as it has no storage.)
CleanTempFiles ==
    /\ temp' = [u \in Uploads |-> [temp[u] EXCEPT !.there = FALSE]]
    /\ UNCHANGED <<rows, files, vfiles, upload, job, delete, today, errors, left>>

StoreNext ==
    \/ \E u \in Uploads : UploadStep(u)
    \/ \E j \in Conversions : JobStep(j)
    \/ \E d \in Deletes : BeginDelete(d) \/ DeleteStep(d)
    \/ Midnight
    \/ CleanTempFiles

StoreSpec == StoreInit /\ [][StoreNext]_storeVars

---------------------------------------------------------------------------
\* Properties

Quiet == /\ \A u \in Uploads : upload[u].pc = "idle"
         /\ \A d \in Deletes : delete[d].pc = "idle"

\* Reference counts: once all requests have returned, every stored original
\* has a live row, whatever the order of uploads, shared uploads and
\* deletions, unless an operation for that very path failed since it was last
\* written: its write or the undoing of it, the count of its references or
\* its removal (the code logs or ignores all four, and nothing tries again).
NoFileIsForgotten ==
    Quiet => \A p \in files \ left : LiveOn(p) # {}

\* A deletion takes the file from no row that was in the table when it counted
\* the references.  (A row inserted after that loses its file: the gap
\* between the count and the removal is not closed by a transaction.)
OnlyLateRowsLoseFiles ==
    [][\A d \in Deletes :
          delete[d].pc = "unlink" /\ delete'[d].pc # "unlink" =>
             \A i \in LiveOn(rows[delete[d].row].path) : i > delete[d].seen]_storeVars

\* A completed variant of a live row has its file, unless another row with the
\* same path was deleted: deletions that fail, conversions that overlap with
\* them and uploads cost nobody a variant.
VariantLossNeedsSharing ==
    \A i \in Live : rows[i].variant = "completed" /\ VariantPath(i) \notin vfiles =>
        \E j \in DOMAIN rows : j # i /\ rows[j].path = rows[i].path /\ ~ rows[j].live

\* Every temp file is removed once its request and its conversion are over.
TempFilesEnd ==
    \A u \in Uploads :
        upload[u].pc = "idle" /\ (\A j \in Conversions : job[j].from # u) => ~ temp[u].there

\* The temp file has one owner: while the request still cleans up after itself
\* no conversion relies on the file, except in the moment between submission
\* and release.
OneOwnerOfTempFile ==
    \A u \in Uploads :
        temp[u].request = "owns" /\ (\E j \in Conversions : job[j].from = u) =>
            upload[u].pc = "release"
=============================================================================
