------------------------------- MODULE Backup --------------------------------
(***************************************************************************)
(* image-bed backup and image-bed restore (cmd/backup.go, cmd/restore.go). *)
(*                                                                         *)
(* A backup reads one table after the other, without a transaction, while  *)
(* the server goes on writing.  A restore, with the server stopped, may    *)
(* empty the tables first and inserts what the archive holds table by      *)
(* table, a batch at a time; a batch fails as a whole.  It may be another  *)
(* database than the one that was backed up.  Either command may die, and  *)
(* goes on after most errors, which it logs, to report a success.          *)
(* A row is an image: its rows in the four tables that hang together.      *)
(* Users, devices and tokens hang on nothing and are left out.             *)
(***************************************************************************)
EXTENDS Naturals, Sequences

CONSTANTS
    BackedImages,  \* primary keys of images there may be
    MaxEdits       \* bound: writes of the server

ASSUME BackupAssumption == BackedImages \subseteq Nat \ {0} /\ MaxEdits \in Nat

VARIABLES
    tables,    \* tables[t]: images with a live row in table t
    dead,      \* dead[t]: images whose row in t is deleted, and keeps its key
    archive,   \* archive[t]: rows of t in the archive being written or read
    step,      \* the command that runs, and the tables it has left
    counter,   \* the sequence of the table images: the last key it gave
    emptied,   \* --truncate, or the database was empty
    edits,     \* writes of the server
    cut,       \* ghost: tables that the archive does not hold in full
    faulted,   \* ghost: tables in which an insertion has failed, though none of
               \* its keys was in use, and "sequence" if that could not be set
    before,    \* ghost: what the tables held when the backup began
    edited     \* ghost: the server has written while the backup ran

backupVars == <<tables, dead, archive, step, counter, emptied, edits, cut, faulted,
                before, edited>>

BackupOrder == <<"images", "image_variants", "albums", "album_images">>
BackupTables == {BackupOrder[n] : n \in 1 .. 4}
\* truncateTables goes from the tables that refer to the ones referred to.
TruncateOrder == <<"album_images", "image_variants", "images", "albums">>

Commands == {"none", "backup", "truncate", "restore", "sequences", "restored"}
NoRows == [t \in BackupTables |-> {}]

BackupTypeOK ==
    /\ tables \in [BackupTables -> SUBSET BackedImages]
    /\ dead \in [BackupTables -> SUBSET BackedImages]
    /\ archive \in [BackupTables -> SUBSET BackedImages]
    /\ before \in [BackupTables -> SUBSET BackedImages]
    /\ step.command \in Commands
    /\ \A n \in 1 .. Len(step.left) : step.left[n] \in BackupTables
    /\ counter \in BackedImages \cup {0}
    /\ emptied \in BOOLEAN /\ edited \in BOOLEAN
    /\ cut \subseteq BackupTables /\ faulted \subseteq BackupTables \cup {"sequence"}
    /\ edits \in 0 .. MaxEdits

NoCommand == [command |-> "none", left |-> <<>>]

BackupInit ==
    /\ tables = [NoRows EXCEPT !["albums"] = BackedImages]
    /\ dead = NoRows
    /\ archive = NoRows
    /\ step = NoCommand
    /\ counter = 0
    /\ emptied = FALSE
    /\ cut = {} /\ faulted = {}
    /\ edits = 0
    /\ before = NoRows
    /\ edited = FALSE

---------------------------------------------------------------------------
\* The server

ServerRuns == step.command \in {"none", "backup"}

WriteRows(written, image) ==
    /\ ServerRuns
    /\ edits < MaxEdits
    /\ edits' = edits + 1
    /\ edited' = (edited \/ step.command = "backup")
    /\ tables' = [t \in BackupTables |-> IF t \in written THEN tables[t] \cup {image} ELSE tables[t]]
    /\ UNCHANGED <<dead, archive, step, emptied, cut, faulted, before>>

\* The sequence goes on although the key it gives may be in use.
AddImage(i) ==
    /\ i = counter + 1
    /\ counter' = i
    /\ WriteRows(IF i \in tables["images"] \cup dead["images"] THEN {} ELSE {"images"}, i)

AddVariants(i) ==
    /\ i \in tables["images"] \ dead["image_variants"]
    /\ WriteRows({"image_variants"}, i)
    /\ UNCHANGED counter

AddToAlbum(i) ==
    /\ i \in tables["images"] \cap tables["albums"]
    /\ WriteRows({"album_images"}, i)
    /\ UNCHANGED counter

\* An image is deleted softly; its links go for good.
RemoveImage(i) ==
    /\ ServerRuns
    /\ i \in tables["images"]
    /\ edits < MaxEdits
    /\ edits' = edits + 1
    /\ edited' = (edited \/ step.command = "backup")
    /\ tables' = [t \in BackupTables |-> IF t = "albums" THEN tables[t] ELSE tables[t] \ {i}]
    /\ dead' = [dead EXCEPT !["images"] = @ \cup {i},
                            !["image_variants"] = @ \cup (tables["image_variants"] \cap {i})]
    /\ UNCHANGED <<archive, step, counter, emptied, cut, faulted, before>>

---------------------------------------------------------------------------
\* runBackup

StartBackup ==
    /\ step = NoCommand
    /\ step' = [command |-> "backup", left |-> BackupOrder]
    /\ archive' = NoRows
    /\ cut' = {}
    /\ before' = tables
    /\ edited' = FALSE
    /\ UNCHANGED <<tables, dead, counter, emptied, faulted, edits>>

\* backupTable: what is not deleted goes into the file of the table.  If that
\* fails, what has been written stays there, if anything has, and the backup goes
\* on.
BackupTable ==
    LET t == Head(step.left) IN
    /\ step.command = "backup"
    /\ step.left # <<>>
    /\ \/ archive' = [archive EXCEPT ![t] = tables[t]] /\ UNCHANGED cut
       \/ /\ \E written \in SUBSET tables[t] : archive' = [archive EXCEPT ![t] = written]
          /\ cut' = cut \cup {t}
    /\ step' = IF Tail(step.left) = <<>> THEN NoCommand ELSE [step EXCEPT !.left = Tail(@)]
    /\ UNCHANGED <<tables, dead, counter, emptied, faulted, edits, before, edited>>

\* A backup that dies leaves no archive.
BackupDies ==
    /\ step.command = "backup"
    /\ step' = NoCommand
    /\ archive' = NoRows
    /\ cut' = {}
    /\ before' = NoRows
    /\ UNCHANGED <<tables, dead, counter, emptied, faulted, edits, edited>>

---------------------------------------------------------------------------
\* runRestore

\* There is an archive; that of a database that was not empty may hold nothing.
Archived == archive # NoRows \/ cut # {}

StartRestore ==
    /\ step = NoCommand
    /\ Archived
    /\ \E truncate \in BOOLEAN :
          /\ emptied' = (truncate \/ (tables = NoRows /\ dead = NoRows))
          /\ step' = IF truncate THEN [command |-> "truncate", left |-> TruncateOrder]
                     ELSE [command |-> "restore", left |-> BackupOrder]
    /\ faulted' = {}
    /\ UNCHANGED <<tables, dead, archive, counter, edits, cut, before, edited>>

\* Mutant: the rows are deleted softly and keep their keys.
TruncateSoftly ==
    /\ step.command = "truncate"
    /\ tables' = [tables EXCEPT ![Head(step.left)] = {}]
    /\ dead' = [dead EXCEPT ![Head(step.left)] = @ \cup tables[Head(step.left)]]
    /\ step' = IF Tail(step.left) = <<>> THEN [command |-> "restore", left |-> BackupOrder]
               ELSE [step EXCEPT !.left = Tail(@)]
    /\ UNCHANGED <<archive, counter, emptied, edits, cut, faulted, before, edited>>

\* truncateTables deletes the rows for good, the deleted ones too.
TruncateTable ==
    /\ step.command = "truncate"
    /\ tables' = [tables EXCEPT ![Head(step.left)] = {}]
    /\ dead' = [dead EXCEPT ![Head(step.left)] = {}]
    /\ step' = IF Tail(step.left) = <<>> THEN [command |-> "restore", left |-> BackupOrder]
               ELSE [step EXCEPT !.left = Tail(@)]
    /\ UNCHANGED <<archive, counter, emptied, edits, cut, faulted, before, edited>>

\* Keys that are in use; a link that is there is passed over.
Taken(t) == IF t = "album_images" THEN {} ELSE tables[t] \cup dead[t]

\* restoreTable: each batch is inserted, or none of its rows when a key is in use
\* or the statement fails; the error is logged and the next batch comes.
RestoreTable ==
    LET t == Head(step.left) IN
    /\ step.command = "restore"
    /\ \E inserted \in SUBSET (archive[t] \ Taken(t)) :
          /\ tables' = [tables EXCEPT ![t] = @ \cup inserted]
          /\ faulted' = IF inserted # archive[t] \ Taken(t) THEN faulted \cup {t} ELSE faulted
    /\ step' = IF Tail(step.left) = <<>> THEN [command |-> "sequences", left |-> <<>>]
               ELSE [step EXCEPT !.left = Tail(@)]
    /\ UNCHANGED <<dead, archive, counter, emptied, edits, cut, before, edited>>

\* updateAutoIncrementSequences: the sequence goes on behind the greatest key,
\* of deleted rows too; an error is only logged.
UpdateSequences ==
    /\ step.command = "sequences"
    /\ \/ /\ LET keys == tables["images"] \cup dead["images"] IN
               counter' = IF keys = {} THEN counter
                          ELSE CHOOSE i \in keys : \A j \in keys : j <= i
          /\ UNCHANGED faulted
       \/ faulted' = faulted \cup {"sequence"} /\ UNCHANGED counter
    /\ step' = [step EXCEPT !.command = "restored"]
    /\ UNCHANGED <<tables, dead, archive, emptied, edits, cut, before, edited>>

RestoreDies ==
    /\ step.command \in {"truncate", "restore", "sequences"}
    /\ step' = NoCommand
    /\ UNCHANGED <<tables, dead, archive, counter, emptied, edits, cut, faulted, before, edited>>

\* The server is started on what was restored.
ServeRestored ==
    /\ step.command = "restored"
    /\ step' = NoCommand
    /\ UNCHANGED <<tables, dead, archive, counter, emptied, edits, cut, faulted, before, edited>>

\* The archive is taken to a server with an empty database.
MoveToNewDatabase ==
    /\ step = NoCommand
    /\ Archived
    /\ tables' = NoRows
    /\ dead' = NoRows
    /\ counter' = 0
    /\ UNCHANGED <<archive, step, emptied, edits, cut, faulted, before, edited>>

BackupNext ==
    \/ \E i \in BackedImages : AddImage(i) \/ AddVariants(i) \/ AddToAlbum(i) \/ RemoveImage(i)
    \/ StartBackup \/ BackupTable \/ BackupDies
    \/ StartRestore \/ TruncateTable \/ RestoreTable \/ UpdateSequences
    \/ RestoreDies \/ ServeRestored \/ MoveToNewDatabase

BackupSpec == BackupInit /\ [][BackupNext]_backupVars

---------------------------------------------------------------------------
\* Properties

\* A restore with --truncate, or into an empty database, brings a table back to
\* what it held when the backup began, whatever restores died halfway before,
\* unless the server wrote while the backup ran: no row's key is in use by then.
\* What a backup or a restore that reports a success may have lost is in the
\* tables of which it has logged an error.  And the next image gets a key that
\* is not in use, unless the sequence could not be set.
RestoreIsExact ==
    step.command = "restored" /\ emptied /\ ~ edited =>
        /\ \A t \in BackupTables \ (cut \cup faulted) : tables[t] = before[t]
        /\ "sequence" \notin faulted => counter + 1 \notin tables["images"] \cup dead["images"]
=============================================================================
