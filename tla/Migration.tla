------------------------------ MODULE Migration ------------------------------
(***************************************************************************)
(* image-bed migrate run: copies the tables of a source database into a    *)
(* target one (cmd/migrate.go), row by row and without a transaction,      *)
(* while the server may still delete images in the source.  A run may die  *)
(* at any point and be started again, with another conflict strategy.      *)
(*                                                                         *)
(* Images are numbered in the order the database returns them, because     *)
(* they are read in pages by offset.  Users, devices, albums and tokens    *)
(* are read at once, each by a copy of the same code; they are the plain   *)
(* tables.  The rows of the target keep their number: a conflict is a live *)
(* row with the same one or, for an image, with the same identifier, which *)
(* images of several users with one content share.  Deleting is soft, so a *)
(* deleted row keeps its primary key.                                      *)
(***************************************************************************)
EXTENDS Naturals, Sequences, FiniteSets

CONSTANTS
    PlainRows,    \* rows of each plain table
    MaxImage,     \* images of the source
    BatchSize,    \* --batch-size
    MaxRuns       \* bound: runs of the command

ASSUME MigrationAssumption == MaxImage \in Nat /\ BatchSize \in Nat \ {0} /\ MaxRuns \in Nat

VARIABLES
    source,      \* live images of the source
    identifier,  \* identifier[i] of image i, which is not unique
    target,      \* target[t][r]: the state of row r of table t in the target
    linked,      \* pairs of album and image in the target's album_images
    strategy,    \* --on-conflict
    table,       \* the table being migrated
    todo,        \* rows read from the source and not handled yet
    offset,      \* offset of the next page
    failed,      \* stats.errors is not empty
    unread,      \* ghost: tables that could not be read, which no error tells
    warned,      \* ghost: links passed over with no more than a warning
    runs,        \* runs started
    shifted,     \* ghost: an image was deleted in the source while pages were read
    lost         \* ghost: rows of the target that were live and are not

migrationVars == <<source, identifier, target, linked, strategy, table, todo, offset, failed, unread,
                   warned, runs, shifted, lost>>

PlainTables == {"users", "devices", "albums", "tokens"}
MigrationTables == PlainTables \cup {"images"}
SourceImages == 1 .. MaxImage
RowsOf(t) == IF t = "images" THEN SourceImages ELSE PlainRows
Links == PlainRows \X SourceImages
Strategies == {"skip", "overwrite", "error"}

\* runMigration migrates the tables in this order.
MigrationOrder == <<"users", "devices", "images", "albums", "links", "tokens">>
StageAfter(t) == LET n == CHOOSE n \in 1 .. 6 : MigrationOrder[n] = t
                 IN  IF n = 6 THEN "done" ELSE MigrationOrder[n + 1]

\* Tables that may not exist: no error tells that one cannot be read.
Tolerated == {"links", "tokens"}

\* The source links every image to every album.
SourceLinks == PlainRows \X source

MigrationTypeOK ==
    /\ source \subseteq SourceImages
    /\ identifier \in [SourceImages -> SourceImages]
    /\ \A t \in MigrationTables : target[t] \in [RowsOf(t) -> {"none", "live", "deleted"}]
    /\ linked \subseteq Links
    /\ strategy \in Strategies
    /\ table \in {"idle", "done", "aborted", "page"} \cup {MigrationOrder[n] : n \in 1 .. 6}
    /\ offset \in 0 .. MaxImage + BatchSize
    /\ failed \in BOOLEAN /\ shifted \in BOOLEAN
    /\ unread \subseteq Tolerated /\ warned \subseteq Links
    /\ runs \in 0 .. MaxRuns
    /\ lost \subseteq MigrationTables \X (PlainRows \cup SourceImages)

\* A target that was used before: any rows, links between live ones.
MigrationInit ==
    /\ source = SourceImages
    /\ identifier \in [SourceImages -> SourceImages]
    /\ target \in [MigrationTables -> UNION {[RowsOf(t) -> {"none", "live", "deleted"}] : t \in MigrationTables}]
    /\ \A t \in MigrationTables : DOMAIN target[t] = RowsOf(t)
    /\ linked \in {{}, {l \in Links : /\ target["albums"][l[1]] = "live"
                                      /\ target["images"][l[2]] = "live"}}
    /\ strategy = "skip"
    /\ table = "idle"
    /\ todo = {}
    /\ offset = 0
    /\ failed = FALSE
    /\ unread = {} /\ warned = {}
    /\ runs = 0
    /\ shifted = FALSE
    /\ lost = {}

---------------------------------------------------------------------------
\* The nth live image of the source, counted from one.
Position(i) == Cardinality({j \in source : j <= i})
NextPage == {i \in source : offset < Position(i) /\ Position(i) <= offset + BatchSize}

\* What a table reads when its turn comes.
ReadFor(t) == IF t \in PlainTables THEN PlainRows
              ELSE IF t = "links" THEN SourceLinks ELSE {}

\* A table's turn, with what the run has met so far.  One that cannot be read is
\* passed over; with --on-conflict=error an error ends the run.
Enter(t, error, missing) ==
    \/ /\ table' = t
       /\ todo' = ReadFor(t)
       /\ failed' = error /\ unread' = missing
    \/ /\ t \in Tolerated
       /\ table' = t
       /\ todo' = {}
       /\ failed' = error /\ unread' = missing \cup {t}
    \/ /\ t \in PlainTables \ Tolerated
       /\ table' = IF strategy' = "error" THEN "aborted" ELSE t
       /\ todo' = {}
       /\ failed' = TRUE /\ unread' = missing

StartMigration ==
    /\ table \in {"idle", "done", "aborted"}
    /\ runs < MaxRuns
    /\ runs' = runs + 1
    /\ strategy' \in Strategies
    /\ Enter("users", FALSE, {})
    /\ offset' = 0
    /\ warned' = {}
    /\ shifted' = FALSE
    /\ UNCHANGED <<source, identifier, target, linked, lost>>

Conflicts(t, r) ==
    {q \in RowsOf(t) : /\ target[t][q] = "live"
                       /\ q = r \/ (t = "images" /\ identifier[q] = identifier[r])}

\* Create, after the rows of the target that are replaced have been deleted:
\* a deleted row is in its way.
Create(t, r, replaced) ==
    LET free == target[t][r] = "none" IN
    /\ target' = [target EXCEPT ![t] =
          [q \in RowsOf(t) |-> IF q \in replaced THEN "deleted"
                               ELSE IF q = r /\ free THEN "live" ELSE target[t][q]]]
    /\ failed' = (failed \/ ~ free)
    /\ lost' = lost \cup ({t} \X replaced)

\* One row: handleConflict, and what the strategy makes of it.  The error of the
\* deletion is dropped; any other is kept, and ends the run if --on-conflict says
\* so and it is handleConflict's.
MigrateRow(t, r) ==
    /\ table = t
    /\ r \in todo
    /\ LET conflicts == Conflicts(t, r) IN
         \/ /\ conflicts = {} \/ strategy = "overwrite"
            /\ \E replaced \in {conflicts, {}} : Create(t, r, replaced)
            /\ todo' = todo \ {r}
            /\ UNCHANGED table
         \/ /\ conflicts # {} /\ strategy = "skip"
            /\ todo' = todo \ {r}
            /\ UNCHANGED <<target, table, failed, lost>>
         \/ /\ strategy # "error" \/ conflicts = {}
            /\ todo' = todo \ {r}
            /\ failed' = TRUE
            /\ \E replaced \in {conflicts, {}} :
                  /\ replaced # {} => strategy = "overwrite"
                  /\ target' = [target EXCEPT ![t] =
                       [q \in RowsOf(t) |-> IF q \in replaced THEN "deleted" ELSE @[q]]]
                  /\ lost' = lost \cup ({t} \X replaced)
            /\ UNCHANGED table
         \/ /\ strategy = "error"
            /\ table' = "aborted"
            /\ todo' = {}
            /\ failed' = TRUE
            /\ UNCHANGED <<target, lost>>
    /\ UNCHANGED <<source, identifier, linked, strategy, offset, unread, warned, runs, shifted>>

\* Mutant: each page begins one image too late.
ReadPageSkipping ==
    /\ table = "images"
    /\ todo = {}
    /\ UNCHANGED strategy
    /\ IF NextPage = {}
         THEN Enter("albums", failed, unread) /\ UNCHANGED offset
         ELSE /\ todo' = NextPage
              /\ offset' = offset + BatchSize + 1
              /\ UNCHANGED <<table, failed, unread>>
    /\ UNCHANGED <<source, identifier, target, linked, warned, runs, shifted, lost>>

\* Mutant: an empty page does not end the table.
ReadPageForever ==
    /\ table = "images"
    /\ todo = {}
    /\ todo' = NextPage
    /\ offset' = offset + BatchSize
    /\ UNCHANGED <<source, identifier, target, linked, strategy, table, failed, unread, warned, runs,
                   shifted, lost>>

\* migrateImages: Limit and Offset over what the source holds at that time, until
\* a page is empty or cannot be read.
ReadPage ==
    /\ table = "images"
    /\ todo = {}
    /\ UNCHANGED strategy
    /\ \/ NextPage = {} /\ Enter("albums", failed, unread) /\ UNCHANGED offset
       \/ /\ NextPage # {}
          /\ todo' = NextPage
          /\ offset' = offset + BatchSize
          /\ UNCHANGED <<table, failed, unread>>
       \/ strategy # "error" /\ Enter("albums", TRUE, unread) /\ UNCHANGED offset
       \/ /\ strategy = "error"
          /\ table' = "aborted" /\ failed' = TRUE
          /\ UNCHANGED <<todo, offset, unread>>
    /\ UNCHANGED <<source, identifier, target, linked, warned, runs, shifted, lost>>

EndTable ==
    /\ table \in PlainTables \cup {"links"}
    /\ todo = {}
    /\ UNCHANGED strategy
    /\ IF StageAfter(table) = "done"
         THEN table' = "done" /\ UNCHANGED <<todo, failed, unread>>
         ELSE Enter(StageAfter(table), failed, unread)
    /\ UNCHANGED <<source, identifier, target, linked, offset, warned, runs, shifted, lost>>

\* migrateAlbumImages: a link is passed over when it is there, and when one of
\* its ends is not live in the target.  An error of the three checks is only
\* logged, the insertion's is kept.
MigrateLink(l) ==
    /\ table = "links"
    /\ l \in todo
    /\ LET present == l \in linked
           ends == target["albums"][l[1]] = "live" /\ target["images"][l[2]] = "live" IN
         \/ /\ present /\ strategy = "error"
            /\ table' = "aborted" /\ failed' = TRUE /\ todo' = {}
            /\ UNCHANGED <<linked, warned>>
         \/ /\ present => strategy # "error"
            /\ todo' = todo \ {l}
            /\ linked' = IF ends THEN linked \cup {l} ELSE linked
            /\ UNCHANGED <<table, failed, warned>>
         \/ /\ todo' = todo \ {l}
            /\ warned' = warned \cup {l}
            /\ UNCHANGED <<table, failed, linked>>
         \/ /\ ~ present /\ ends
            /\ todo' = todo \ {l}
            /\ failed' = TRUE
            /\ UNCHANGED <<table, linked, warned>>
    /\ UNCHANGED <<source, identifier, target, strategy, offset, unread, runs, shifted, lost>>

Die ==
    /\ table \notin {"idle", "done", "aborted"}
    /\ table' = "idle"
    /\ todo' = {}
    /\ UNCHANGED <<source, identifier, target, linked, strategy, offset, failed, unread, warned, runs,
                   shifted, lost>>

\* The server deletes an image of the source, with its links.
DeleteInSource(i) ==
    /\ table \notin {"idle", "done", "aborted"}
    /\ i \in source
    /\ source' = source \ {i}
    /\ shifted' = (shifted \/ table = "images")
    /\ UNCHANGED <<identifier, target, linked, strategy, table, todo, offset, failed, unread, warned,
                   runs, lost>>

MigrationNext ==
    \/ StartMigration \/ ReadPage \/ EndTable \/ Die
    \/ \E t \in MigrationTables : \E r \in RowsOf(t) : MigrateRow(t, r)
    \/ \E l \in Links : MigrateLink(l)
    \/ \E i \in SourceImages : DeleteInSource(i)

MigrationSpec == MigrationInit /\ [][MigrationNext]_migrationVars

---------------------------------------------------------------------------
\* Properties

\* An image shares its identifier with another one.
Ambiguous(i) == \E j \in SourceImages \ {i} : identifier[j] = identifier[i]

\* A run that ends without an error has left every row and every link of the
\* source live in the target, whatever earlier runs died halfway: unless images
\* were deleted in the source while it was read in pages, which shifts them.
\* An image that shares its identifier may be passed over, and its links.  What
\* no error tells is missing in two tables only: the tokens or the links when
\* the source's table could not be read, and links that could not be checked.
FinishedMeansMigrated ==
    table = "done" /\ ~ failed /\ ~ shifted =>
        /\ \A t \in PlainTables \ unread : \A r \in PlainRows : target[t][r] = "live"
        /\ \A i \in source : target["images"][i] = "live" \/ Ambiguous(i)
        /\ "links" \notin unread =>
              \A l \in SourceLinks \ warned : l \in linked \/ Ambiguous(l[2])

\* --on-conflict=overwrite replaces the rows that conflict (migrate.go:37): the
\* target does not lose them.
OverwriteLosesNothing == lost = {}
=============================================================================
