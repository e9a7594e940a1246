------------------------------- MODULE Albums -------------------------------
(***************************************************************************)
(* An album of a user, its images, and the cached page of the user's album *)
(* list (database/repo/albums, api/handler/albums, cache/utils.go).        *)
(*                                                                         *)
(* A page is cached under a version number; a change invalidates it by     *)
(* counting the version up, which is a read and a write of the cache.      *)
(* What a page shows is a number that every change of the albums counts    *)
(* up.                                                                     *)
(***************************************************************************)
EXTENDS Naturals

CONSTANTS
    Images,       \* the user's images
    Listers,      \* requests that list the albums
    Editors,      \* requests that change them
    MaxContent    \* bound: changes of what the list shows, and increments

ASSUME AlbumAssumption == MaxContent \in Nat

VARIABLES
    album,       \* the row of the album
    members,     \* album_images
    present,     \* images that are not soft-deleted
    overlapped,  \* images deleted while a request was adding them
    content,     \* what the list shows now
    version,     \* the version under the user's key, 0 when there is none
    pages,       \* pages[v]: the page cached under version v
    lister,      \* lister[l]: the locals of ListAlbumsHandler and its goroutine
    editor       \* editor[e]: the locals of a handler and its goroutine

albumVars == <<album, members, present, overlapped, content, version, pages, lister, editor>>

AlbumContents == 0 .. MaxContent
PageVersions == 0 .. MaxContent

\* late: what the page shows had changed before its version was read, or was
\* changed by a deletion of images, which leaves the versions alone.
\* again: the version has gone down since, and may come a second time.
\* What a late page shows does not matter any more.
Page == [there : BOOLEAN, content : AlbumContents, late : BOOLEAN, again : BOOLEAN]
NoPage == [there |-> FALSE, content |-> 0, late |-> FALSE, again |-> FALSE]
LatePage == [NoPage EXCEPT !.there = TRUE, !.late = TRUE]

AlbumTypeOK ==
    /\ album \in {"none", "live", "deleted"}
    /\ members \subseteq Images
    /\ present \subseteq Images
    /\ overlapped \subseteq Images
    /\ content \in AlbumContents
    /\ version \in PageVersions
    /\ pages \in [PageVersions -> Page]
    /\ lister \in [Listers -> [pc : {"idle", "look", "query", "version", "store"},
                               version : PageVersions, page : Page]]
    /\ editor \in [Editors -> [pc : {"idle", "update", "add", "remove", "version", "store"},
                               picked : SUBSET Images, version : PageVersions]]

IdleLister == [pc |-> "idle", version |-> 0, page |-> NoPage]
IdleEditor == [pc |-> "idle", picked |-> {}, version |-> 0]

AlbumInit ==
    /\ album = "none"
    /\ members = {}
    /\ present = Images
    /\ overlapped = {}
    /\ content = 0
    /\ version = 0
    /\ pages = [v \in PageVersions |-> NoPage]
    /\ lister = [l \in Listers |-> IdleLister]
    /\ editor = [e \in Editors |-> IdleEditor]

---------------------------------------------------------------------------
\* ListAlbumsHandler

ListRest == UNCHANGED <<album, members, present, overlapped, content, version, editor>>

\* GetCachedAlbumList reads the version and then the page of that version.
ReadListVersion(l) ==
    /\ lister[l].pc = "idle"
    /\ lister' = [lister EXCEPT ![l].pc = "look", ![l].version = version]
    /\ UNCHANGED pages
    /\ ListRest

LookUpPage(l) ==
    /\ lister[l].pc = "look"
    /\ lister' = [lister EXCEPT ![l] =
          IF pages[lister[l].version].there THEN IdleLister
          ELSE [IdleLister EXCEPT !.pc = "query"]]
    /\ UNCHANGED pages
    /\ ListRest

QueryAlbums(l) ==
    /\ lister[l].pc = "query"
    /\ lister' = [lister EXCEPT ![l].pc = "version", ![l].page.content = content]
    /\ UNCHANGED pages
    /\ ListRest

\* CacheAlbumList, in a goroutine of its own, reads the version again.
ReadVersionToStore(l) ==
    /\ lister[l].pc = "version"
    /\ lister' = [lister EXCEPT ![l].pc = "store", ![l].version = version,
          ![l].page = IF @.content < content THEN LatePage ELSE [@ EXCEPT !.there = TRUE]]
    /\ UNCHANGED pages
    /\ ListRest

StorePage(l) ==
    /\ lister[l].pc = "store"
    /\ pages' = [pages EXCEPT ![lister[l].version] = lister[l].page]
    /\ lister' = [lister EXCEPT ![l] = IdleLister]
    /\ ListRest

ListStep(l) ==
    \/ ReadListVersion(l) \/ LookUpPage(l) \/ QueryAlbums(l)
    \/ ReadVersionToStore(l) \/ StorePage(l)

\* A page that is stored, or on its way with its version read.
MarkPages(Mark(_)) ==
    /\ pages' = [v \in PageVersions |-> IF pages[v].there THEN Mark(pages[v]) ELSE pages[v]]
    /\ lister' = [l \in Listers |->
          IF lister[l].pc = "store" THEN [lister[l] EXCEPT !.page = Mark(lister[l].page)]
          ELSE lister[l]]
ComesAgain(p) == [p EXCEPT !.again = ~ p.late]
IsLate(p) == LatePage

---------------------------------------------------------------------------
\* The handlers that change albums.  Each reads what it checks first and then
\* runs its transaction, which looks at the album again under a row lock.

EditRest == UNCHANGED <<present, overlapped, version, pages, lister>>
EditorGo(e, s) == editor' = [editor EXCEPT ![e].pc = s, ![e].picked = {}]
EditorEnds(e) == editor' = [editor EXCEPT ![e] = IdleEditor]
Shows == content < MaxContent /\ content' = content + 1

CreateAlbum(e) ==
    /\ editor[e].pc = "idle"
    /\ album = "none"
    /\ album' = "live"
    /\ Shows
    /\ EditorGo(e, "version")
    /\ UNCHANGED members
    /\ EditRest

DeleteAlbum(e) ==
    /\ editor[e].pc = "idle"
    /\ album = "live"
    /\ album' = "deleted"
    /\ members' = {}
    /\ Shows
    /\ EditorGo(e, "version")
    /\ EditRest

\* The album is there, and the images that are added or removed are the user's.
FetchForEdit(e) ==
    /\ editor[e].pc = "idle"
    /\ album = "live"
    /\ \/ editor' = [editor EXCEPT ![e].pc = "update"]
       \/ \E S \in SUBSET present \ {{}} : \E s \in {"add", "remove"} :
             editor' = [editor EXCEPT ![e].pc = s, ![e].picked = S]
    /\ UNCHANGED <<album, members, content>>
    /\ EditRest

\* UpdateAlbum: a deleted album has no row to update, and no error either.
UpdateAlbum(e) ==
    /\ editor[e].pc = "update"
    /\ IF album = "live" THEN Shows ELSE UNCHANGED content
    /\ EditorGo(e, "version")
    /\ UNCHANGED <<album, members>>
    /\ EditRest

\* Mutant: the transaction does not look at the album again.
AddImagesUnchecked(e) ==
    /\ editor[e].pc = "add"
    /\ IF editor[e].picked \ members # {}
         THEN members' = members \cup editor[e].picked /\ Shows /\ EditorGo(e, "version")
         ELSE EditorEnds(e) /\ UNCHANGED <<members, content>>
    /\ UNCHANGED album
    /\ EditRest

AddImagesToAlbum(e) ==
    /\ editor[e].pc = "add"
    /\ IF album = "live" /\ editor[e].picked \ members # {}
         THEN members' = members \cup editor[e].picked /\ Shows /\ EditorGo(e, "version")
         ELSE EditorEnds(e) /\ UNCHANGED <<members, content>>
    /\ UNCHANGED album
    /\ EditRest

\* One image or several; the handler for one invalidates in any case.
RemoveImagesFromAlbum(e) ==
    /\ editor[e].pc = "remove"
    /\ IF album = "live" /\ editor[e].picked \cap members # {}
         THEN members' = members \ editor[e].picked /\ Shows /\ EditorGo(e, "version")
         ELSE /\ EditorEnds(e) \/ (album = "live" /\ EditorGo(e, "version"))
              /\ UNCHANGED <<members, content>>
    /\ UNCHANGED album
    /\ EditRest

\* DeleteCachedAlbumList, in a goroutine of its own: two calls of the cache.
\* (MaxContent bounds the versions.)
ReadVersionToIncrement(e) ==
    /\ editor[e].pc = "version"
    /\ version < MaxContent
    /\ editor' = [editor EXCEPT ![e].pc = "store", ![e].version = version]
    /\ UNCHANGED <<album, members, content>>
    /\ EditRest

\* Mutant: the version is written back as it was read.
StoreSameVersion(e) ==
    /\ editor[e].pc = "store"
    /\ version' = editor[e].version
    /\ IF version' < version THEN MarkPages(ComesAgain) ELSE UNCHANGED <<pages, lister>>
    /\ EditorEnds(e)
    /\ UNCHANGED <<album, members, present, overlapped, content>>

StoreVersion(e) ==
    /\ editor[e].pc = "store"
    /\ version' = editor[e].version + 1
    /\ IF version' < version THEN MarkPages(ComesAgain) ELSE UNCHANGED <<pages, lister>>
    /\ EditorEnds(e)
    /\ UNCHANGED <<album, members, present, overlapped, content>>

EditStep(e) ==
    \/ CreateAlbum(e) \/ DeleteAlbum(e) \/ FetchForEdit(e) \/ UpdateAlbum(e)
    \/ AddImagesToAlbum(e) \/ RemoveImagesFromAlbum(e)
    \/ ReadVersionToIncrement(e) \/ StoreVersion(e)

\* Mutant: the image stays in its albums.
DeleteImageOnly(i) ==
    /\ i \in present
    /\ present' = present \ {i}
    /\ overlapped' = overlapped \cup
          {j \in {i} : \E e \in Editors : editor[e].pc = "add" /\ j \in editor[e].picked}
    /\ UNCHANGED <<album, members, content, version, pages, lister, editor>>

\* DeleteBatchTransaction takes an image out of all albums and leaves the
\* cached pages alone.
DeleteFromAlbums(i) ==
    /\ i \in present
    /\ present' = present \ {i}
    /\ members' = members \ {i}
    /\ overlapped' = overlapped \cup
          {j \in {i} : \E e \in Editors : editor[e].pc = "add" /\ j \in editor[e].picked}
    /\ IF i \in members THEN Shows /\ MarkPages(IsLate)
       ELSE UNCHANGED <<content, pages, lister>>
    /\ UNCHANGED <<album, version, editor>>

\* A key expires or is evicted; the version then counts from 0.
ExpireVersion ==
    /\ version # 0
    /\ version' = 0
    /\ MarkPages(ComesAgain)
    /\ UNCHANGED <<album, members, present, overlapped, content, editor>>

ExpirePage ==
    /\ \E v \in PageVersions : pages[v].there /\ pages' = [pages EXCEPT ![v] = NoPage]
    /\ UNCHANGED <<album, members, present, overlapped, content, version, lister, editor>>

AlbumNext ==
    \/ \E l \in Listers : ListStep(l)
    \/ \E e \in Editors : EditStep(e)
    \/ \E i \in Images : DeleteFromAlbums(i)
    \/ ExpireVersion
    \/ ExpirePage

AlbumSpec == AlbumInit /\ [][AlbumNext]_albumVars

---------------------------------------------------------------------------
\* Properties

Invalidated == \A e \in Editors : editor[e].pc \notin {"version", "store"}

\* When every change has been followed by its invalidation, the page that is
\* served shows the albums as they are, although increments of the version are
\* lost when two changes meet: unless the page was stored late, or its version
\* has come again.
PagesAreCurrent ==
    Invalidated /\ pages[version].there /\ ~ pages[version].late /\ ~ pages[version].again
        => pages[version].content = content

\* An album that was deleted has no images, whatever was being added to it.
DeletedAlbumsAreEmpty == album = "deleted" => members = {}

\* An image that is deleted is in no album, unless it was being added at that
\* very time (the images are looked up before the transaction that adds them).
DanglingNeedsOverlap == members \ present \subseteq overlapped
=============================================================================
