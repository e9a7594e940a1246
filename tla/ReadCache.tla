----------------------------- MODULE ReadCache ------------------------------
(***************************************************************************)
(* What is cached of one image, over its life: its metadata under the      *)
(* identifier, the marker that says there is no such image, and the list   *)
(* of its variants (cache/utils.go, internal/image/read_service.go,        *)
(* variant_service.go and the writers that invalidate).                    *)
(*                                                                         *)
(* The database is its version: each write of the row or of the variants   *)
(* counts one up, and a cached copy is the version it was read at.  An     *)
(* entry is late when what it holds had been overwritten before it was     *)
(* put there: such entries stay until they expire, and the properties      *)
(* show that there are no other stale ones.                                *)
(***************************************************************************)
EXTENDS Naturals

CONSTANTS
    Readers,     \* goroutines of requests that look at the image
    NoReader,
    Writers,     \* goroutines that change it
    MaxVersion   \* bound: writes of the row, and of its variants

ASSUME CacheAssumption == NoReader \notin Readers /\ MaxVersion \in Nat \ {0}

VARIABLES
    db,       \* life and version of the row, version of its variants
    entry,    \* image and list: the version cached, 0 for none
    marker,   \* the empty-value marker
    missed,   \* the warm-up after the insert was refused by the pool
    reader,   \* reader[r]: where GetImageWithVariant is
    flight,   \* flight[r]: the singleflight call r leads
    leader,   \* the leader whose call imageGroup has under the identifier
    fill,     \* fill[r]: the goroutine that caches what flight r found
    writer    \* writer[w]: what it has still to do

cacheVars == <<db, entry, marker, missed, reader, flight, leader, fill, writer>>

Versions == 0 .. MaxVersion
ReaderPc == {"idle", "get", "again", "join", "wait", "fetch", "store"}
WriterPc == {"idle", "reread", "clear", "set", "vrows", "vlist", "entry", "marker",
             "status", "entryThenList", "markerThenList", "list"}

CacheTypeOK ==
    /\ db \in [life : {"unborn", "live", "deleted"}, image : Versions, list : Versions]
    /\ entry \in [{"image", "list"} -> [ver : Versions, late : BOOLEAN]]
    /\ marker \in {"none", "true", "late"}
    /\ missed \in BOOLEAN
    /\ reader \in [Readers -> [pc : ReaderPc, on : Readers \cup {NoReader}, ver : Versions]]
    /\ flight \in [Readers -> [pc : {"none", "query", "end"}, found : BOOLEAN, ver : Versions]]
    /\ leader \in Readers \cup {NoReader}
    /\ fill \in [Readers -> [pc : {"none", "clear", "set"}, ver : Versions]]
    /\ writer \in [Writers -> [pc : WriterPc, ver : Versions]]

NoEntry == [ver |-> 0, late |-> FALSE]
IdleReader == [pc |-> "idle", on |-> NoReader, ver |-> 0]
NoFlight == [pc |-> "none", found |-> FALSE, ver |-> 0]
NoFill == [pc |-> "none", ver |-> 0]
IdleWriter == [pc |-> "idle", ver |-> 0]

CacheInit ==
    /\ db = [life |-> "unborn", image |-> 0, list |-> 1]
    /\ entry = [k \in {"image", "list"} |-> NoEntry]
    /\ marker = "none"
    /\ missed = FALSE
    /\ reader = [r \in Readers |-> IdleReader]
    /\ flight = [r \in Readers |-> NoFlight]
    /\ leader = NoReader
    /\ fill = [r \in Readers |-> NoFill]
    /\ writer = [w \in Writers |-> IdleWriter]

\* Helper.Cache...: an entry that holds version v of k.
Put(k, v) == entry' = [entry EXCEPT ![k] = [ver |-> v, late |-> v < db[k]]]
Drop(k) == entry' = [entry EXCEPT ![k] = NoEntry]

---------------------------------------------------------------------------
\* GetImageMetadata and the list of variants that follows it

ReaderGo(r, s) == reader' = [reader EXCEPT ![r].pc = s]
ReaderEnds(r) == reader' = [reader EXCEPT ![r] = IdleReader]

\* GetCachedImage asks for the marker, then for the entry; after a miss the
\* marker is asked for again.
ProbeMarker(r) ==
    /\ reader[r].pc = "idle"
    /\ ReaderGo(r, IF marker = "none" THEN "get" ELSE "again")

GetEntry(r) ==
    /\ reader[r].pc = "get"
    /\ IF entry["image"].ver = 0 THEN ReaderGo(r, "again") ELSE ReaderEnds(r)

ProbeMarkerAgain(r) ==
    /\ reader[r].pc = "again"
    /\ IF marker = "none" THEN ReaderGo(r, "join") ELSE ReaderEnds(r)

Probe(r) ==
    /\ ProbeMarker(r) \/ GetEntry(r) \/ ProbeMarkerAgain(r)
    /\ UNCHANGED <<db, entry, marker, missed, flight, leader, fill, writer>>

\* DoChan: the first caller leads, the others share its result.
JoinFlight(r) ==
    /\ reader[r].pc = "join"
    /\ IF leader = NoReader
         THEN /\ flight[r] = NoFlight /\ fill[r] = NoFill
              /\ leader' = r
              /\ flight' = [flight EXCEPT ![r].pc = "query"]
              /\ reader' = [reader EXCEPT ![r].pc = "wait", ![r].on = r]
         ELSE /\ reader' = [reader EXCEPT ![r].pc = "wait", ![r].on = leader]
              /\ UNCHANGED <<leader, flight>>
    /\ UNCHANGED <<db, entry, marker, missed, fill, writer>>

QueryImage(r) ==
    /\ flight[r].pc = "query"
    /\ flight' = [flight EXCEPT ![r] =
                    [pc |-> "end", found |-> db.life = "live", ver |-> db.image]]
    /\ UNCHANGED <<db, entry, marker, missed, reader, leader, fill, writer>>

\* What is missing gets its marker before the call returns, what is found is
\* cached by a goroutine after it.  Everybody who still waits gets the result.
EndFlight(r) ==
    /\ flight[r].pc = "end"
    /\ flight' = [flight EXCEPT ![r] = NoFlight]
    /\ leader' = IF leader = r THEN NoReader ELSE leader
    /\ IF flight[r].found
         THEN /\ fill' = [fill EXCEPT ![r] = [pc |-> "clear", ver |-> flight[r].ver]]
              /\ UNCHANGED marker
         ELSE /\ marker' = IF db.life = "live" THEN "late" ELSE "true"
              /\ UNCHANGED fill
    /\ reader' = [q \in Readers |->
          IF reader[q].pc = "wait" /\ reader[q].on = r THEN IdleReader ELSE reader[q]]
    /\ UNCHANGED <<db, entry, missed, writer>>

\* metaFetchTimeout, or a transient database error: the next reader leads a
\* flight of its own, while the old one goes on.
ForgetFlight(r) ==
    /\ reader[r].pc = "wait"
    /\ ReaderEnds(r)
    /\ leader' = NoReader
    /\ UNCHANGED <<db, entry, marker, missed, flight, fill, writer>>

\* CacheImage: the marker goes first, then the entry is set.
FillImage(r) ==
    /\ \/ /\ fill[r].pc = "clear"
          /\ marker' = "none"
          /\ fill' = [fill EXCEPT ![r].pc = "set"]
          /\ UNCHANGED entry
       \/ /\ fill[r].pc = "set"
          /\ Put("image", fill[r].ver)
          /\ fill' = [fill EXCEPT ![r] = NoFill]
          /\ UNCHANGED marker
    /\ UNCHANGED <<db, missed, reader, flight, leader, writer>>

\* handleCompletedVariants, by a reader that holds metadata from some time
\* after the insert: a list that is cached is used, otherwise it is fetched.
GetList(r) ==
    /\ reader[r].pc = "idle"
    /\ db.life # "unborn"
    /\ entry["list"].ver = 0
    /\ ReaderGo(r, "fetch")
    /\ UNCHANGED <<db, entry, marker, missed, flight, leader, fill, writer>>

FetchList(r) ==
    /\ reader[r].pc = "fetch"
    /\ reader' = [reader EXCEPT ![r].pc = "store", ![r].ver = db.list]
    /\ UNCHANGED <<db, entry, marker, missed, flight, leader, fill, writer>>

StoreList(r) ==
    /\ reader[r].pc = "store"
    /\ Put("list", reader[r].ver)
    /\ ReaderEnds(r)
    /\ UNCHANGED <<db, marker, missed, flight, leader, fill, writer>>

\* Mutant: the marker is set without a TTL.
ExpireEntries ==
    /\ \E k \in {"image", "list"} : entry[k].ver # 0 /\ Drop(k) /\ UNCHANGED marker
    /\ UNCHANGED <<db, missed, reader, flight, leader, fill, writer>>

\* An entry that reaches its TTL is gone.
Expire ==
    /\ \/ \E k \in {"image", "list"} : entry[k].ver # 0 /\ Drop(k) /\ UNCHANGED marker
       \/ marker # "none" /\ marker' = "none" /\ UNCHANGED entry
    /\ UNCHANGED <<db, missed, reader, flight, leader, fill, writer>>

---------------------------------------------------------------------------
\* Writers

WriterRest == UNCHANGED <<reader, flight, leader, fill>>
WriterGo(w, s) == writer' = [writer EXCEPT ![w].pc = s]
WriterEnds(w) == writer' = [writer EXCEPT ![w] = IdleWriter]
CanWrite(k) == db[k] < MaxVersion

\* An upload inserts the row; the pool may refuse to warm the cache up.
InsertImage(w) ==
    /\ writer[w].pc = "idle"
    /\ db.life = "unborn" /\ CanWrite("image")
    /\ db' = [db EXCEPT !.life = "live", !.image = @ + 1]
    /\ \/ /\ writer' = [writer EXCEPT ![w] = [pc |-> "clear", ver |-> db.image + 1]]
          /\ UNCHANGED missed
       \/ missed' = TRUE /\ UNCHANGED writer
    /\ UNCHANGED <<entry, marker>>
    /\ WriterRest

\* UpdateImageVisibility: the update, then the row is read back, ...
UpdateImage(w) ==
    /\ writer[w].pc = "idle"
    /\ db.life = "live" /\ CanWrite("image")
    /\ db' = [db EXCEPT !.image = @ + 1]
    /\ WriterGo(w, "reread")
    /\ UNCHANGED <<entry, marker, missed>>
    /\ WriterRest

RereadImage(w) ==
    /\ writer[w].pc = "reread"
    /\ IF db.life = "live"
         THEN writer' = [writer EXCEPT ![w] = [pc |-> "clear", ver |-> db.image]]
         ELSE WriterEnds(w)
    /\ UNCHANGED <<db, entry, marker, missed>>
    /\ WriterRest

\* Mutant: the entry is set and the marker left where it is.
CacheImageOnly(w) ==
    /\ \/ /\ writer[w].pc = "clear"
          /\ WriterGo(w, "set")
          /\ UNCHANGED <<entry, marker>>
       \/ /\ writer[w].pc = "set"
          /\ Put("image", writer[w].ver)
          /\ WriterEnds(w)
          /\ UNCHANGED marker
    /\ UNCHANGED <<db, missed>>
    /\ WriterRest

\* ... and CacheImage replaces the entry.
CacheImage(w) ==
    /\ \/ /\ writer[w].pc = "clear"
          /\ marker' = "none"
          /\ WriterGo(w, "set")
          /\ UNCHANGED entry
       \/ /\ writer[w].pc = "set"
          /\ Put("image", writer[w].ver)
          /\ WriterEnds(w)
          /\ UNCHANGED marker
    /\ UNCHANGED <<db, missed>>
    /\ WriterRest

\* Deletion: the row, the variants, their list and then clearImageCache.
DeleteImage(w) ==
    /\ writer[w].pc = "idle"
    /\ db.life = "live" /\ CanWrite("image")
    /\ db' = [db EXCEPT !.life = "deleted", !.image = @ + 1]
    /\ WriterGo(w, "vrows")
    /\ UNCHANGED <<entry, marker, missed>>
    /\ WriterRest

DeleteVariants(w) ==
    /\ writer[w].pc = "vrows"
    /\ db' = [db EXCEPT !.list = IF CanWrite("list") THEN @ + 1 ELSE @]
    /\ WriterGo(w, "vlist")
    /\ UNCHANGED <<entry, marker, missed>>
    /\ WriterRest

\* The end of a conversion writes the variants, then the status of the image.
SaveResults(w) ==
    /\ writer[w].pc = "idle"
    /\ db.life # "unborn" /\ CanWrite("list")
    /\ db' = [db EXCEPT !.list = @ + 1]
    /\ WriterGo(w, "status")
    /\ UNCHANGED <<entry, marker, missed>>
    /\ WriterRest

\* Mutant: the end of a conversion forgets the cache.
UpdateStatusOnly(w) ==
    /\ writer[w].pc = "status"
    /\ db' = [db EXCEPT !.image = IF db.life = "live" /\ CanWrite("image") THEN @ + 1 ELSE @]
    /\ WriterEnds(w)
    /\ UNCHANGED <<entry, marker, missed>>
    /\ WriterRest

UpdateStatus(w) ==
    /\ writer[w].pc = "status"
    /\ db' = [db EXCEPT !.image = IF db.life = "live" /\ CanWrite("image") THEN @ + 1 ELSE @]
    /\ WriterGo(w, "entryThenList")
    /\ UNCHANGED <<entry, marker, missed>>
    /\ WriterRest

\* clearImageCache has dropped the list before, deleteCacheOnTerminalState and
\* the failed submission drop it after.
DropFromCache(w) ==
    /\ LET Step(at, next) ==
               /\ writer[w].pc = at
               /\ IF next = "idle" THEN WriterEnds(w) ELSE WriterGo(w, next)
       IN \/ Step("vlist", "entry") /\ Drop("list") /\ UNCHANGED marker
          \/ Step("entry", "marker") /\ Drop("image") /\ UNCHANGED marker
          \/ Step("marker", "idle") /\ marker' = "none" /\ UNCHANGED entry
          \/ Step("entryThenList", "markerThenList") /\ Drop("image") /\ UNCHANGED marker
          \/ Step("markerThenList", "list") /\ marker' = "none" /\ UNCHANGED entry
          \/ Step("list", "idle") /\ Drop("list") /\ UNCHANGED marker
    /\ UNCHANGED <<db, missed>>
    /\ WriterRest

\* markImageProcessing and the sweeper change the status of the image and leave
\* the cache alone: what is cached becomes late without a fill being late.
ChangeStatusOnly(w) ==
    /\ writer[w].pc = "idle"
    /\ db.life = "live" /\ CanWrite("image")
    /\ db' = [db EXCEPT !.image = @ + 1]
    /\ entry' = [entry EXCEPT !["image"].late = entry["image"].ver # 0]
    /\ UNCHANGED <<marker, missed, writer>>
    /\ WriterRest

---------------------------------------------------------------------------
ReadImage(r) ==
    \/ Probe(r) \/ JoinFlight(r) \/ QueryImage(r) \/ EndFlight(r) \/ ForgetFlight(r)
    \/ FillImage(r)
ReadList(r) == GetList(r) \/ FetchList(r) \/ StoreList(r)

BeginWrite(w) ==
    InsertImage(w) \/ UpdateImage(w) \/ DeleteImage(w) \/ SaveResults(w) \/ ChangeStatusOnly(w)
FinishWrite(w) ==
    RereadImage(w) \/ CacheImage(w) \/ DeleteVariants(w) \/ UpdateStatus(w) \/ DropFromCache(w)

CacheNext ==
    \/ \E r \in Readers : ReadImage(r) \/ ReadList(r)
    \/ \E w \in Writers : BeginWrite(w) \/ FinishWrite(w)
    \/ Expire

CacheSpec == CacheInit /\ [][CacheNext]_cacheVars

\* A goroutine that has begun goes on, and time passes.  Nobody has to look or
\* to write.
CacheFairness ==
    /\ \A r \in Readers :
          /\ WF_cacheVars(QueryImage(r) \/ EndFlight(r))
          /\ WF_cacheVars(FillImage(r))
          /\ WF_cacheVars(FetchList(r) \/ StoreList(r))
    /\ \A w \in Writers : WF_cacheVars(FinishWrite(w))
    /\ \A k \in {"image", "list"} :
          WF_cacheVars(entry[k].ver # 0 /\ Expire /\ entry'[k].ver = 0)
    /\ WF_cacheVars(marker # "none" /\ Expire /\ marker' = "none")

---------------------------------------------------------------------------
\* Properties

\* Writers that have written and not yet brought the cache up to date.
Owes(k) == {w \in Writers : writer[w].pc \in
    IF k = "image"
      THEN {"reread", "clear", "set", "vrows", "vlist", "entry", "entryThenList"}
      ELSE {"vlist", "status", "entryThenList", "markerThenList", "list"}}

\* Once every writer has returned, whatever was cached in time is what the
\* database holds: a visibility change, a deletion and the end of a conversion
\* take effect, in whatever order they meet each other and the readers' fills.
EntriesAreCurrent ==
    \A k \in {"image", "list"} :
        entry[k].ver # 0 /\ ~ entry[k].late /\ Owes(k) = {} =>
            /\ entry[k].ver = db[k]
            /\ k = "image" => db.life = "live"

\* An image that has been uploaded is not reported missing, unless the marker
\* was set by a flight that had looked before, or the warm-up that would have
\* removed it was refused.
MarkerIsTrue ==
    marker = "true" /\ Owes("image") = {} => db.life # "live" \/ missed

\* However stale fills and writers leave the cache, it agrees with the database
\* for good some time after the last write.
CacheConverges ==
    <>[](/\ \A k \in {"image", "list"} : entry[k].ver \in {0, db[k]}
         /\ entry["image"].ver # 0 => db.life = "live"
         /\ marker # "none" => db.life # "live")
=============================================================================
