----------------------------- MODULE ImageServing ----------------------------
(***************************************************************************)
(* Which file of an image is sent, and how                                 *)
(* (internal/image/variant_service.go, thumbnail.go,                       *)
(* utils/format/negotiator.go, api/handler/images/get_handler.go,          *)
(* thumbnail_handler.go, and the providers in storage/).                   *)
(*                                                                         *)
(* A request is given a completed variant it accepts, or the original;     *)
(* from there a chain of ways to send the file is tried, each falling      *)
(* through to the next: a redirect to the storage, the cache of image      *)
(* data, sendfile, streaming, a reader; and what fails for a variant       *)
(* starts again with the original.  Files are deleted meanwhile, the       *)
(* storage may fail once in a while, and what has been sent cannot be      *)
(* taken back.                                                             *)
(***************************************************************************)
EXTENDS Naturals, Sequences

CONSTANT MaxGlitches   \* bound: transient failures of the storage

ASSUME ServingAssumption == MaxGlitches \in Nat

VARIABLES
    request,     \* what is asked for, and from which storage
    trying,      \* the way that is tried next, for which file
    inStorage,   \* files in the storage
    data,        \* files in the cache of image data
    status,      \* status line sent, 0 before
    body,        \* what was sent after it
    glitches,    \* failures so far
    broken       \* ghost: the storage broke off with a part of the file sent

servingVars == <<request, trying, inStorage, data, status, body, glitches, broken>>

Files == {"variant", "original"}
Providers == {"local", "webdav", "s3"}
Ways == {"select", "direct", "provider", "cache", "sendfile", "stream", "reader", "done"}

\* known: files whose ETag the client has.  direct: public image, and a transfer
\* mode and a storage that allow a redirect.  configured: the storage is.
Requests ==
    {r \in [asked : {"image", "thumbnail"}, provider : Providers,
            direct : BOOLEAN, configured : BOOLEAN, caching : BOOLEAN, known : SUBSET Files] :
       r.direct => r.provider = "s3"}

ServingTypeOK ==
    /\ request \in Requests
    /\ trying.file \in Files /\ trying.way \in Ways
    /\ inStorage \subseteq Files /\ data \subseteq Files
    /\ status \in {0, 200, 302, 304, 404, 500}
    /\ \A n \in 1 .. Len(body) : body[n] \in Files \cup {"error"}
    /\ glitches \in 0 .. MaxGlitches
    /\ broken \in BOOLEAN

ServingInit ==
    /\ request \in Requests
    /\ trying = [way |-> "select", file |-> "original"]
    /\ inStorage = Files
    /\ data \in SUBSET Files
    /\ status = 0
    /\ body = <<>>
    /\ glitches = 0
    /\ broken = FALSE

Try(way) == trying' = [trying EXCEPT !.way = way]
Done == trying' = [trying EXCEPT !.way = "done"]
\* "return 原图": serveOriginalImage, from its beginning.
ServeOriginal == trying' = [way |-> "direct", file |-> "original"]

\* The first status line is the one that is sent.
Sent(code, part) ==
    /\ status' = IF status = 0 THEN code ELSE status
    /\ body' = body \o part

Answer(code, part) == Done /\ Sent(code, part)

\* checkETag, which every way of sending a file does first.
Known == trying.file \in request.known
Silent == UNCHANGED <<status, body>>

CanFail == glitches < MaxGlitches
Glitch == CanFail /\ glitches' = glitches + 1

---------------------------------------------------------------------------
\* Which file

Formats == {"avif", "webp"}

\* An Accept header: what it says of each format, and of those it does not name.
\* A quality of 0 refuses.
Preferences == [Formats \cup {"any"} -> {"accepted", "refused", "unnamed"}]

ClientSupports(prefs, f) ==
    \/ prefs[f] = "accepted"
    \/ prefs[f] = "unnamed" /\ prefs["any"] = "accepted"

\* The server's order, not the client's, decides between two formats.
Negotiate(prefs, enabled, available) ==
    LET candidates == {f \in enabled \cap available : ClientSupports(prefs, f)} IN
        IF candidates = {} THEN "original"
        ELSE IF "avif" \in candidates THEN "avif" ELSE "webp"

\* A thumbnail that is missing is replaced by the WebP variant, then by the
\* original.
Thumbnail(enabled, available) ==
    IF ~ enabled THEN "original"
    ELSE IF "thumbnail" \in available THEN "thumbnail"
    ELSE IF "webp" \in available THEN "webp" ELSE "original"

\* SelectBestVariant, GetThumbnail.  available: formats with a completed row, as
\* read or cached.  There are none for a GIF or a WebP image, and for one whose
\* conversion has not ended.
SelectFile ==
    /\ trying.way = "select"
    /\ \E available \in SUBSET (Formats \cup {"thumbnail"}) :
          LET chosen ==
                IF request.asked = "image"
                  THEN {Negotiate(p, e, available) : p \in Preferences, e \in SUBSET Formats}
                  ELSE {Thumbnail(e, available) : e \in BOOLEAN} IN
            \E f \in chosen :
               trying' = [way |-> "direct",
                          file |-> IF f = "original" THEN "original" ELSE "variant"]
    /\ UNCHANGED <<request, inStorage, data, status, body, glitches, broken>>

---------------------------------------------------------------------------
\* The ways to send it

\* getVariantDirectURLIfPossible: a redirect, without looking whether the file
\* is there.
DirectURL ==
    /\ trying.way = "direct"
    /\ IF request.direct /\ request.configured THEN Answer(302, <<>>)
       ELSE Try("provider") /\ Silent
    /\ UNCHANGED <<request, inStorage, data, glitches, broken>>

\* getStorageProvider: without one a variant falls back to the original, which
\* fails.
StorageProvider ==
    /\ trying.way = "provider"
    /\ \/ request.configured /\ Try("cache") /\ Silent
       \/ ~ request.configured /\ trying.file = "variant" /\ ServeOriginal /\ Silent
       \/ ~ request.configured /\ trying.file = "original" /\ Answer(500, <<"error">>)
    /\ UNCHANGED <<request, inStorage, data, glitches, broken>>

\* getOrPopulateImageDataCache: not for local files, nor for thumbnails; a miss
\* loads the file when it is small enough.
UsesCache == /\ request.caching /\ request.provider # "local"
             /\ ~ (request.asked = "thumbnail" /\ trying.file = "variant")

SendFile == IF Known THEN Answer(304, <<>>) ELSE Answer(200, <<trying.file>>)

FromCache ==
    /\ trying.way = "cache"
    /\ \/ UsesCache /\ trying.file \in data /\ SendFile /\ UNCHANGED <<data, glitches>>
       \/ /\ UsesCache /\ trying.file \in inStorage \ data
          /\ data' = data \cup {trying.file}
          /\ SendFile
          /\ UNCHANGED glitches
       \/ /\ trying.file \notin data
          /\ Try("sendfile") /\ Silent /\ UNCHANGED <<data, glitches>>
       \/ Glitch /\ UsesCache /\ trying.file \notin data /\ Try("sendfile") /\ Silent
          /\ UNCHANGED data
    /\ UNCHANGED <<request, inStorage, broken>>

\* serveBySendfile, for the files the program can open.
BySendfile ==
    /\ trying.way = "sendfile"
    /\ \/ request.provider # "local" /\ Try("stream") /\ Silent
       \/ request.provider = "local" /\ Known /\ Answer(304, <<>>)
       \/ /\ request.provider = "local" /\ ~ Known
          /\ IF trying.file \in inStorage THEN Answer(200, <<trying.file>>)
             ELSE Try("stream") /\ Silent
    /\ UNCHANGED <<request, inStorage, data, glitches, broken>>

\* Mutant: a client that leaves is taken for a stream that failed.
ClientLeavesLate ==
    /\ Try("reader")
    /\ Sent(200, <<trying.file>>)
    /\ UNCHANGED <<glitches, broken>>

\* serveByStreaming: what fails before the first byte falls through, and so does
\* what breaks off later, unless it is the client who left.
ClientLeaves == Answer(200, <<trying.file>>) /\ UNCHANGED <<glitches, broken>>

StreamBreaks ==
    /\ Glitch
    /\ Try("reader")
    /\ Sent(200, <<trying.file>>)
    /\ broken' = TRUE

ByStreaming ==
    /\ trying.way = "stream"
    /\ \/ Known /\ Answer(304, <<>>) /\ UNCHANGED <<glitches, broken>>
       \/ /\ ~ Known /\ trying.file \in inStorage
          /\ \/ Answer(200, <<trying.file>>) /\ UNCHANGED <<glitches, broken>>
             \/ ClientLeaves
             \/ StreamBreaks
             \/ Glitch /\ Try("reader") /\ Silent /\ UNCHANGED broken
       \/ /\ ~ Known /\ trying.file \notin inStorage
          /\ Try("reader") /\ Silent /\ UNCHANGED <<glitches, broken>>
    /\ UNCHANGED <<request, inStorage, data>>

\* Mutant: no way back to the original.
ReaderGivesUp == Answer(404, <<"error">>)

\* GetWithContext; a variant that cannot be read falls back to the original.
ReaderFails ==
    IF trying.file = "variant" THEN ServeOriginal /\ Silent ELSE Answer(404, <<"error">>)

\* An S3 object is opened without asking whether it is there, and the answer
\* fails when it is read.
ReaderFailsLate == request.provider = "s3" /\ Answer(500, <<"error">>)

\* ServeContent has sent the header when the read fails: the body is cut short.
ReaderBreaks == ~ Known /\ Answer(200, <<trying.file>>) /\ broken' = TRUE

ByReader ==
    /\ trying.way = "reader"
    /\ \/ trying.file \in inStorage /\ SendFile /\ UNCHANGED <<glitches, broken>>
       \/ /\ trying.file \notin inStorage
          /\ ReaderFails \/ ReaderFailsLate
          /\ UNCHANGED <<glitches, broken>>
       \/ Glitch /\ (ReaderFails \/ ReaderFailsLate) /\ UNCHANGED broken
       \/ Glitch /\ trying.file \in inStorage /\ ReaderBreaks
    /\ UNCHANGED <<request, inStorage, data>>

\* A deletion, or a conversion that removes the files it wrote.
FileGoes(f) ==
    /\ trying.way # "done"
    /\ f \in inStorage
    /\ inStorage' = inStorage \ {f}
    /\ UNCHANGED <<request, trying, data, status, body, glitches, broken>>

ServingNext ==
    \/ SelectFile \/ DirectURL \/ StorageProvider \/ FromCache \/ BySendfile \/ ByStreaming \/ ByReader
    \/ \E f \in Files : FileGoes(f)

ServingSpec == ServingInit /\ [][ServingNext]_servingVars

---------------------------------------------------------------------------
\* Properties

\* An answer is one file or one error, and an error does not come as a 200:
\* whatever was tried before has sent nothing, unless the storage broke off in
\* the middle of the file.
AnswerIsOneImage ==
    trying.way = "done" /\ ~ broken =>
        /\ Len(body) <= 1
        /\ status = 200 <=> (body # <<>> /\ body[1] \in Files)

\* A variant whose file is gone costs nobody the image: while the original is
\* there and the storage answers, so does the server.  Not so for S3, where a
\* missing object is found out too late to fall back.
OriginalCoversVariant ==
    (/\ trying.way = "done"
     /\ request.configured /\ request.provider # "s3"
     /\ "original" \in inStorage
     /\ glitches = 0) => status \in {200, 302, 304}
=============================================================================
