-------------------------- MODULE Commands_proofs ---------------------------
(***************************************************************************)
(* The two commands that move whole tables. A restore into empty tables    *)
(* brings back what was there when the backup began, whatever restores     *)
(* were broken off before it, and a migration that ends without an error   *)
(* has brought over every row and every link, however often it was broken  *)
(* off before: each but for the cases its property names.                  *)
(***************************************************************************)
EXTENDS Backup, Migration, FiniteSetTheorems, WellFoundedInduction, TLAPS

\* What is left of the tables while a command goes through them.
BackupRests == {<<"images", "image_variants", "albums", "album_images">>,
                <<"image_variants", "albums", "album_images">>,
                <<"albums", "album_images">>, <<"album_images">>}
TruncateRests == {<<"album_images", "image_variants", "images", "albums">>,
                  <<"image_variants", "images", "albums">>,
                  <<"images", "albums">>, <<"albums">>}
InRest(t, s) == \E n \in 1 .. Len(s) : s[n] = t

StepsAreKnown ==
    /\ step = [command |-> step.command, left |-> step.left]
    /\ \/ step.command \in {"backup", "restore"} /\ step.left \in BackupRests
       \/ step.command = "truncate" /\ step.left \in TruncateRests
       \/ step.command \in {"none", "sequences", "restored"} /\ step.left = <<>>

\* There is a greatest key.
KeysAreBounded ==
    \E n \in Nat : \A i \in tables["images"] \cup dead["images"] \cup archive["images"] : i <= n

\* Without writes of the server the archive is what the tables held when the
\* backup began, as far as it has come and but for tables that failed.
ArchiveIsExact ==
    ~ edited =>
        /\ step.command = "backup" => tables = before
        /\ \A t \in BackupTables :
              t \in cut \/ (step.command = "backup" /\ InRest(t, step.left)) \/ archive[t] = before[t]

\* From an empty table on a restore has inserted what it has come to, unless an
\* insertion failed.
EmptiedIsEmpty ==
    emptied =>
        /\ step.command = "truncate" =>
              \A t \in BackupTables : ~ InRest(t, step.left) => tables[t] = {} /\ dead[t] = {}
        /\ step.command \in {"restore", "sequences", "restored"} =>
              \A t \in BackupTables :
                 /\ dead[t] = {}
                 /\ step.command = "restore" /\ InRest(t, step.left) => tables[t] = {}
                 /\ \/ t \in faulted \/ (step.command = "restore" /\ InRest(t, step.left))
                    \/ tables[t] = archive[t]

NextKeyIsFree ==
    step.command = "restored" /\ "sequence" \notin faulted => counter + 1 \notin tables["images"] \cup dead["images"]

BackupInv ==
    /\ BackupTypeOK /\ StepsAreKnown /\ KeysAreBounded
    /\ ArchiveIsExact /\ EmptiedIsEmpty /\ NextKeyIsFree

LEMMA TablesAre ==
    /\ BackupTables = {"images", "image_variants", "albums", "album_images"}
    /\ BackupOrder \in BackupRests /\ TruncateOrder \in TruncateRests
    /\ \A t \in BackupTables : InRest(t, BackupOrder) /\ InRest(t, TruncateOrder)
  <1>1. BackupTables = {"images", "image_variants", "albums", "album_images"}
    BY DEF BackupTables, BackupOrder
  <1>2. BackupOrder \in BackupRests /\ TruncateOrder \in TruncateRests
    BY DEF BackupOrder, TruncateOrder, BackupRests, TruncateRests
  <1>3. /\ Len(BackupOrder) = 4 /\ BackupOrder[1] = "images" /\ BackupOrder[2] = "image_variants"
        /\ BackupOrder[3] = "albums" /\ BackupOrder[4] = "album_images"
        /\ Len(TruncateOrder) = 4 /\ TruncateOrder[1] = "album_images"
        /\ TruncateOrder[2] = "image_variants" /\ TruncateOrder[3] = "images" /\ TruncateOrder[4] = "albums"
    BY DEF BackupOrder, TruncateOrder
  <1> QED BY <1>1, <1>2, <1>3 DEF InRest

LEMMA RestGoesOn ==
    ASSUME NEW s \in BackupRests \cup TruncateRests
    PROVE  /\ s # <<>> /\ Head(s) \in BackupTables
           /\ s \in BackupRests /\ Tail(s) # <<>> => Tail(s) \in BackupRests
           /\ s \in TruncateRests /\ Tail(s) # <<>> => Tail(s) \in TruncateRests
           /\ \A t : InRest(t, s) <=> t = Head(s) \/ InRest(t, Tail(s))
           /\ ~ InRest(Head(s), Tail(s))
           /\ \A t : ~ InRest(t, <<>>)
           /\ InRest(Head(s), s)
           /\ \A n \in 1 .. Len(s) : s[n] \in BackupTables
  <1> DEFINE T == {"images", "image_variants", "albums", "album_images"}
  <1>1. s \in Seq(T) /\ s # <<>> /\ Len(s) \in 1 .. 4
    <2>1. /\ <<"images", "image_variants", "albums", "album_images">> \in Seq(T)
          /\ <<"image_variants", "albums", "album_images">> \in Seq(T)
          /\ <<"albums", "album_images">> \in Seq(T) /\ <<"album_images">> \in Seq(T)
          /\ <<"album_images", "image_variants", "images", "albums">> \in Seq(T)
          /\ <<"image_variants", "images", "albums">> \in Seq(T)
          /\ <<"images", "albums">> \in Seq(T) /\ <<"albums">> \in Seq(T)
      OBVIOUS
    <2>2. s \in Seq(T)
      BY <2>1, Zenon DEF BackupRests, TruncateRests
    <2>3. Len(s) \in 1 .. 4
      <3>1. CASE s \in BackupRests
        BY <3>1 DEF BackupRests
      <3>2. CASE s \in TruncateRests
        BY <3>2 DEF TruncateRests
      <3> QED BY <3>1, <3>2
    <2> HIDE DEF T
    <2>4. s # <<>>
      BY <2>2, <2>3
    <2> QED BY <2>2, <2>3, <2>4
  <1>2. Head(s) \in BackupTables /\ \A n \in 1 .. Len(s) : s[n] \in BackupTables
    <2>1. T \subseteq BackupTables
      BY TablesAre
    <2> HIDE DEF T
    <2>2. \A n \in 1 .. Len(s) : s[n] \in T
      BY <1>1
    <2>3. Head(s) = s[1] /\ 1 \in 1 .. Len(s)
      BY <1>1
    <2> QED BY <2>1, <2>2, <2>3
  <1>3. /\ s \in BackupRests /\ Tail(s) # <<>> => Tail(s) \in BackupRests
        /\ s \in TruncateRests /\ Tail(s) # <<>> => Tail(s) \in TruncateRests
    <2>1. /\ Tail(<<"images", "image_variants", "albums", "album_images">>)
                = <<"image_variants", "albums", "album_images">>
          /\ Tail(<<"image_variants", "albums", "album_images">>) = <<"albums", "album_images">>
          /\ Tail(<<"albums", "album_images">>) = <<"album_images">>
          /\ Tail(<<"album_images">>) = <<>>
          /\ Tail(<<"album_images", "image_variants", "images", "albums">>)
                = <<"image_variants", "images", "albums">>
          /\ Tail(<<"image_variants", "images", "albums">>) = <<"images", "albums">>
          /\ Tail(<<"images", "albums">>) = <<"albums">>
          /\ Tail(<<"albums">>) = <<>>
      OBVIOUS
    <2> QED BY <2>1, Zenon DEF BackupRests, TruncateRests
  <1> HIDE DEF T
  <1>4. ASSUME NEW t PROVE InRest(t, s) <=> t = Head(s) \/ InRest(t, Tail(s))
    <2>1. Len(Tail(s)) = Len(s) - 1 /\ \A n \in 1 .. Len(s) - 1 : Tail(s)[n] = s[n + 1]
      BY <1>1
    <2>2. ASSUME InRest(t, s) PROVE t = Head(s) \/ InRest(t, Tail(s))
      <3>1. PICK n \in 1 .. Len(s) : s[n] = t
        BY <2>2 DEF InRest
      <3>2. CASE n = 1
        BY <1>1, <3>1, <3>2
      <3>3. CASE n > 1
        <4>1. n - 1 \in 1 .. Len(s) - 1
          BY <1>1, <3>1, <3>3
        <4>2. Tail(s)[n - 1] = t
          BY <1>1, <2>1, <3>1, <4>1
        <4> QED BY <2>1, <4>1, <4>2 DEF InRest
      <3> QED BY <1>1, <3>1, <3>2, <3>3
    <2>3. ASSUME t = Head(s) PROVE InRest(t, s)
      BY <1>1, <2>3 DEF InRest
    <2>4. ASSUME InRest(t, Tail(s)) PROVE InRest(t, s)
      <3>1. PICK n \in 1 .. Len(s) - 1 : s[n + 1] = t
        BY <2>1, <2>4 DEF InRest
      <3>2. n + 1 \in 1 .. Len(s)
        BY <1>1, <3>1
      <3> QED BY <3>1, <3>2 DEF InRest
    <2> QED BY <2>2, <2>3, <2>4
  <1>5. ~ InRest(Head(s), Tail(s))
    <2>1. CASE s \in BackupRests
      BY <2>1 DEF BackupRests, InRest
    <2>2. CASE s \in TruncateRests
      BY <2>2 DEF TruncateRests, InRest
    <2> QED BY <2>1, <2>2
  <1>6. \A t : ~ InRest(t, <<>>)
    BY DEF InRest
  <1>7. InRest(Head(s), s)
    BY <1>4
  <1> QED BY <1>1, <1>2, <1>3, <1>4, <1>5, <1>6, <1>7

LEMMA BackupTyped ==
    ASSUME BackupInv
    PROVE  /\ tables \in [BackupTables -> SUBSET BackedImages] /\ dead \in [BackupTables -> SUBSET BackedImages]
           /\ archive \in [BackupTables -> SUBSET BackedImages] /\ before \in [BackupTables -> SUBSET BackedImages]
           /\ BackedImages \subseteq Nat \ {0} /\ counter \in Nat /\ edits \in 0 .. MaxEdits
           /\ "images" \in BackupTables
           /\ NoRows \in [BackupTables -> SUBSET BackedImages] /\ \A t \in BackupTables : NoRows[t] = {}
  BY TablesAre, BackupAssumption DEF BackupInv, BackupTypeOK, NoRows

LEMMA BackupBegins == BackupInit => BackupInv
  <1> SUFFICES ASSUME BackupInit PROVE BackupInv
    OBVIOUS
  <1>1. /\ tables \in [BackupTables -> SUBSET BackedImages] /\ tables["images"] = {}
        /\ "images" \in BackupTables /\ \A t \in BackupTables : NoRows[t] = {}
        /\ NoRows \in [BackupTables -> SUBSET BackedImages]
    BY TablesAre DEF BackupInit, NoRows
  <1>2. step.command = "none" /\ step.left = <<>> /\ step = [command |-> step.command, left |-> step.left]
    BY DEF BackupInit, NoCommand
  <1>3. BackupTypeOK
    <2>1. \A n \in 1 .. Len(step.left) : step.left[n] \in BackupTables
      BY <1>2
    <2>2. step.command \in Commands /\ edits \in 0 .. MaxEdits
      BY <1>2, BackupAssumption DEF Commands, BackupInit
    <2>3. /\ tables \in [BackupTables -> SUBSET BackedImages]
          /\ dead = NoRows /\ archive = NoRows /\ before = NoRows
      BY <1>1 DEF BackupInit
    <2>4. counter \in BackedImages \cup {0} /\ emptied \in BOOLEAN /\ edited \in BOOLEAN
          /\ cut \subseteq BackupTables /\ faulted \subseteq BackupTables \cup {"sequence"}
      BY DEF BackupInit
    <2> QED BY <1>1, <2>1, <2>2, <2>3, <2>4 DEF BackupTypeOK
  <1>4. KeysAreBounded
    <2>1. tables["images"] \cup dead["images"] \cup archive["images"] = {}
      BY <1>1 DEF BackupInit
    <2> QED BY <2>1 DEF KeysAreBounded
  <1>5. ArchiveIsExact /\ EmptiedIsEmpty /\ NextKeyIsFree /\ StepsAreKnown
    BY <1>2 DEF BackupInit, ArchiveIsExact, EmptiedIsEmpty, NextKeyIsFree, StepsAreKnown
  <1> QED BY <1>3, <1>4, <1>5 DEF BackupInv

\* The server writes: one more key at most.
LEMMA ServerWrites ==
    ASSUME BackupInv, ServerRuns, edited' = (edited \/ step.command = "backup"),
           tables' \in [BackupTables -> SUBSET BackedImages], dead' \in [BackupTables -> SUBSET BackedImages],
           NEW i \in BackedImages, edits < MaxEdits, edits' = edits + 1,
           tables'["images"] \cup dead'["images"] \subseteq tables["images"] \cup dead["images"] \cup {i},
           counter' \in BackedImages \cup {0},
           UNCHANGED <<archive, step, emptied, cut, faulted, before>>
    PROVE  BackupInv'
  <1>1. edits' \in 0 .. MaxEdits
    BY BackupTyped, BackupAssumption
  <1>2. BackupTypeOK'
    BY <1>1 DEF BackupInv, BackupTypeOK
  <1>3. KeysAreBounded'
    <2>1. PICK n \in Nat : \A k \in tables["images"] \cup dead["images"] \cup archive["images"] : k <= n
      BY DEF BackupInv, KeysAreBounded
    <2>2. n + i \in Nat /\ i <= n + i /\ i \in Nat
      BY BackupTyped
    <2>3. ASSUME NEW k \in tables'["images"] \cup dead'["images"] \cup archive["images"] PROVE k <= n + i
      <3>1. k \in tables["images"] \cup dead["images"] \cup archive["images"] \/ k = i
        BY <2>3
      <3>2. k \in BackedImages
        BY <2>3, BackupTyped
      <3>3. k \in Nat
        BY <3>2, BackupTyped
      <3>4. CASE k = i
        BY <2>2, <3>4
      <3>5. CASE k # i
        <4>1. k <= n
          BY <2>1, <3>1, <3>5
        <4> QED BY <2>2, <3>3, <4>1
      <3> QED BY <3>4, <3>5
    <2> QED BY <2>2, <2>3 DEF KeysAreBounded
  <1>4. step' = step /\ step.command \in {"none", "backup"}
    BY DEF ServerRuns
  <1>5. StepsAreKnown'
    BY <1>4 DEF BackupInv, StepsAreKnown
  <1>6. EmptiedIsEmpty' /\ NextKeyIsFree'
    BY <1>4 DEF EmptiedIsEmpty, NextKeyIsFree
  <1>7. ArchiveIsExact'
    <2>1. ~ edited' => ~ edited /\ step.command # "backup"
      OBVIOUS
    <2> QED BY <1>4, <2>1 DEF BackupInv, ArchiveIsExact
  <1> QED BY <1>2, <1>3, <1>5, <1>6, <1>7 DEF BackupInv

LEMMA ServerKeepsBackup ==
    ASSUME BackupInv, NEW i \in BackedImages, AddImage(i) \/ AddVariants(i) \/ AddToAlbum(i) \/ RemoveImage(i)
    PROVE  BackupInv'
  <1>1. /\ tables \in [BackupTables -> SUBSET BackedImages] /\ dead \in [BackupTables -> SUBSET BackedImages]
        /\ "images" \in BackupTables /\ counter \in BackedImages \cup {0}
        /\ "images" # "albums" /\ "image_variants" \in BackupTables
    BY BackupTyped, TablesAre DEF BackupInv, BackupTypeOK
  <1>2. ASSUME NEW written, WriteRows(written, i), counter' \in BackedImages \cup {0} PROVE BackupInv'
    <2>1. tables' \in [BackupTables -> SUBSET BackedImages]
          /\ tables'["images"] \subseteq tables["images"] \cup {i} /\ dead' = dead
      BY <1>1, <1>2 DEF WriteRows
    <2> QED BY <1>1, <1>2, <2>1, ServerWrites DEF WriteRows
  <1>3. CASE AddImage(i)
    BY <1>2, <1>3 DEF AddImage
  <1>4. CASE AddVariants(i) \/ AddToAlbum(i)
    BY <1>1, <1>2, <1>4 DEF AddVariants, AddToAlbum
  <1>5. CASE RemoveImage(i)
    <2>1. tables' \in [BackupTables -> SUBSET BackedImages] /\ tables'["images"] \subseteq tables["images"]
      BY <1>1, <1>5 DEF RemoveImage
    <2>2. dead' \in [BackupTables -> SUBSET BackedImages] /\ dead'["images"] \subseteq dead["images"] \cup {i}
      BY <1>1, <1>5 DEF RemoveImage
    <2>3. /\ ServerRuns /\ edited' = (edited \/ step.command = "backup") /\ edits < MaxEdits /\ edits' = edits + 1
          /\ counter' \in BackedImages \cup {0} /\ UNCHANGED <<archive, step, emptied, cut, faulted, before>>
      BY <1>1, <1>5 DEF RemoveImage
    <2> QED BY <2>1, <2>2, <2>3, ServerWrites
  <1> QED BY <1>3, <1>4, <1>5

LEMMA StepNow ==
    ASSUME BackupInv
    PROVE  /\ step = [command |-> step.command, left |-> step.left]
           /\ step.command \in {"backup", "restore"} => step.left \in BackupRests
           /\ step.command = "truncate" => step.left \in TruncateRests
           /\ step.command \in {"none", "sequences", "restored"} => step.left = <<>>
           /\ step.command \in Commands
  <1>1. "backup" # "truncate" /\ "restore" # "truncate"
    OBVIOUS
  <1> QED BY <1>1 DEF BackupInv, StepsAreKnown, BackupTypeOK

\* What a command has to show for itself after a step of its own.
LEMMA CommandGoes ==
    ASSUME BackupInv, UNCHANGED edits, NEW c \in Commands, NEW l, step' = [command |-> c, left |-> l],
           \/ c \in {"backup", "restore"} /\ l \in BackupRests
           \/ c = "truncate" /\ l \in TruncateRests
           \/ c \in {"none", "sequences", "restored"} /\ l = <<>>,
           tables' \in [BackupTables -> SUBSET BackedImages], dead' \in [BackupTables -> SUBSET BackedImages],
           archive' \in [BackupTables -> SUBSET BackedImages], before' \in [BackupTables -> SUBSET BackedImages],
           counter' \in BackedImages \cup {0}, emptied' \in BOOLEAN, edited' \in BOOLEAN,
           cut' \subseteq BackupTables, faulted' \subseteq BackupTables \cup {"sequence"},
           tables'["images"] \cup dead'["images"] \cup archive'["images"]
               \subseteq tables["images"] \cup dead["images"] \cup archive["images"]
    PROVE  BackupTypeOK' /\ StepsAreKnown' /\ KeysAreBounded'
  <1>1. step'.command = c /\ step'.left = l
    OBVIOUS
  <1>2. \A n \in 1 .. Len(l) : l[n] \in BackupTables
    <2>1. CASE l \in BackupRests \cup TruncateRests
      BY <2>1, RestGoesOn
    <2>2. CASE l = <<>>
      BY <2>2
    <2> QED BY <2>1, <2>2
  <1>3. BackupTypeOK'
    BY <1>1, <1>2 DEF BackupInv, BackupTypeOK
  <1>4. StepsAreKnown'
    BY <1>1 DEF StepsAreKnown
  <1>5. KeysAreBounded'
    BY DEF BackupInv, KeysAreBounded
  <1> QED BY <1>3, <1>4, <1>5

LEMMA BackupKeepsBackup ==
    ASSUME BackupInv, StartBackup \/ BackupTable \/ BackupDies
    PROVE  BackupInv'
  <1>1. /\ tables \in [BackupTables -> SUBSET BackedImages] /\ dead \in [BackupTables -> SUBSET BackedImages]
        /\ archive \in [BackupTables -> SUBSET BackedImages] /\ before \in [BackupTables -> SUBSET BackedImages]
        /\ "images" \in BackupTables /\ NoRows \in [BackupTables -> SUBSET BackedImages]
        /\ \A t \in BackupTables : NoRows[t] = {}
        /\ counter \in BackedImages \cup {0} /\ emptied \in BOOLEAN /\ edited \in BOOLEAN
        /\ cut \subseteq BackupTables /\ faulted \subseteq BackupTables \cup {"sequence"}
        /\ Commands = {"none", "backup", "truncate", "restore", "sequences", "restored"}
    BY BackupTyped DEF BackupInv, BackupTypeOK, Commands
  <1>2. CASE StartBackup
    <2>1. step' = [command |-> "backup", left |-> BackupOrder]
      BY <1>2 DEF StartBackup
    <2>2. BackupTypeOK' /\ StepsAreKnown' /\ KeysAreBounded'
      <3>1. /\ archive' = NoRows /\ before' = tables /\ edited' = FALSE /\ cut' = {}
            /\ UNCHANGED <<tables, dead, counter, emptied, faulted, edits>>
        BY <1>2 DEF StartBackup
      <3> QED BY <1>1, <2>1, <3>1, TablesAre, CommandGoes
    <2>3. step'.command = "backup" /\ step'.left = BackupOrder
      BY <2>1
    <2>4. ArchiveIsExact'
      BY <1>2, <2>3, TablesAre DEF ArchiveIsExact, StartBackup
    <2>5. EmptiedIsEmpty' /\ NextKeyIsFree'
      BY <2>3 DEF EmptiedIsEmpty, NextKeyIsFree
    <2> QED BY <2>2, <2>4, <2>5 DEF BackupInv
  <1>3. CASE BackupTable
    <2> DEFINE h == Head(step.left)
               rest == Tail(step.left)
    <2>1. /\ step.command = "backup" /\ step.left \in BackupRests
          /\ step = [command |-> "backup", left |-> step.left]
      BY <1>3, StepNow DEF BackupTable
    <2>2. /\ h \in BackupTables /\ (rest # <<>> => rest \in BackupRests)
          /\ \A t : InRest(t, step.left) <=> t = h \/ InRest(t, rest)
          /\ ~ InRest(h, rest) /\ \A t : ~ InRest(t, <<>>)
      BY <2>1, RestGoesOn
    <2>3. /\ \E written \in SUBSET tables[h] :
                /\ archive' = [archive EXCEPT ![h] = written]
                /\ (cut' = cut /\ written = tables[h]) \/ cut' = cut \cup {h}
          /\ step' = IF rest = <<>> THEN NoCommand ELSE [step EXCEPT !.left = rest]
          /\ UNCHANGED <<tables, dead, counter, emptied, faulted, edits, before, edited>>
      BY <1>3 DEF BackupTable
    <2>4. step' = IF rest = <<>> THEN [command |-> "none", left |-> <<>>]
                  ELSE [command |-> "backup", left |-> rest]
      <3> HIDE DEF h, rest
      <3>1. ASSUME NEW l PROVE [[command |-> "backup", left |-> l] EXCEPT !.left = rest]
                               = [command |-> "backup", left |-> rest]
        OBVIOUS
      <3>2. [step EXCEPT !.left = rest] = [command |-> "backup", left |-> rest]
        BY <2>1, <3>1
      <3> QED BY <2>3, <3>2 DEF NoCommand
    <2> HIDE DEF h, rest
    <2>5. /\ archive' \in [BackupTables -> SUBSET BackedImages]
          /\ h \in cut' \/ archive'[h] = tables[h]
          /\ cut' \subseteq BackupTables /\ cut \subseteq cut'
          /\ \A t \in BackupTables \ {h} : archive'[t] = archive[t]
          /\ archive'["images"] \subseteq tables["images"] \cup archive["images"]
      <3>1. PICK written \in SUBSET tables[h] :
               /\ archive' = [archive EXCEPT ![h] = written]
               /\ (cut' = cut /\ written = tables[h]) \/ cut' = cut \cup {h}
        BY <2>3
      <3>2. written \subseteq BackedImages
        BY <1>1, <2>2
      <3> QED BY <1>1, <2>2, <3>1, <3>2
    <2>6. ~ edited => \A t \in BackupTables : t \in cut' \/ InRest(t, rest) \/ archive'[t] = before[t]
      BY <2>1, <2>2, <2>5 DEF BackupInv, ArchiveIsExact
    <2>7. /\ BackupTypeOK' /\ StepsAreKnown' /\ KeysAreBounded'
      <3>1. CASE rest = <<>>
        BY <1>1, <2>3, <2>4, <2>5, <3>1, CommandGoes
      <3>2. CASE rest # <<>>
        BY <1>1, <2>2, <2>3, <2>4, <2>5, <3>2, CommandGoes
      <3> QED BY <3>1, <3>2
    <2>8. \/ step'.command = "none" /\ step'.left = <<>> /\ rest = <<>>
          \/ step'.command = "backup" /\ step'.left = rest
      BY <2>4
    <2>9. ArchiveIsExact'
      <3>1. ~ edited => tables = before
        BY <2>1 DEF BackupInv, ArchiveIsExact
      <3> QED BY <2>2, <2>3, <2>6, <2>8, <3>1 DEF ArchiveIsExact
    <2>10. EmptiedIsEmpty' /\ NextKeyIsFree'
      BY <2>8 DEF EmptiedIsEmpty, NextKeyIsFree
    <2> QED BY <2>7, <2>9, <2>10 DEF BackupInv
  <1>4. CASE BackupDies
    <2>1. /\ step' = [command |-> "none", left |-> <<>>] /\ archive' = NoRows /\ before' = NoRows /\ cut' = {}
          /\ UNCHANGED <<tables, dead, counter, emptied, faulted, edits, edited>>
      BY <1>4 DEF BackupDies, NoCommand
    <2>2. step'.command = "none" /\ step'.left = <<>>
      BY <2>1
    <2>3. BackupTypeOK' /\ StepsAreKnown' /\ KeysAreBounded'
      <3>1. archive'["images"] \subseteq archive["images"] /\ "none" \in Commands
        BY <1>1, <2>1
      <3> QED BY <1>1, <2>1, <3>1, CommandGoes
    <2>4. ArchiveIsExact' /\ EmptiedIsEmpty' /\ NextKeyIsFree'
      BY <2>1, <2>2 DEF ArchiveIsExact, EmptiedIsEmpty, NextKeyIsFree
    <2> QED BY <2>3, <2>4 DEF BackupInv
  <1> QED BY <1>2, <1>3, <1>4

LEMMA StepMoves ==
    ASSUME NEW c, NEW l, NEW m, NEW d
    PROVE  /\ [[command |-> c, left |-> l] EXCEPT !.left = m] = [command |-> c, left |-> m]
           /\ [[command |-> c, left |-> l] EXCEPT !.command = d] = [command |-> d, left |-> l]
  OBVIOUS

\* Outside backups the archive stays, and so does what it is exact about.
LEMMA ArchiveStays ==
    ASSUME BackupInv, step.command # "backup", step'.command # "backup", UNCHANGED <<archive, cut, before, edited>>
    PROVE  ArchiveIsExact'
  BY DEF BackupInv, ArchiveIsExact

LEMMA GreatestKey ==
    ASSUME NEW S \in SUBSET Nat, S # {}, NEW n \in Nat, \A i \in S : i <= n
    PROVE  \E i \in S : \A j \in S : j <= i
  <1> DEFINE B == {m \in Nat : \A i \in S : i <= m}
  <1>1. B \in SUBSET Nat /\ n \in B
    OBVIOUS
  <1>2. PICK m \in B : \A k \in B : ~ (<<k, m>> \in OpToRel(<, Nat))
    BY <1>1, NatLessThanWellFounded, WFMin
  <1>3. \A k \in B : ~ (k < m)
    BY <1>2 DEF OpToRel
  <1>4. m \in S
    <2>1. SUFFICES ASSUME m \notin S PROVE FALSE
      OBVIOUS
    <2>2. m \in Nat /\ \A i \in S : i <= m /\ i # m /\ i \in Nat
      BY <2>1
    <2>3. m > 0
      <3>1. PICK i \in S : TRUE
        OBVIOUS
      <3>2. i \in Nat /\ i <= m /\ i # m
        BY <2>2
      <3> QED BY <2>2, <3>2
    <2>4. m - 1 \in Nat /\ \A i \in S : i <= m - 1
      BY <2>2, <2>3
    <2> QED BY <1>3, <2>3, <2>4
  <1> QED BY <1>4

LEMMA RestoreKeepsBackup ==
    ASSUME BackupInv, StartRestore \/ TruncateTable \/ RestoreTable
    PROVE  BackupInv'
  <1>1. /\ tables \in [BackupTables -> SUBSET BackedImages] /\ dead \in [BackupTables -> SUBSET BackedImages]
        /\ archive \in [BackupTables -> SUBSET BackedImages] /\ before \in [BackupTables -> SUBSET BackedImages]
        /\ "images" \in BackupTables /\ \A t \in BackupTables : NoRows[t] = {}
        /\ counter \in BackedImages \cup {0} /\ emptied \in BOOLEAN /\ edited \in BOOLEAN
        /\ cut \subseteq BackupTables /\ faulted \subseteq BackupTables \cup {"sequence"}
        /\ Commands = {"none", "backup", "truncate", "restore", "sequences", "restored"}
    BY BackupTyped DEF BackupInv, BackupTypeOK, Commands
  <1>2. CASE StartRestore
    <2>1. PICK truncate \in BOOLEAN :
             /\ emptied' = (truncate \/ (tables = NoRows /\ dead = NoRows))
             /\ step' = IF truncate THEN [command |-> "truncate", left |-> TruncateOrder]
                        ELSE [command |-> "restore", left |-> BackupOrder]
      BY <1>2 DEF StartRestore
    <2>2. /\ step.command = "none" /\ faulted' = {}
          /\ UNCHANGED <<tables, dead, archive, counter, edits, cut, before, edited>>
      BY <1>2 DEF StartRestore, NoCommand
    <2>3. \/ truncate /\ step' = [command |-> "truncate", left |-> TruncateOrder]
          \/ ~ truncate /\ step' = [command |-> "restore", left |-> BackupOrder]
      BY <2>1
    <2>4. BackupTypeOK' /\ StepsAreKnown' /\ KeysAreBounded'
      <3>1. emptied' \in BOOLEAN
        BY <2>1
      <3>2. CASE step' = [command |-> "truncate", left |-> TruncateOrder]
        BY <1>1, <2>2, <3>1, <3>2, TablesAre, CommandGoes
      <3>3. CASE step' = [command |-> "restore", left |-> BackupOrder]
        BY <1>1, <2>2, <3>1, <3>3, TablesAre, CommandGoes
      <3> QED BY <2>3, <3>2, <3>3
    <2>5. \/ truncate /\ step'.command = "truncate" /\ step'.left = TruncateOrder
          \/ ~ truncate /\ step'.command = "restore" /\ step'.left = BackupOrder
      BY <2>3
    <2>6. ArchiveIsExact'
      BY <2>2, <2>5, ArchiveStays
    <2>7. EmptiedIsEmpty'
      BY <1>1, <2>1, <2>2, <2>5, TablesAre DEF EmptiedIsEmpty
    <2>8. NextKeyIsFree'
      BY <2>5 DEF NextKeyIsFree
    <2> QED BY <2>4, <2>6, <2>7, <2>8 DEF BackupInv
  <1>3. CASE TruncateTable
    <2> DEFINE h == Head(step.left)
               rest == Tail(step.left)
    <2>1. /\ step.command = "truncate" /\ step.left \in TruncateRests
          /\ step = [command |-> "truncate", left |-> step.left]
      BY <1>3, StepNow DEF TruncateTable
    <2>2. /\ h \in BackupTables /\ (rest # <<>> => rest \in TruncateRests)
          /\ \A t : InRest(t, step.left) <=> t = h \/ InRest(t, rest)
          /\ \A t : ~ InRest(t, <<>>)
      BY <2>1, RestGoesOn
    <2>3. /\ tables' = [tables EXCEPT ![h] = {}] /\ dead' = [dead EXCEPT ![h] = {}]
          /\ step' = IF rest = <<>> THEN [command |-> "restore", left |-> BackupOrder]
                     ELSE [step EXCEPT !.left = rest]
          /\ UNCHANGED <<archive, counter, emptied, edits, cut, faulted, before, edited>>
      BY <1>3 DEF TruncateTable
    <2> HIDE DEF h, rest
    <2>4. \/ rest = <<>> /\ step' = [command |-> "restore", left |-> BackupOrder]
          \/ rest # <<>> /\ step' = [command |-> "truncate", left |-> rest]
      <3>1. [step EXCEPT !.left = rest] = [command |-> "truncate", left |-> rest]
        BY <2>1, StepMoves
      <3> QED BY <2>3, <3>1
    <2>5. /\ tables' \in [BackupTables -> SUBSET BackedImages] /\ dead' \in [BackupTables -> SUBSET BackedImages]
          /\ tables'[h] = {} /\ dead'[h] = {}
          /\ \A t \in BackupTables \ {h} : tables'[t] = tables[t] /\ dead'[t] = dead[t]
          /\ tables'["images"] \subseteq tables["images"] /\ dead'["images"] \subseteq dead["images"]
      BY <1>1, <2>2, <2>3
    <2>6. BackupTypeOK' /\ StepsAreKnown' /\ KeysAreBounded'
      <3>1. CASE rest = <<>>
        BY <1>1, <2>3, <2>4, <2>5, <3>1, TablesAre, CommandGoes
      <3>2. CASE rest # <<>>
        BY <1>1, <2>2, <2>3, <2>4, <2>5, <3>2, CommandGoes
      <3> QED BY <3>1, <3>2
    <2>7. \/ rest = <<>> /\ step'.command = "restore" /\ step'.left = BackupOrder
          \/ rest # <<>> /\ step'.command = "truncate" /\ step'.left = rest
      BY <2>4
    <2>8. ArchiveIsExact'
      BY <2>1, <2>3, <2>7, ArchiveStays
    <2>9. emptied => \A t \in BackupTables : InRest(t, rest) \/ (tables'[t] = {} /\ dead'[t] = {})
      BY <2>1, <2>2, <2>5 DEF BackupInv, EmptiedIsEmpty
    <2>10. EmptiedIsEmpty'
      BY <2>2, <2>3, <2>7, <2>9, TablesAre DEF EmptiedIsEmpty
    <2>11. NextKeyIsFree'
      BY <2>7 DEF NextKeyIsFree
    <2> QED BY <2>6, <2>8, <2>10, <2>11 DEF BackupInv
  <1>4. CASE RestoreTable
    <2> DEFINE h == Head(step.left)
               rest == Tail(step.left)
    <2>1. /\ step.command = "restore" /\ step.left \in BackupRests
          /\ step = [command |-> "restore", left |-> step.left]
      BY <1>4, StepNow DEF RestoreTable
    <2>2. /\ h \in BackupTables /\ (rest # <<>> => rest \in BackupRests)
          /\ \A t : InRest(t, step.left) <=> t = h \/ InRest(t, rest)
          /\ ~ InRest(h, rest) /\ \A t : ~ InRest(t, <<>>)
      BY <2>1, RestGoesOn
    <2>3. /\ \E inserted \in SUBSET (archive[h] \ Taken(h)) :
                /\ tables' = [tables EXCEPT ![h] = @ \cup inserted]
                /\ faulted' = IF inserted # archive[h] \ Taken(h) THEN faulted \cup {h} ELSE faulted
          /\ step' = IF rest = <<>> THEN [command |-> "sequences", left |-> <<>>]
                     ELSE [step EXCEPT !.left = rest]
          /\ UNCHANGED <<dead, archive, counter, emptied, edits, cut, before, edited>>
      BY <1>4 DEF RestoreTable
    <2> HIDE DEF h, rest
    <2>4. \/ rest = <<>> /\ step' = [command |-> "sequences", left |-> <<>>]
          \/ rest # <<>> /\ step' = [command |-> "restore", left |-> rest]
      <3>1. [step EXCEPT !.left = rest] = [command |-> "restore", left |-> rest]
        BY <2>1, StepMoves
      <3> QED BY <2>3, <3>1
    <2>5. /\ tables' \in [BackupTables -> SUBSET BackedImages]
          /\ h \in faulted' \/ tables'[h] = tables[h] \cup (archive[h] \ Taken(h))
          /\ \A t \in BackupTables \ {h} : tables'[t] = tables[t]
          /\ tables'["images"] \subseteq tables["images"] \cup archive["images"]
          /\ faulted \subseteq faulted' /\ faulted' \subseteq BackupTables \cup {"sequence"}
      <3>1. PICK inserted \in SUBSET (archive[h] \ Taken(h)) :
               /\ tables' = [tables EXCEPT ![h] = @ \cup inserted]
               /\ faulted' = IF inserted # archive[h] \ Taken(h) THEN faulted \cup {h} ELSE faulted
        BY <2>3
      <3>2. inserted \subseteq archive[h] /\ archive[h] \subseteq BackedImages /\ tables[h] \subseteq BackedImages
        BY <1>1, <2>2, <3>1
      <3> QED BY <1>1, <2>2, <3>1, <3>2
    <2>6. BackupTypeOK' /\ StepsAreKnown' /\ KeysAreBounded'
      <3>1. CASE rest = <<>>
        BY <1>1, <2>3, <2>4, <2>5, <3>1, CommandGoes
      <3>2. CASE rest # <<>>
        BY <1>1, <2>2, <2>3, <2>4, <2>5, <3>2, CommandGoes
      <3> QED BY <3>1, <3>2
    <2>7. \/ rest = <<>> /\ step'.command = "sequences" /\ step'.left = <<>>
          \/ rest # <<>> /\ step'.command = "restore" /\ step'.left = rest
      BY <2>4
    <2>8. ArchiveIsExact'
      BY <2>1, <2>3, <2>7, ArchiveStays
    <2>9. ASSUME emptied
          PROVE  /\ \A t \in BackupTables : dead'[t] = {}
                 /\ \A t \in BackupTables : InRest(t, rest) => tables'[t] = {}
                 /\ \A t \in BackupTables : t \in faulted' \/ InRest(t, rest) \/ tables'[t] = archive'[t]
      <3>1. /\ \A t \in BackupTables : dead[t] = {}
            /\ \A t \in BackupTables : InRest(t, step.left) => tables[t] = {}
            /\ \A t \in BackupTables : t \in faulted \/ InRest(t, step.left) \/ tables[t] = archive[t]
        BY <2>1, <2>9 DEF BackupInv, EmptiedIsEmpty
      <3>2. tables[h] = {} /\ dead[h] = {}
        BY <2>2, <3>1
      <3>3. Taken(h) = {}
        BY <3>2 DEF Taken
      <3>4. h \in faulted' \/ tables'[h] = archive[h]
        BY <2>5, <3>2, <3>3
      <3> QED BY <2>2, <2>3, <2>5, <3>1, <3>4
    <2>10. EmptiedIsEmpty'
      BY <2>2, <2>3, <2>7, <2>9 DEF EmptiedIsEmpty
    <2>11. NextKeyIsFree'
      BY <2>7 DEF NextKeyIsFree
    <2> QED BY <2>6, <2>8, <2>10, <2>11 DEF BackupInv
  <1> QED BY <1>2, <1>3, <1>4

LEMMA SequencesKeepBackup ==
    ASSUME BackupInv, UpdateSequences \/ RestoreDies \/ ServeRestored \/ MoveToNewDatabase
    PROVE  BackupInv'
  <1>1. /\ tables \in [BackupTables -> SUBSET BackedImages] /\ dead \in [BackupTables -> SUBSET BackedImages]
        /\ archive \in [BackupTables -> SUBSET BackedImages] /\ before \in [BackupTables -> SUBSET BackedImages]
        /\ "images" \in BackupTables /\ \A t \in BackupTables : NoRows[t] = {}
        /\ NoRows \in [BackupTables -> SUBSET BackedImages]
        /\ counter \in BackedImages \cup {0} /\ emptied \in BOOLEAN /\ edited \in BOOLEAN
        /\ cut \subseteq BackupTables /\ faulted \subseteq BackupTables \cup {"sequence"}
        /\ Commands = {"none", "backup", "truncate", "restore", "sequences", "restored"}
    BY BackupTyped DEF BackupInv, BackupTypeOK, Commands
  <1>2. CASE UpdateSequences
    <2> DEFINE keys == tables["images"] \cup dead["images"]
    <2>1. step = [command |-> "sequences", left |-> <<>>] /\ step.command = "sequences"
      BY <1>2, StepNow DEF UpdateSequences
    <2>2. /\ \/ /\ counter' = IF keys = {} THEN counter ELSE CHOOSE i \in keys : \A j \in keys : j <= i
                /\ faulted' = faulted
             \/ faulted' = faulted \cup {"sequence"} /\ counter' = counter
          /\ step' = [command |-> "restored", left |-> <<>>]
          /\ UNCHANGED <<tables, dead, archive, emptied, edits, cut, before, edited>>
      <3>1. step' = [step EXCEPT !.command = "restored"]
        BY <1>2 DEF UpdateSequences
      <3>2. [step EXCEPT !.command = "restored"] = [command |-> "restored", left |-> <<>>]
        BY <2>1, StepMoves
      <3> QED BY <1>2, <3>1, <3>2 DEF UpdateSequences
    <2>3. /\ counter' \in BackedImages \cup {0}
          /\ "sequence" \in faulted' \/ counter' + 1 \notin keys
          /\ faulted \subseteq faulted' /\ faulted' \subseteq BackupTables \cup {"sequence"}
      <3>0. CASE faulted' = faulted \cup {"sequence"} /\ counter' = counter
        BY <1>1, <3>0
      <3> SUFFICES ASSUME counter' = (IF keys = {} THEN counter ELSE CHOOSE i \in keys : \A j \in keys : j <= i),
                          faulted' = faulted
                   PROVE  counter' \in BackedImages \cup {0} /\ counter' + 1 \notin keys
        BY <1>1, <2>2, <3>0
      <3>1. keys \in SUBSET Nat /\ keys \subseteq BackedImages
        BY <1>1, BackupAssumption
      <3>2. CASE keys = {}
        BY <1>1, <3>2
      <3>3. CASE keys # {}
        <4>1. PICK n \in Nat : \A i \in keys : i <= n
          BY DEF BackupInv, KeysAreBounded
        <4> HIDE DEF keys
        <4>2. \E i \in keys : \A j \in keys : j <= i
          BY <3>1, <3>3, <4>1, GreatestKey
        <4>3. counter' \in keys /\ \A j \in keys : j <= counter'
          BY <3>3, <4>2
        <4>4. counter' \in Nat
          BY <3>1, <4>3
        <4>5. \A c \in Nat : ~ (c + 1 <= c)
          OBVIOUS
        <4>6. counter' + 1 \notin keys
          BY <4>3, <4>4, <4>5
        <4> QED BY <3>1, <4>3, <4>6
      <3> QED BY <3>2, <3>3
    <2>4. step'.command = "restored" /\ step'.left = <<>>
      BY <2>2
    <2>5. BackupTypeOK' /\ StepsAreKnown' /\ KeysAreBounded'
      BY <1>1, <2>2, <2>3, CommandGoes
    <2>6. ArchiveIsExact'
      BY <2>1, <2>2, <2>4, ArchiveStays
    <2>7. EmptiedIsEmpty'
      BY <2>1, <2>2, <2>3, <2>4 DEF BackupInv, EmptiedIsEmpty
    <2>8. NextKeyIsFree'
      BY <2>2, <2>3, <2>4 DEF NextKeyIsFree
    <2> QED BY <2>5, <2>6, <2>7, <2>8 DEF BackupInv
  <1>3. ASSUME step' = NoCommand, step.command # "backup",
               tables' \in [BackupTables -> SUBSET BackedImages], dead' \in [BackupTables -> SUBSET BackedImages],
               tables'["images"] \subseteq tables["images"], dead'["images"] \subseteq dead["images"],
               counter' \in BackedImages \cup {0}, UNCHANGED <<archive, emptied, edits, cut, faulted, before, edited>>
        PROVE  BackupInv'
    <2>1. step' = [command |-> "none", left |-> <<>>] /\ step'.command = "none"
      BY <1>3 DEF NoCommand
    <2>2. tables'["images"] \cup dead'["images"] \cup archive'["images"]
             \subseteq tables["images"] \cup dead["images"] \cup archive["images"]
      BY <1>3
    <2>3. BackupTypeOK' /\ StepsAreKnown' /\ KeysAreBounded'
      BY <1>1, <1>3, <2>1, <2>2, CommandGoes
    <2>4. ArchiveIsExact'
      BY <1>3, <2>1, ArchiveStays
    <2>5. EmptiedIsEmpty' /\ NextKeyIsFree'
      BY <2>1 DEF EmptiedIsEmpty, NextKeyIsFree
    <2> QED BY <2>3, <2>4, <2>5 DEF BackupInv
  <1>4. CASE RestoreDies \/ ServeRestored
    BY <1>1, <1>3, <1>4 DEF RestoreDies, ServeRestored
  <1>5. CASE MoveToNewDatabase
    <2>1. step = NoCommand /\ NoCommand.command = "none"
      BY <1>5 DEF MoveToNewDatabase, NoCommand
    <2> QED BY <1>1, <1>3, <1>5, <2>1 DEF MoveToNewDatabase
  <1> QED BY <1>2, <1>4, <1>5

LEMMA BackupStep == BackupInv /\ [BackupNext]_backupVars => BackupInv'
  <1> SUFFICES ASSUME BackupInv, [BackupNext]_backupVars PROVE BackupInv'
    OBVIOUS
  <1>1. CASE UNCHANGED backupVars
    <2>1. BackupTypeOK' /\ StepsAreKnown' /\ KeysAreBounded'
      BY <1>1 DEF backupVars, BackupInv, BackupTypeOK, StepsAreKnown, KeysAreBounded
    <2>2. ArchiveIsExact' /\ EmptiedIsEmpty' /\ NextKeyIsFree'
      BY <1>1 DEF backupVars, BackupInv, ArchiveIsExact, EmptiedIsEmpty, NextKeyIsFree
    <2> QED BY <2>1, <2>2 DEF BackupInv
  <1> QED BY <1>1, ServerKeepsBackup, BackupKeepsBackup, RestoreKeepsBackup, SequencesKeepBackup DEF BackupNext

LEMMA BackupAlways == BackupSpec => []BackupInv
  BY BackupBegins, BackupStep, PTL DEF BackupSpec

\* The commands keep their types.
THEOREM BackupTypes == BackupSpec => []BackupTypeOK
  <1>1. BackupInv => BackupTypeOK
    BY DEF BackupInv
  <1> QED BY <1>1, BackupAlways, PTL

\* runRestore with --truncate, or into an empty database, leaves a table as it was
\* when runBackup began, if the server did not write meanwhile and however often
\* either command died before, unless one of them has logged an error of that
\* table; and the sequence of the images is behind every key, unless
\* updateAutoIncrementSequences has failed.
THEOREM RestoresAreExact == BackupSpec => []RestoreIsExact
  <1>1. ASSUME BackupInv PROVE RestoreIsExact
    <2> SUFFICES ASSUME step.command = "restored", emptied, ~ edited
                 PROVE  /\ \A t \in BackupTables \ (cut \cup faulted) : tables[t] = before[t]
                        /\ "sequence" \notin faulted =>
                              counter + 1 \notin tables["images"] \cup dead["images"]
      BY DEF RestoreIsExact
    <2>1. \A t \in BackupTables \ (cut \cup faulted) : tables[t] = archive[t] /\ archive[t] = before[t]
      BY <1>1 DEF BackupInv, EmptiedIsEmpty, ArchiveIsExact
    <2> QED BY <1>1, <2>1 DEF BackupInv, NextKeyIsFree
  <1> QED BY <1>1, BackupAlways, PTL
---------------------------------------------------------------------------
\* The migration

\* The plain tables a run has been through when it comes to table x.
Passed(x) ==
    {t \in PlainTables :
        \/ t = "users" /\ x \in {"devices", "images", "albums", "links", "tokens", "done"}
        \/ t = "devices" /\ x \in {"images", "albums", "links", "tokens", "done"}
        \/ t = "albums" /\ x \in {"links", "tokens", "done"}
        \/ t = "tokens" /\ x = "done"}

PlainTablesAreLive ==
    ~ failed =>
       /\ \A t \in Passed(table) \ unread : \A r \in PlainRows : target[t][r] = "live"
       /\ table \in PlainTables \ unread => \A r \in PlainRows : r \in todo \/ target[table][r] = "live"

\* The pages have left no image out as far as the offset.
ImagesAreLive ==
    ~ failed /\ ~ shifted =>
       /\ table = "images" =>
             \A i \in source : Position(i) <= offset =>
                i \in todo \/ target["images"][i] = "live" \/ Ambiguous(i)
       /\ table \in {"albums", "links", "tokens", "done"} =>
             \A i \in source : target["images"][i] = "live" \/ Ambiguous(i)

LinksAreMade ==
    ~ failed /\ ~ shifted /\ "links" \notin unread =>
       /\ table = "links" => \A l \in SourceLinks \ warned : l \in todo \/ l \in linked \/ Ambiguous(l[2])
       /\ table \in {"tokens", "done"} => \A l \in SourceLinks \ warned : l \in linked \/ Ambiguous(l[2])

PagesBegin ==
    /\ target = [t \in MigrationTables |-> target[t]]
    /\ table \in {"users", "devices"} => offset = 0

MigrationInv ==
    MigrationTypeOK /\ PagesBegin /\ PlainTablesAreLive /\ ImagesAreLive /\ LinksAreMade

\* The order of the tables.
LEMMA StageOrder ==
    /\ StageAfter("users") = "devices" /\ StageAfter("devices") = "images"
    /\ StageAfter("albums") = "links" /\ StageAfter("links") = "tokens" /\ StageAfter("tokens") = "done"
  <1>1. /\ MigrationOrder[1] = "users" /\ MigrationOrder[2] = "devices" /\ MigrationOrder[3] = "images"
        /\ MigrationOrder[4] = "albums" /\ MigrationOrder[5] = "links" /\ MigrationOrder[6] = "tokens"
    BY DEF MigrationOrder
  <1>2. ASSUME NEW t, NEW k \in 1 .. 6, MigrationOrder[k] = t,
               \A n \in 1 .. 6 : MigrationOrder[n] = t => n = k
        PROVE  StageAfter(t) = IF k = 6 THEN "done" ELSE MigrationOrder[k + 1]
    <2>1. (CHOOSE n \in 1 .. 6 : MigrationOrder[n] = t) = k
      BY <1>2
    <2> DEFINE c == CHOOSE n \in 1 .. 6 : MigrationOrder[n] = t
    <2>2. StageAfter(t) = IF c = 6 THEN "done" ELSE MigrationOrder[c + 1]
      BY DEF StageAfter
    <2>3. c = k
      BY <2>1
    <2> HIDE DEF c
    <2> QED BY <2>2, <2>3
  <1>3. \A n \in 1 .. 6 : n \in {1, 2, 3, 4, 5, 6}
    OBVIOUS
  <1>4. StageAfter("users") = "devices"
    BY <1>1, <1>2, <1>3
  <1>5. StageAfter("devices") = "images"
    BY <1>1, <1>2, <1>3
  <1>6. StageAfter("albums") = "links"
    BY <1>1, <1>2, <1>3
  <1>7. StageAfter("links") = "tokens"
    BY <1>1, <1>2, <1>3
  <1>8. StageAfter("tokens") = "done"
    BY <1>1, <1>2, <1>3
  <1> QED BY <1>4, <1>5, <1>6, <1>7, <1>8

LEMMA PositionsAreNumbers ==
    ASSUME MigrationTypeOK
    PROVE  /\ IsFiniteSet(source) /\ source \subseteq Nat
           /\ \A i \in source : Position(i) \in Nat /\ 1 <= Position(i) /\ Position(i) <= MaxImage
  <1>1. IsFiniteSet(SourceImages) /\ Cardinality(SourceImages) = MaxImage /\ MaxImage \in Nat
    BY FS_Interval, MigrationAssumption DEF SourceImages
  <1>2. source \subseteq SourceImages /\ SourceImages \subseteq Nat
    BY <1>1 DEF MigrationTypeOK, SourceImages
  <1>3. IsFiniteSet(source)
    BY <1>1, <1>2, FS_Subset
  <1>4. ASSUME NEW i \in source
        PROVE  Position(i) \in Nat /\ 1 <= Position(i) /\ Position(i) <= MaxImage
    <2> DEFINE P == {j \in source : j <= i}
    <2>1. IsFiniteSet(P) /\ Cardinality(P) <= Cardinality(SourceImages) /\ P \subseteq SourceImages
      BY <1>1, <1>2, FS_Subset
    <2>2. Cardinality(P) \in Nat /\ i \in P
      BY <1>2, <2>1, FS_CardinalityType
    <2>3. Cardinality(P) # 0
      BY <2>1, <2>2, FS_EmptySet
    <2> QED BY <1>1, <2>1, <2>2, <2>3 DEF Position
  <1> QED BY <1>2, <1>3, <1>4

\* Positions have no gaps: a page that is empty is behind the last image.
LEMMA PositionsHaveNoGaps ==
    ASSUME MigrationTypeOK, NEW n \in Nat, NEW i \in source, n < Position(i)
    PROVE  \E j \in source : Position(j) = n + 1
  <1>1. /\ IsFiniteSet(source) /\ source \subseteq Nat /\ MaxImage \in Nat /\ source \subseteq 1 .. MaxImage
        /\ \A k \in source : Position(k) \in Nat
    BY PositionsAreNumbers, MigrationAssumption DEF MigrationTypeOK, SourceImages
  <1> DEFINE S == {k \in source : n < Position(k)}
  <1>2. S \in SUBSET Nat /\ i \in S
    BY <1>1
  <1>3. PICK j \in S : \A k \in S : ~ (<<k, j>> \in OpToRel(<, Nat))
    BY <1>2, NatLessThanWellFounded, WFMin
  <1>4. j \in source /\ j \in Nat /\ n < Position(j) /\ \A k \in S : ~ (k < j)
    BY <1>1, <1>3 DEF OpToRel
  <1> DEFINE P == {k \in source : k < j}
  <1>5. IsFiniteSet(P) /\ j \notin P /\ {k \in source : k <= j} = P \cup {j}
    <2>1. \A a, b \in Nat : (a <= b <=> a < b \/ a = b) /\ ~ (a < a)
      OBVIOUS
    <2>2. P \subseteq source
      OBVIOUS
    <2>3. {k \in source : k <= j} = P \cup {j} /\ j \notin P
      <3>1. ~ (j < j) /\ \A k \in source : k <= j <=> k < j \/ k = j
        BY <1>1, <1>4, <2>1
      <3> QED BY <1>4, <3>1
    <2> QED BY <1>1, <2>2, <2>3, FS_Subset
  <1>6. Position(j) = Cardinality(P) + 1 /\ Cardinality(P) \in Nat
    BY <1>5, FS_AddElement, FS_CardinalityType DEF Position
  <1>7. Cardinality(P) <= n
    <2>1. CASE P = {}
      BY <2>1, FS_EmptySet
    <2>2. CASE P # {}
      <3>1. P \in SUBSET Nat /\ \A k \in P : k <= MaxImage
        <4>1. \A k \in source : k \in Nat /\ k <= MaxImage
          BY <1>1
        <4> QED BY <4>1
      <3> HIDE DEF P
      <3>2. PICK m \in P : \A k \in P : k <= m
        BY <1>1, <2>2, <3>1, GreatestKey
      <3>3. m \in source /\ m < j /\ m \in Nat
        BY <3>1, <3>2 DEF P
      <3>4. {k \in source : k <= m} = P
        <4>1. \A k \in source : k <= m => k < j
          BY <1>1, <1>4, <3>3
        <4> QED BY <3>2, <4>1 DEF P
      <3>5. Position(m) = Cardinality(P)
        BY <3>4 DEF Position
      <3>6. ~ (n < Position(m))
        BY <1>4, <3>3
      <3> QED BY <1>1, <3>3, <3>5, <3>6
    <2> QED BY <2>1, <2>2
  <1>8. Position(j) = n + 1
    BY <1>4, <1>6, <1>7
  <1> QED BY <1>4, <1>8

LEMMA LastPage ==
    ASSUME MigrationTypeOK, NextPage = {}
    PROVE  \A i \in source : Position(i) <= offset
  <1>1. offset \in Nat /\ BatchSize \in Nat /\ BatchSize >= 1
    BY MigrationAssumption DEF MigrationTypeOK
  <1>2. ASSUME NEW i \in source, ~ (Position(i) <= offset) PROVE FALSE
    <2>1. Position(i) \in Nat
      BY PositionsAreNumbers
    <2>2. PICK j \in source : Position(j) = offset + 1
      BY <1>1, <1>2, <2>1, PositionsHaveNoGaps
    <2>3. j \in NextPage
      BY <1>1, <2>2 DEF NextPage
    <2> QED BY <2>3
  <1> QED BY <1>2

RowStates == {"none", "live", "deleted"}

LEMMA MigrationTyped ==
    ASSUME MigrationInv
    PROVE  /\ \A t \in MigrationTables : target[t] \in [RowsOf(t) -> RowStates]
           /\ target = [t \in MigrationTables |-> target[t]]
           /\ source \subseteq SourceImages /\ source \subseteq Nat
           /\ offset \in Nat /\ offset \in 0 .. MaxImage + BatchSize
           /\ MaxImage \in Nat /\ BatchSize \in Nat /\ BatchSize >= 1 /\ MaxRuns \in Nat /\ runs \in 0 .. MaxRuns
           /\ failed \in BOOLEAN /\ shifted \in BOOLEAN
           /\ unread \subseteq {"links", "tokens"} /\ warned \subseteq Links
           /\ PlainTables \subseteq MigrationTables /\ "images" \in MigrationTables
           /\ RowsOf("images") = SourceImages /\ \A t \in PlainTables : RowsOf(t) = PlainRows
  <1>1. /\ MaxImage \in Nat /\ BatchSize \in Nat /\ BatchSize >= 1 /\ MaxRuns \in Nat
    BY MigrationAssumption
  <1>2. "images" \notin PlainTables
    BY DEF PlainTables
  <1>3. source \subseteq Nat
    BY <1>1, PositionsAreNumbers DEF MigrationInv
  <1>4. offset \in Nat
    BY <1>1 DEF MigrationInv, MigrationTypeOK
  <1> QED BY <1>1, <1>2, <1>3, <1>4 DEF MigrationInv, MigrationTypeOK, PagesBegin, RowsOf, MigrationTables, RowStates, Tolerated

\* Tables by name.
TableNames == {"idle", "done", "aborted", "page"} \cup {MigrationOrder[n] : n \in 1 .. 6}

LEMMA TablesHaveNames ==
    /\ TableNames = {"idle", "done", "aborted", "page", "users", "devices", "images", "albums", "links", "tokens"}
    /\ PlainTables = {"users", "devices", "albums", "tokens"}
  BY DEF TableNames, MigrationOrder, PlainTables

\* What a row that is handled without an error comes to, and what that does to
\* the others.
LEMMA RowMigrated ==
    ASSUME MigrationInv, NEW t \in MigrationTables, NEW r \in RowsOf(t),
           NEW R \in SUBSET Conflicts(t, r),
           \/ Create(t, r, R)
           \/ Conflicts(t, r) # {} /\ UNCHANGED <<target, failed, lost>>
    PROVE  /\ \A u \in MigrationTables : target'[u] \in [RowsOf(u) -> RowStates]
           /\ target' = [u \in MigrationTables |-> target'[u]]
           /\ \A u \in MigrationTables \ {t} : target'[u] = target[u]
           /\ failed' \in BOOLEAN /\ (failed => failed')
           /\ lost' \subseteq lost \cup ({t} \X RowsOf(t))
           /\ ~ failed' /\ t \in PlainTables =>
                 /\ target'[t][r] = "live"
                 /\ \A q \in PlainRows : target[t][q] = "live" => target'[t][q] = "live"
           /\ ~ failed' /\ t = "images" =>
                 /\ target'[t][r] = "live" \/ Ambiguous(r)
                 /\ \A q \in SourceImages : target[t][q] = "live" => target'[t][q] = "live" \/ Ambiguous(q)
  <1> DEFINE C == Conflicts(t, r)
             old == target[t]
  <1>1. /\ old \in [RowsOf(t) -> RowStates] /\ target = [u \in MigrationTables |-> target[u]]
        /\ \A u \in MigrationTables : target[u] \in [RowsOf(u) -> RowStates]
        /\ failed \in BOOLEAN /\ RowsOf("images") = SourceImages /\ \A u \in PlainTables : RowsOf(u) = PlainRows
        /\ "images" \notin PlainTables
    BY MigrationTyped DEF PlainTables
  <1>2. /\ C \subseteq RowsOf(t)
        /\ \A q \in C : old[q] = "live" /\ (q = r \/ t = "images")
        /\ t = "images" => \A q \in C : identifier[q] = identifier[r]
    BY DEF Conflicts
  <1>3. CASE C # {} /\ UNCHANGED <<target, failed, lost>>
    <2>1. PICK q \in C : TRUE
      BY <1>3
    <2>2. old[r] = "live" \/ (t = "images" /\ Ambiguous(r))
      <3>1. q \in RowsOf(t) /\ old[q] = "live"
        BY <1>2
      <3>2. t = "images" /\ q # r => Ambiguous(r)
        BY <1>1, <1>2, <3>1 DEF Ambiguous
      <3> QED BY <1>2, <3>1, <3>2
    <2>3. target' = target /\ failed' = failed /\ lost' = lost
      BY <1>3
    <2> QED BY <1>1, <2>2, <2>3
  <1>4. CASE Create(t, r, R)
    <2> DEFINE new == [q \in RowsOf(t) |-> IF q \in R THEN "deleted"
                         ELSE IF q = r /\ old[r] = "none" THEN "live" ELSE old[q]]
    <2>0. /\ R \subseteq RowsOf(t)
          /\ \A q \in R : old[q] = "live" /\ (q = r \/ t = "images")
          /\ t = "images" => \A q \in R : identifier[q] = identifier[r]
      BY <1>2
    <2> HIDE DEF C
    <2>1. /\ target' = [target EXCEPT ![t] = new] /\ failed' = (failed \/ ~ (old[r] = "none"))
          /\ lost' = lost \cup ({t} \X R)
      BY <1>4 DEF Create
    <2>2. new \in [RowsOf(t) -> RowStates]
      <3> HIDE DEF old
      <3>1. \A q \in RowsOf(t) : old[q] \in RowStates
        BY <1>1
      <3> QED BY <3>1 DEF RowStates
    <2>3. target'[t] = new /\ \A u \in MigrationTables \ {t} : target'[u] = target[u]
      BY <1>1, <2>1
    <2>4. target' = [u \in MigrationTables |-> target'[u]]
      BY <1>1, <2>1
    <2>5. \A u \in MigrationTables : target'[u] \in [RowsOf(u) -> RowStates]
      BY <1>1, <2>2, <2>3
    <2>6. failed' \in BOOLEAN /\ (failed => failed')
      BY <1>1, <2>1
    <2>7. lost' \subseteq lost \cup ({t} \X RowsOf(t))
      BY <2>0, <2>1
    <2>8. ASSUME ~ failed'
          PROVE  /\ r \notin R /\ new[r] = "live"
                 /\ \A q \in RowsOf(t) : old[q] = "live" => new[q] = "live" \/ q \in R
      <3>1. old[r] = "none"
        BY <2>1, <2>8
      <3>2. r \notin R
        BY <2>0, <3>1
      <3> HIDE DEF old
      <3> QED BY <3>1, <3>2
    <2>9. t \in PlainTables /\ r \notin R => R = {}
      BY <1>1, <2>0
    <2>10. t = "images" /\ r \notin R => \A q \in R : Ambiguous(q)
      BY <1>1, <2>0 DEF Ambiguous
    <2> HIDE DEF new
    <2>11. ~ failed' /\ t \in PlainTables =>
              /\ target'[t][r] = "live"
              /\ \A q \in PlainRows : target[t][q] = "live" => target'[t][q] = "live"
      BY <1>1, <2>3, <2>8, <2>9
    <2>12. ~ failed' /\ t = "images" =>
              /\ target'[t][r] = "live" \/ Ambiguous(r)
              /\ \A q \in SourceImages : target[t][q] = "live" => target'[t][q] = "live" \/ Ambiguous(q)
      BY <1>1, <2>3, <2>8, <2>10
    <2> QED BY <2>3, <2>4, <2>5, <2>6, <2>7, <2>11, <2>12
  <1> QED BY <1>3, <1>4

LEMMA SameImages ==
    ASSUME UNCHANGED identifier
    PROVE  \A i : Ambiguous(i)' <=> Ambiguous(i)
  BY DEF Ambiguous

LEMMA SamePositions ==
    ASSUME UNCHANGED source
    PROVE  \A i : Position(i)' = Position(i)
  BY DEF Position

LEMMA RowKeepsMigration ==
    ASSUME MigrationInv, NEW t \in MigrationTables, NEW r \in RowsOf(t), MigrateRow(t, r)
    PROVE  MigrationInv'
  <1>1. /\ table = t /\ r \in todo /\ t \in TableNames
        /\ UNCHANGED <<source, identifier, linked, strategy, offset, unread, warned, runs, shifted>>
        /\ "aborted" \in TableNames /\ "aborted" \notin PlainTables /\ t # "links"
    BY TablesHaveNames DEF MigrateRow, MigrationTables
  <1>2. ASSUME failed' = TRUE, table' \in {t, "aborted"}, lost' \subseteq lost \cup ({t} \X RowsOf(t)),
               \A u \in MigrationTables : target'[u] \in [RowsOf(u) -> RowStates],
               target' = [u \in MigrationTables |-> target'[u]]
        PROVE  MigrationInv'
    <2>1. lost' \subseteq MigrationTables \X (PlainRows \cup SourceImages)
      <3>1. RowsOf(t) \subseteq PlainRows \cup SourceImages
        BY DEF RowsOf
      <3> QED BY <1>2, <3>1 DEF MigrationInv, MigrationTypeOK
    <2>2. MigrationTypeOK'
      BY <1>1, <1>2, <2>1 DEF MigrationInv, MigrationTypeOK, TableNames, RowStates
    <2>3. PagesBegin'
      BY <1>1, <1>2 DEF MigrationInv, PagesBegin
    <2>4. PlainTablesAreLive' /\ ImagesAreLive' /\ LinksAreMade'
      BY <1>2 DEF PlainTablesAreLive, ImagesAreLive, LinksAreMade
    <2> QED BY <2>2, <2>3, <2>4 DEF MigrationInv
  <1>3. CASE /\ \/ \E R \in SUBSET Conflicts(t, r) : Create(t, r, R)
                \/ Conflicts(t, r) # {} /\ UNCHANGED <<target, failed, lost>>
             /\ todo' = todo \ {r} /\ UNCHANGED table
    <2>1. /\ \A u \in MigrationTables : target'[u] \in [RowsOf(u) -> RowStates]
          /\ target' = [u \in MigrationTables |-> target'[u]]
          /\ \A u \in MigrationTables \ {t} : target'[u] = target[u]
          /\ failed' \in BOOLEAN /\ (failed => failed')
          /\ lost' \subseteq lost \cup ({t} \X RowsOf(t))
      BY <1>3, RowMigrated
    <2>2. ~ failed' /\ t \in PlainTables =>
             /\ target'[t][r] = "live"
             /\ \A q \in PlainRows : target[t][q] = "live" => target'[t][q] = "live"
      BY <1>3, RowMigrated
    <2>3. ~ failed' /\ t = "images" =>
             /\ target'[t][r] = "live" \/ Ambiguous(r)
             /\ \A q \in SourceImages : target[t][q] = "live" => target'[t][q] = "live" \/ Ambiguous(q)
      BY <1>3, RowMigrated
    <2>4. MigrationTypeOK'
      <3>1. lost' \subseteq MigrationTables \X (PlainRows \cup SourceImages)
        <4>1. RowsOf(t) \subseteq PlainRows \cup SourceImages
          BY DEF RowsOf
        <4> QED BY <2>1, <4>1 DEF MigrationInv, MigrationTypeOK
      <3> QED BY <1>1, <1>3, <2>1, <3>1 DEF MigrationInv, MigrationTypeOK, RowStates
    <2>5. PagesBegin'
      BY <1>1, <1>3, <2>1 DEF MigrationInv, PagesBegin
    <2>6. PlainTablesAreLive'
      <3>1. SUFFICES ASSUME ~ failed'
                     PROVE  /\ \A u \in Passed(table) \ unread : \A q \in PlainRows : target'[u][q] = "live"
                            /\ t \in PlainTables \ unread => \A q \in PlainRows : q \in todo' \/ target'[t][q] = "live"
        BY <1>1, <1>3 DEF PlainTablesAreLive, Passed
      <3>2. /\ \A u \in Passed(table) \ unread : \A q \in PlainRows : target[u][q] = "live"
            /\ t \in PlainTables \ unread => \A q \in PlainRows : q \in todo \/ target[t][q] = "live"
        BY <1>1, <2>1, <3>1 DEF MigrationInv, PlainTablesAreLive
      <3>3. \A u \in Passed(table) : u \in MigrationTables \ {t}
        BY <1>1 DEF Passed, MigrationTables
      <3> QED BY <1>3, <2>1, <2>2, <3>1, <3>2, <3>3
    <2>7. ImagesAreLive'
      <3>1. SUFFICES ASSUME ~ failed', ~ shifted
                     PROVE  /\ t = "images" =>
                                 \A i \in source : Position(i) <= offset =>
                                    i \in todo' \/ target'["images"][i] = "live" \/ Ambiguous(i)
                            /\ t \in {"albums", "links", "tokens", "done"} =>
                                  \A i \in source : target'["images"][i] = "live" \/ Ambiguous(i)
        BY <1>1, <1>3, SameImages, SamePositions DEF ImagesAreLive
      <3>2. ~ failed /\ source \subseteq SourceImages /\ "images" \in MigrationTables
        BY <2>1, <3>1, MigrationTyped
      <3>3. ASSUME t = "images", NEW i \in source, Position(i) <= offset
            PROVE  i \in todo' \/ target'["images"][i] = "live" \/ Ambiguous(i)
        <4>1. i \in todo \/ target["images"][i] = "live" \/ Ambiguous(i)
          BY <1>1, <3>1, <3>2, <3>3 DEF MigrationInv, ImagesAreLive
        <4> QED BY <1>3, <2>3, <3>1, <3>2, <3>3, <4>1
      <3>4. ASSUME t \in {"albums", "links", "tokens", "done"}, NEW i \in source
            PROVE  target'["images"][i] = "live" \/ Ambiguous(i)
        <4>1. target["images"][i] = "live" \/ Ambiguous(i)
          BY <1>1, <3>1, <3>2, <3>4 DEF MigrationInv, ImagesAreLive
        <4> QED BY <2>1, <3>2, <3>4, <4>1
      <3> QED BY <3>3, <3>4
    <2>8. LinksAreMade'
      <3>1. SUFFICES ASSUME ~ failed', ~ shifted, "links" \notin unread, t \in {"tokens", "done"}
                     PROVE  \A l \in SourceLinks \ warned : l \in linked \/ Ambiguous(l[2])
        BY <1>1, <1>3, SameImages DEF LinksAreMade, SourceLinks
      <3> QED BY <1>1, <2>1, <3>1 DEF MigrationInv, LinksAreMade
    <2> QED BY <2>4, <2>5, <2>6, <2>7, <2>8 DEF MigrationInv
  <1>4. CASE /\ failed' = TRUE /\ UNCHANGED table
             /\ \E replaced \in SUBSET Conflicts(t, r) :
                   /\ target' = [target EXCEPT ![t] =
                        [q \in RowsOf(t) |-> IF q \in replaced THEN "deleted" ELSE @[q]]]
                   /\ lost' = lost \cup ({t} \X replaced)
    <2>1. PICK replaced \in SUBSET Conflicts(t, r) :
             /\ target' = [target EXCEPT ![t] =
                  [q \in RowsOf(t) |-> IF q \in replaced THEN "deleted" ELSE target[t][q]]]
             /\ lost' = lost \cup ({t} \X replaced)
      BY <1>4
    <2>2. [q \in RowsOf(t) |-> IF q \in replaced THEN "deleted" ELSE target[t][q]] \in [RowsOf(t) -> RowStates]
      BY MigrationTyped DEF RowStates
    <2>3. /\ \A u \in MigrationTables : target'[u] \in [RowsOf(u) -> RowStates]
          /\ target' = [u \in MigrationTables |-> target'[u]]
      BY <2>1, <2>2, MigrationTyped
    <2>4. lost' \subseteq lost \cup ({t} \X RowsOf(t))
      BY <2>1 DEF Conflicts
    <2> QED BY <1>1, <1>2, <1>4, <2>3, <2>4
  <1>5. CASE table' = "aborted" /\ failed' = TRUE /\ UNCHANGED <<target, lost>>
    BY <1>2, <1>5, MigrationTyped
  <1>6. {} \in SUBSET Conflicts(t, r) /\ Conflicts(t, r) \in SUBSET Conflicts(t, r)
    OBVIOUS
  <1> QED BY <1>1, <1>3, <1>4, <1>5, <1>6 DEF MigrateRow

LEMMA MigrationBegins == MigrationInit => MigrationInv
  <1> SUFFICES ASSUME MigrationInit PROVE MigrationInv
    OBVIOUS
  <1>1. table = "idle" /\ table \in TableNames
    BY TablesHaveNames DEF MigrationInit
  <1>2. target = [t \in MigrationTables |-> target[t]]
        /\ \A t \in MigrationTables : target[t] \in [RowsOf(t) -> {"none", "live", "deleted"}]
    <2> DEFINE F == UNION {[RowsOf(t) -> {"none", "live", "deleted"}] : t \in MigrationTables}
    <2>1. target \in [MigrationTables -> F] /\ \A t \in MigrationTables : DOMAIN target[t] = RowsOf(t)
      BY DEF MigrationInit
    <2>2. ASSUME NEW t \in MigrationTables PROVE target[t] \in [RowsOf(t) -> {"none", "live", "deleted"}]
      <3>1. target[t] \in F
        BY <2>1
      <3>2. PICK u \in MigrationTables : target[t] \in [RowsOf(u) -> {"none", "live", "deleted"}]
        BY <3>1
      <3> QED BY <2>1, <3>2
    <2> HIDE DEF F
    <2> QED BY <2>1, <2>2
  <1>3. MigrationTypeOK
    <2>1. linked \subseteq Links /\ offset \in 0 .. MaxImage + BatchSize /\ runs \in 0 .. MaxRuns
          /\ unread \subseteq Tolerated /\ warned \subseteq Links
      BY MigrationAssumption DEF MigrationInit, Links
    <2> QED BY <1>1, <1>2, <2>1 DEF MigrationInit, MigrationTypeOK, Strategies, TableNames
  <1>4. PagesBegin /\ ImagesAreLive /\ LinksAreMade
    BY <1>1, <1>2 DEF PagesBegin, ImagesAreLive, LinksAreMade
  <1>5. PlainTablesAreLive
    BY <1>1, TablesHaveNames DEF PlainTablesAreLive, Passed
  <1> QED BY <1>3, <1>4, <1>5 DEF MigrationInv

LEMMA RunKeepsMigration ==
    ASSUME MigrationInv, StartMigration \/ Die
    PROVE  MigrationInv'
  <1>1. "users" \in TableNames /\ "idle" \in TableNames /\ "users" \in PlainTables /\ "idle" \notin PlainTables
    BY TablesHaveNames
  <1>2. CASE StartMigration
    <2>1. /\ runs' \in 0 .. MaxRuns /\ strategy' \in Strategies /\ warned' = {}
          /\ offset' = 0 /\ shifted' = FALSE
          /\ UNCHANGED <<source, identifier, target, linked, lost>>
          /\ Enter("users", FALSE, {})
      <3>1. runs < MaxRuns /\ runs' = runs + 1
        BY <1>2 DEF StartMigration
      <3>2. runs' \in 0 .. MaxRuns
        BY <3>1, MigrationTyped
      <3> QED BY <1>2, <3>2, Zenon DEF StartMigration
    <2>5. /\ unread' = {} /\ failed' \in BOOLEAN
          /\ table' \in {"users", "aborted"} /\ "aborted" \in TableNames
          /\ failed' = TRUE \/ (table' = "users" /\ todo' = PlainRows)
      <3>1. "users" \notin Tolerated /\ "aborted" \in TableNames
        BY TablesHaveNames DEF Tolerated
      <3> QED BY <1>1, <2>1, <3>1 DEF Enter, ReadFor
    <2>2. MigrationTypeOK'
      <3>1. offset' \in 0 .. MaxImage + BatchSize
        BY <2>1, MigrationTyped
      <3> QED BY <1>1, <2>1, <2>5, <3>1 DEF MigrationInv, MigrationTypeOK, TableNames
    <2>3. PagesBegin' /\ ImagesAreLive' /\ LinksAreMade'
      BY <2>1, <2>5 DEF MigrationInv, PagesBegin, ImagesAreLive, LinksAreMade
    <2>4. PlainTablesAreLive'
      BY <2>5 DEF PlainTablesAreLive, Passed
    <2> QED BY <2>2, <2>3, <2>4 DEF MigrationInv
  <1>3. CASE Die
    <2>1. /\ table' = "idle"
          /\ UNCHANGED <<source, identifier, target, linked, strategy, offset, failed, unread, warned, runs,
                         shifted, lost>>
      BY <1>3 DEF Die
    <2>2. MigrationTypeOK'
      BY <1>1, <2>1 DEF MigrationInv, MigrationTypeOK, TableNames
    <2>3. PagesBegin' /\ ImagesAreLive' /\ LinksAreMade'
      BY <2>1 DEF MigrationInv, PagesBegin, ImagesAreLive, LinksAreMade
    <2>4. PlainTablesAreLive'
      BY <1>1, <2>1 DEF PlainTablesAreLive, Passed
    <2> QED BY <2>2, <2>3, <2>4 DEF MigrationInv
  <1> QED BY <1>2, <1>3

LEMMA PageKeepsMigration ==
    ASSUME MigrationInv, ReadPage
    PROVE  MigrationInv'
  <1>1. /\ table = "images" /\ todo = {}
        /\ UNCHANGED <<source, identifier, target, linked, strategy, warned, runs, shifted, lost>>
        /\ "albums" \in TableNames /\ "albums" \in PlainTables /\ "images" \notin PlainTables
        /\ "aborted" \in TableNames
    BY TablesHaveNames DEF ReadPage
  <1>2. MigrationTypeOK
    BY DEF MigrationInv
  <1>3. ~ failed => \A t \in Passed("images") \ unread : \A r \in PlainRows : target[t][r] = "live"
    BY <1>1 DEF MigrationInv, PlainTablesAreLive
  <1>4. ~ failed /\ ~ shifted =>
           \A i \in source : Position(i) <= offset => target["images"][i] = "live" \/ Ambiguous(i)
    BY <1>1 DEF MigrationInv, ImagesAreLive
  <1>7. CASE failed' = TRUE /\ table' \in {"albums", "aborted"} /\ UNCHANGED <<offset, unread>>
    <2>1. MigrationTypeOK'
      BY <1>1, <1>2, <1>7 DEF MigrationTypeOK, TableNames
    <2>2. PagesBegin' /\ LinksAreMade' /\ PlainTablesAreLive' /\ ImagesAreLive'
      BY <1>1, <1>7 DEF MigrationInv, PagesBegin, LinksAreMade, PlainTablesAreLive, ImagesAreLive
    <2> QED BY <2>1, <2>2 DEF MigrationInv
  <1>5. CASE /\ NextPage = {} /\ table' = "albums" /\ todo' = PlainRows
             /\ UNCHANGED <<offset, failed, unread>>
    <2>1. table' = "albums" /\ todo' = PlainRows /\ UNCHANGED <<offset, failed, unread>>
      BY <1>5
    <2>2. MigrationTypeOK'
      BY <1>1, <1>2, <2>1 DEF MigrationTypeOK, TableNames
    <2>3. PagesBegin' /\ LinksAreMade'
      BY <1>1, <2>1 DEF MigrationInv, PagesBegin, LinksAreMade
    <2>4. PlainTablesAreLive'
      <3>1. Passed("albums") = Passed("images")
        BY DEF Passed
      <3> QED BY <1>1, <1>3, <2>1, <3>1 DEF PlainTablesAreLive
    <2>5. ImagesAreLive'
      <3>1. ~ failed /\ ~ shifted => \A i \in source : target["images"][i] = "live" \/ Ambiguous(i)
        BY <1>2, <1>4, <1>5, LastPage
      <3> QED BY <1>1, <2>1, <3>1, SameImages DEF ImagesAreLive
    <2> QED BY <2>2, <2>3, <2>4, <2>5 DEF MigrationInv
  <1>6. CASE /\ NextPage # {} /\ todo' = NextPage /\ offset' = offset + BatchSize
             /\ UNCHANGED <<table, failed, unread>>
    <2>1. /\ table' = "images" /\ todo' = NextPage /\ offset' = offset + BatchSize
          /\ UNCHANGED <<failed, unread>>
      BY <1>1, <1>6
    <2>2. offset' \in 0 .. MaxImage + BatchSize
      <3>1. PICK i \in source : offset < Position(i)
        BY <1>6 DEF NextPage
      <3>2. Position(i) \in Nat /\ Position(i) <= MaxImage
        BY <1>2, PositionsAreNumbers
      <3>3. offset \in Nat /\ BatchSize \in Nat /\ MaxImage \in Nat
        BY MigrationTyped
      <3> QED BY <2>1, <3>1, <3>2, <3>3
    <2>3. MigrationTypeOK'
      BY <1>1, <1>2, <2>1, <2>2 DEF MigrationTypeOK, TableNames
    <2>4. PagesBegin' /\ LinksAreMade'
      BY <1>1, <2>1 DEF MigrationInv, PagesBegin, LinksAreMade
    <2>5. PlainTablesAreLive'
      BY <1>1, <1>3, <2>1 DEF PlainTablesAreLive
    <2>6. ImagesAreLive'
      <3>1. ASSUME ~ failed, ~ shifted, NEW i \in source, Position(i) <= offset + BatchSize
            PROVE  i \in NextPage \/ target["images"][i] = "live" \/ Ambiguous(i)
        <4>1. Position(i) \in Nat /\ offset \in Nat
          BY <1>2, PositionsAreNumbers, MigrationTyped
        <4>2. CASE Position(i) <= offset
          BY <1>4, <3>1, <4>2
        <4>3. CASE offset < Position(i)
          BY <3>1, <4>3 DEF NextPage
        <4> QED BY <4>1, <4>2, <4>3
      <3> QED BY <1>1, <2>1, <3>1, SameImages, SamePositions DEF ImagesAreLive
    <2> QED BY <2>3, <2>4, <2>5, <2>6 DEF MigrationInv
  <1>8. ASSUME NEW error, Enter("albums", error, unread), UNCHANGED strategy
        PROVE  \/ table' = "albums" /\ failed' = error /\ todo' = PlainRows /\ UNCHANGED unread
               \/ table' \in {"albums", "aborted"} /\ failed' = TRUE /\ UNCHANGED unread
    BY <1>1, <1>8 DEF Enter, ReadFor, Tolerated
  <1> QED BY <1>1, <1>5, <1>6, <1>7, <1>8 DEF ReadPage

LEMMA EndKeepsMigration ==
    ASSUME MigrationInv, EndTable
    PROVE  MigrationInv'
  <1>1. /\ table \in {"users", "devices", "albums", "tokens", "links"} /\ todo = {}
        /\ UNCHANGED <<source, identifier, target, linked, strategy, offset, warned, runs, shifted, lost>>
    BY TablesHaveNames DEF EndTable
  <1>2. /\ table' = "aborted" \/ <<table, table'>> \in {<<"users", "devices">>, <<"devices", "images">>,
              <<"albums", "links">>, <<"links", "tokens">>, <<"tokens", "done">>}
        /\ unread' = unread \/ unread' = unread \cup ({table'} \cap Tolerated)
        /\ \/ failed' = TRUE
           \/ /\ table' # "aborted" /\ failed' = failed
              /\ table' \in {"devices", "tokens"} => todo' = PlainRows \/ table' \in unread'
              /\ table' = "links" => todo' = SourceLinks \/ table' \in unread'
    BY <1>1, StageOrder, TablesHaveNames DEF EndTable, Enter, ReadFor, Tolerated
  <1>3. MigrationTypeOK'
    <2>1. table' \in TableNames
      BY <1>2, TablesHaveNames
    <2>2. failed' \in BOOLEAN /\ unread' \subseteq Tolerated
      BY <1>2, MigrationTyped DEF Tolerated
    <2> QED BY <1>1, <2>1, <2>2 DEF MigrationInv, MigrationTypeOK, TableNames
  <1>4. PagesBegin'
    BY <1>1, <1>2 DEF MigrationInv, PagesBegin
  <1>9. CASE failed' = TRUE
    <2>1. PlainTablesAreLive' /\ ImagesAreLive' /\ LinksAreMade'
      BY <1>9 DEF PlainTablesAreLive, ImagesAreLive, LinksAreMade
    <2> QED BY <1>3, <1>4, <2>1 DEF MigrationInv
  <1> SUFFICES ASSUME failed' # TRUE PROVE MigrationInv'
    BY <1>9
  <1>10. /\ <<table, table'>> \in {<<"users", "devices">>, <<"devices", "images">>,
              <<"albums", "links">>, <<"links", "tokens">>, <<"tokens", "done">>}
         /\ failed' = failed /\ unread \subseteq unread'
         /\ "links" \in unread' => "links" \in unread \/ table' = "links"
         /\ table' \in {"devices", "tokens"} => todo' = PlainRows \/ table' \in unread'
         /\ table' = "links" => todo' = SourceLinks \/ table' \in unread'
    BY <1>2
  <1>5. ~ failed => \A t \in Passed(table') \ unread' : \A r \in PlainRows : target[t][r] = "live"
    <2>1. Passed(table') \subseteq Passed(table) \cup ({table} \cap PlainTables)
      BY <1>10 DEF Passed
    <2>2. ~ failed => \A t \in Passed(table) \ unread : \A r \in PlainRows : target[t][r] = "live"
      BY DEF MigrationInv, PlainTablesAreLive
    <2>3. ~ failed /\ table \in PlainTables \ unread => \A r \in PlainRows : target[table][r] = "live"
      BY <1>1 DEF MigrationInv, PlainTablesAreLive
    <2> QED BY <1>10, <2>1, <2>2, <2>3
  <1>6. PlainTablesAreLive'
    BY <1>1, <1>5, <1>10, TablesHaveNames DEF PlainTablesAreLive
  <1>7. ImagesAreLive'
    <2>1. ASSUME table = "devices", NEW i \in source, Position(i) <= offset PROVE FALSE
      <3>1. offset = 0 /\ Position(i) \in Nat /\ 1 <= Position(i)
        BY <2>1, PositionsAreNumbers DEF MigrationInv, PagesBegin
      <3> QED BY <2>1, <3>1
    <2>2. ~ failed /\ ~ shifted /\ table \in {"albums", "links", "tokens"} =>
             \A i \in source : target["images"][i] = "live" \/ Ambiguous(i)
      BY DEF MigrationInv, ImagesAreLive
    <2> QED BY <1>1, <1>10, <2>1, <2>2, SameImages, SamePositions DEF ImagesAreLive
  <1>8. LinksAreMade'
    <2>1. ~ failed /\ ~ shifted /\ "links" \notin unread /\ table \in {"links", "tokens"} =>
             \A l \in SourceLinks \ warned : l \in linked \/ Ambiguous(l[2])
      BY <1>1 DEF MigrationInv, LinksAreMade
    <2>2. SourceLinks' = SourceLinks
      BY <1>1 DEF SourceLinks
    <2> QED BY <1>1, <1>10, <2>1, <2>2, SameImages DEF LinksAreMade
  <1> QED BY <1>3, <1>4, <1>6, <1>7, <1>8 DEF MigrationInv

LEMMA LinkKeepsMigration ==
    ASSUME MigrationInv, NEW l \in Links, MigrateLink(l)
    PROVE  MigrationInv'
  <1>1. /\ table = "links" /\ l \in todo /\ "aborted" \in TableNames
        /\ UNCHANGED <<source, identifier, target, strategy, offset, unread, runs, shifted, lost>>
    BY TablesHaveNames DEF MigrateLink
  <1>2. CASE table' \in {"links", "aborted"} /\ failed' = TRUE /\ UNCHANGED <<linked, warned>>
    <2>1. MigrationTypeOK' /\ PagesBegin'
      BY <1>1, <1>2 DEF MigrationInv, MigrationTypeOK, PagesBegin, TableNames
    <2>2. PlainTablesAreLive' /\ ImagesAreLive' /\ LinksAreMade'
      BY <1>2 DEF PlainTablesAreLive, ImagesAreLive, LinksAreMade
    <2> QED BY <2>1, <2>2 DEF MigrationInv
  <1>3. CASE /\ todo' = todo \ {l} /\ UNCHANGED <<table, failed>>
             /\ \/ /\ warned' = warned
                   /\ linked' = IF target["albums"][l[1]] = "live" /\ target["images"][l[2]] = "live"
                                THEN linked \cup {l} ELSE linked
                \/ linked' = linked /\ warned' = warned \cup {l}
    <2>1. MigrationTypeOK'
      BY <1>1, <1>3 DEF MigrationInv, MigrationTypeOK
    <2>2. PagesBegin'
      BY <1>1, <1>3 DEF MigrationInv, PagesBegin
    <2>3. "links" \notin PlainTables /\ "albums" \in Passed("links") \ unread
      BY TablesHaveNames, MigrationTyped DEF Passed
    <2>4. PlainTablesAreLive'
      BY <1>1, <1>3, <2>3 DEF MigrationInv, PlainTablesAreLive
    <2>5. ImagesAreLive'
      BY <1>1, <1>3, SameImages DEF MigrationInv, ImagesAreLive
    <2>6. LinksAreMade'
      <3>1. ASSUME ~ failed, ~ shifted, "links" \notin unread, NEW m \in SourceLinks \ warned'
            PROVE  m \in todo' \/ m \in linked' \/ Ambiguous(m[2])
        <4>1. m \in todo \/ m \in linked \/ Ambiguous(m[2])
          BY <1>1, <1>3, <3>1 DEF MigrationInv, LinksAreMade
        <4>2. CASE m # l \/ m \in linked
          BY <1>3, <4>1, <4>2
        <4>3. CASE m = l
          <5>1. l[1] \in PlainRows /\ l[2] \in source
            BY <4>3 DEF SourceLinks
          <5>2. target["albums"][l[1]] = "live"
            BY <1>1, <2>3, <3>1, <5>1 DEF MigrationInv, PlainTablesAreLive
          <5>3. target["images"][l[2]] = "live" \/ Ambiguous(l[2])
            BY <1>1, <3>1, <5>1 DEF MigrationInv, ImagesAreLive
          <5> QED BY <1>3, <3>1, <4>3, <5>2, <5>3
        <4> QED BY <4>2, <4>3
      <3>2. SourceLinks' = SourceLinks
        BY <1>1 DEF SourceLinks
      <3> QED BY <1>1, <1>3, <3>1, <3>2, SameImages DEF LinksAreMade
    <2> QED BY <2>1, <2>2, <2>4, <2>5, <2>6 DEF MigrationInv
  <1> QED BY <1>1, <1>2, <1>3 DEF MigrateLink

LEMMA SourceKeepsMigration ==
    ASSUME MigrationInv, NEW i \in SourceImages, DeleteInSource(i)
    PROVE  MigrationInv'
  <1>1. /\ source' \subseteq source /\ shifted' = (shifted \/ table = "images")
        /\ UNCHANGED <<identifier, target, linked, strategy, table, todo, offset, failed, unread, warned,
                       runs, lost>>
    BY DEF DeleteInSource
  <1>2. MigrationTypeOK' /\ PagesBegin'
    BY <1>1 DEF MigrationInv, MigrationTypeOK, PagesBegin
  <1>3. PlainTablesAreLive'
    BY <1>1 DEF MigrationInv, PlainTablesAreLive
  <1>4. ~ shifted' => ~ shifted /\ table # "images"
    BY <1>1
  <1>5. ImagesAreLive'
    BY <1>1, <1>4, SameImages DEF MigrationInv, ImagesAreLive
  <1>6. LinksAreMade'
    <2>1. SourceLinks' \subseteq SourceLinks
      BY <1>1 DEF SourceLinks
    <2> QED BY <1>1, <1>4, <2>1, SameImages DEF MigrationInv, LinksAreMade
  <1> QED BY <1>2, <1>3, <1>5, <1>6 DEF MigrationInv

LEMMA MigrationStep == MigrationInv /\ [MigrationNext]_migrationVars => MigrationInv'
  <1> SUFFICES ASSUME MigrationInv, [MigrationNext]_migrationVars PROVE MigrationInv'
    OBVIOUS
  <1>1. CASE UNCHANGED migrationVars
    <2>1. MigrationTypeOK' /\ PagesBegin'
      BY <1>1 DEF migrationVars, MigrationInv, MigrationTypeOK, PagesBegin
    <2>2. PlainTablesAreLive'
      BY <1>1 DEF migrationVars, MigrationInv, PlainTablesAreLive
    <2>3. ImagesAreLive'
      BY <1>1, SameImages, SamePositions DEF migrationVars, MigrationInv, ImagesAreLive
    <2>4. LinksAreMade'
      <3>1. SourceLinks' = SourceLinks
        BY <1>1 DEF migrationVars, SourceLinks
      <3> QED BY <1>1, <3>1, SameImages DEF migrationVars, MigrationInv, LinksAreMade
    <2> QED BY <2>1, <2>2, <2>3, <2>4 DEF MigrationInv
  <1> QED BY <1>1, RunKeepsMigration, PageKeepsMigration, EndKeepsMigration, RowKeepsMigration,
             LinkKeepsMigration, SourceKeepsMigration DEF MigrationNext

LEMMA MigrationAlways == MigrationSpec => []MigrationInv
  BY MigrationBegins, MigrationStep, PTL DEF MigrationSpec

\* The migration keeps its types.
THEOREM MigrationTypes == MigrationSpec => []MigrationTypeOK
  <1>1. MigrationInv => MigrationTypeOK
    BY DEF MigrationInv
  <1> QED BY <1>1, MigrationAlways, PTL

\* A run of runMigration that ends without an error has brought every row and
\* every link over, however many runs died before it, with whatever conflict
\* strategies and into whatever target, unless images were deleted from the
\* source between two pages.  Only images that share their identifier may miss,
\* and what migrateAlbumImages and migrateAPITokens pass over without an error:
\* a table they cannot read, and a link they cannot check.
THEOREM FinishedIsMigrated == MigrationSpec => []FinishedMeansMigrated
  <1>1. ASSUME MigrationInv PROVE FinishedMeansMigrated
    <2> SUFFICES ASSUME table = "done", ~ failed, ~ shifted
                 PROVE  /\ \A t \in PlainTables \ unread : \A r \in PlainRows : target[t][r] = "live"
                        /\ \A i \in source : target["images"][i] = "live" \/ Ambiguous(i)
                        /\ "links" \notin unread =>
                              \A l \in SourceLinks \ warned : l \in linked \/ Ambiguous(l[2])
      BY DEF FinishedMeansMigrated
    <2>1. Passed(table) = PlainTables
      BY TablesHaveNames DEF Passed
    <2> QED BY <1>1, <2>1 DEF MigrationInv, PlainTablesAreLive, ImagesAreLive, LinksAreMade
  <1> QED BY <1>1, MigrationAlways, PTL

=============================================================================
