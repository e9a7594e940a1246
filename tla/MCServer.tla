------------------------------ MODULE MCServer -------------------------------
(***************************************************************************)
(* The parts of the server and its commands that share no variable, each   *)
(* checked by itself: a step of one part commutes with every step of       *)
(* another, so interleaving them would show nothing more.                  *)
(*                                                                         *)
(* A cast is a part and the goroutines that play in it.  Where all of them *)
(* at once are too many, several casts share the questions.                *)
(***************************************************************************)
EXTENDS ImageStore, Albums, ConfigStorage, Settings, Sessions, Migration, Backup,
        ImageServing, ClientLimits, TLC

CONSTANTS u1, u2, d1, d2, j1, a1, a2, up1, l1, e1, e2, b1, t1, t2

VARIABLE cast

Part(name, who) == [part |-> name, who |-> who]
Casts ==
    {Part("store", who) : who \in {{u1, u2, d1}, {u1, d1, d2}, {u1, j1, d1}, {u1, d1}}}
    \cup {Part("albums", who) : who \in {{l1, e1, e2}, {l1, e1}, {e1, e2}}}
    \cup {Part("config", who) : who \in {{a1, a2}, {a1, up1}}}
    \cup {Part(name, {}) : name \in {"settings", "sessions", "migration",
                                     "backup", "serving", "limits"}}

On(name) == cast.part = name
Plays(S) == S \cap cast.who

vars == <<storeVars, albumVars, configVars, settingsVars, sessionVars, migrationVars,
          backupVars, servingVars, limitVars, cast>>

\* Parts that begin in one of several states begin in one of them when they do
\* not play.  The plain tables of a migration are copied by the same code, one
\* after the other, and begin alike.  The first browser is the first tab's.
Init ==
    /\ MigrationInit
    /\ \A t \in {"users", "devices", "tokens"} : target[t] = target["albums"]
    /\ identifier[1] = 1
    /\ cast \in Casts
    /\ StoreInit /\ AlbumInit /\ ConfigInit /\ SettingsInit /\ BackupInit /\ LimitInit
    /\ ~ On("migration") =>
          /\ identifier[2] = 1 /\ linked = {}
          /\ target = [t \in MigrationTables |-> [r \in RowsOf(t) |-> "none"]]
    /\ ServingInit
    /\ ~ On("serving") =>
          /\ request = [asked |-> "image", provider |-> "local", direct |-> FALSE,
                        configured |-> TRUE, caching |-> TRUE, known |-> {}]
          /\ data = {}
    /\ SessionInit
    /\ tab[t1].browser = b1
    /\ ~ On("sessions") => tab[t2].browser = b1

StorePart ==
    /\ On("store")
    /\ \/ \E u \in Plays(Uploads) : UploadStep(u)
       \/ \E j \in Plays(Conversions) : JobStep(j)
       \/ \E d \in Plays(Deletes) : BeginDelete(d) \/ DeleteStep(d)
       \/ u2 \notin cast.who /\ j1 \notin cast.who /\ (Midnight \/ CleanTempFiles)
    \* Operations fail when there are two at most.
    /\ Cardinality(cast.who) > 2 => errors' = errors
    /\ UNCHANGED <<albumVars, configVars, settingsVars, sessionVars, migrationVars,
                   backupVars, servingVars, limitVars>>

AlbumPart ==
    /\ On("albums")
    /\ \/ \E l \in Plays(Listers) : ListStep(l)
       \/ \E e \in Plays(Editors) : EditStep(e)
       \/ Cardinality(cast.who) = 2 /\ \E i \in Images : DeleteFromAlbums(i)
       \/ ExpireVersion
       \/ Cardinality(cast.who) = 2 /\ ExpirePage
    \* With a lister, fewer changes.
    /\ l1 \in cast.who => content' < MaxContent /\ version' < MaxContent
    /\ UNCHANGED <<storeVars, configVars, settingsVars, sessionVars, migrationVars,
                   backupVars, servingVars, limitVars>>

ConfigPart ==
    /\ On("config")
    /\ \/ \E a \in Plays(Admins) :
             \/ CreateConfig(a) \/ LoadProvider(a) \/ RollbackCreate(a) \/ UpdateConfig(a)
             \/ CountImages(a) \/ DeleteConfig(a) \/ SetDefaultConfig(a) \/ EnableConfig(a)
             \/ DisableConfig(a)
       \/ \E u \in Plays(Uploaders) : ChooseStorage(u) \/ InsertStoredImage(u)
       \/ up1 \in cast.who /\ LastImageDeleted
       \/ Start
    \* Two administrators and failures at once are too many.
    /\ a2 \in cast.who => failures' = failures
    /\ UNCHANGED <<storeVars, albumVars, settingsVars, sessionVars, migrationVars,
                   backupVars, servingVars, limitVars>>

SettingsPart ==
    /\ On("settings")
    /\ SettingsNext
    /\ UNCHANGED <<storeVars, albumVars, configVars, sessionVars, migrationVars,
                   backupVars, servingVars, limitVars>>

SessionPart ==
    /\ On("sessions")
    /\ SessionNext
    /\ UNCHANGED <<storeVars, albumVars, configVars, settingsVars, migrationVars,
                   backupVars, servingVars, limitVars>>

MigrationPart ==
    /\ On("migration")
    /\ MigrationNext
    \* A run that has met an error is not followed further: it dies.
    /\ failed /\ table \notin {"idle", "done", "aborted"} => table' = "idle"
    /\ UNCHANGED <<storeVars, albumVars, configVars, settingsVars, sessionVars,
                   backupVars, servingVars, limitVars>>

BackupPart ==
    /\ On("backup")
    /\ BackupNext
    \* One table, or the sequence, meets an error.
    /\ Cardinality(cut' \cup faulted') <= 1
    /\ UNCHANGED <<storeVars, albumVars, configVars, settingsVars, sessionVars,
                   migrationVars, servingVars, limitVars>>

ServingPart ==
    /\ On("serving")
    /\ ServingNext
    /\ UNCHANGED <<storeVars, albumVars, configVars, settingsVars, sessionVars,
                   migrationVars, backupVars, limitVars>>

LimitPart ==
    /\ On("limits")
    /\ LimitNext
    /\ UNCHANGED <<storeVars, albumVars, configVars, settingsVars, sessionVars,
                   migrationVars, backupVars, servingVars>>

Next ==
    /\ \/ StorePart \/ AlbumPart \/ ConfigPart \/ SettingsPart
       \/ SessionPart \/ MigrationPart \/ BackupPart \/ ServingPart
       \/ LimitPart
    /\ UNCHANGED cast

Spec == Init /\ [][Next]_vars

TypeOK ==
    /\ StoreTypeOK /\ AlbumTypeOK /\ ConfigTypeOK /\ SettingsTypeOK
    /\ SessionTypeOK /\ MigrationTypeOK /\ BackupTypeOK /\ ServingTypeOK
    /\ LimitTypeOK
=============================================================================
