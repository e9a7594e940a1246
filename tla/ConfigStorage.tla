---------------------------- MODULE ConfigStorage ----------------------------
(***************************************************************************)
(* Storage configurations and the providers they stand for: rows of        *)
(* system_configs, the registry of loaded providers, the admin handlers    *)
(* that change one after the other, and uploads that go through both       *)
(* (api/handler/admin/config_handler.go, config/db/manager.go,             *)
(* storage/storage.go).                                                    *)
(*                                                                         *)
(* Each handler is a chain of statements and registry operations with      *)
(* other handlers, uploads and a restart of the process in between.        *)
(***************************************************************************)
EXTENDS Naturals

CONSTANTS
    MaxConfigs,   \* bound: rows ever created, their ids are 1 .. MaxConfigs
    Admins,       \* requests to the admin handlers
    Uploaders,    \* requests that store an image
    MaxFailures   \* bound: providers that cannot be created, statements that fail

ASSUME ConfigAssumption == MaxConfigs \in Nat \ {0} /\ MaxFailures \in Nat

VARIABLES
    conf,       \* conf[i]: the row with id i
    registry,   \* the ids of the loaded providers and the default among them
    admin,      \* admin[a]: what a handler has read and does next
    uploader,   \* uploader[u]: the storage whose provider an upload has
    stored,     \* ids of the storages with images that are not deleted
    overtaken,  \* for the properties: ids with an image that was inserted behind
                \* the count of the deletion that took the provider, or behind
                \* the removal itself, or that the last start has not loaded
    excused,    \* for the properties: ids that a failure has left without a
                \* provider, or that the last start has not loaded
    failures    \* failures so far

configVars == <<conf, registry, admin, uploader, stored, overtaken, excused, failures>>

Ids == 1 .. MaxConfigs
NoId == 0
AdminPc == {"idle", "loadNew", "load", "rollback", "save", "count", "remove", "drop",
            "ensure", "setDefault", "setFlag", "setDefaultId", "enable"}

ConfigTypeOK ==
    /\ conf \in [Ids -> [at : {"none", "live", "deleted"},
                         enabled : BOOLEAN, default : BOOLEAN]]
    /\ registry \in [loaded : SUBSET Ids, default : Ids \cup {NoId}]
    /\ admin \in [Admins -> [pc : AdminPc, id : Ids \cup {NoId}, default : BOOLEAN,
                             late : BOOLEAN]]
    /\ uploader \in [Uploaders -> Ids \cup {NoId}]
    /\ stored \subseteq Ids
    /\ overtaken \subseteq Ids
    /\ excused \subseteq Ids
    /\ failures \in 0 .. MaxFailures

NoConf == [at |-> "none", enabled |-> FALSE, default |-> FALSE]
\* late: an image was inserted since the handler has counted them.
IdleAdmin == [pc |-> "idle", id |-> NoId, default |-> FALSE, late |-> FALSE]

Rows == {i \in Ids : conf[i].at = "live"}
Enabled == {i \in Rows : conf[i].enabled}
Greatest(S) == CHOOSE i \in S : \A j \in S : j <= i

ConfigFails == failures < MaxFailures /\ failures' = failures + 1
ConfigWorks == UNCHANGED failures

---------------------------------------------------------------------------
\* The registry.  Every operation is a copy and a swap under one lock.

\* AddOrUpdateProvider
Loaded(i, isDefault) ==
    [loaded |-> registry.loaded \cup {i},
     default |-> IF isDefault THEN i ELSE registry.default]

\* Mutant: the default is removed like any other.
RemovedAny(i) == [registry EXCEPT !.loaded = @ \ {i}]

\* RemoveProvider refuses the default.
Removed(i) ==
    IF i = registry.default THEN registry
    ELSE [registry EXCEPT !.loaded = @ \ {i}]

\* InitStorage at the start: a provider for every row, enabled or not, unless
\* it cannot be created.  The last default in the list is the default; without
\* one nothing is loaded and the server runs all the same.
Started(rows, usable) ==
    LET defaults == {i \in rows \cap usable : conf'[i].default} IN
        IF defaults = {} THEN [loaded |-> {}, default |-> NoId]
        ELSE [loaded |-> rows \cap usable, default |-> Greatest(defaults)]

---------------------------------------------------------------------------
\* Admin handlers

AdminAt(a, s) == admin[a].pc = s
AdminGo(a, s) == admin' = [admin EXCEPT ![a].pc = s]
AdminEnds(a) == admin' = [admin EXCEPT ![a] = IdleAdmin]
AdminRest == UNCHANGED <<uploader, stored>>
Unloaded(a) == {admin[a].id} \ registry.loaded
Excuse(images, rows) == overtaken' = images /\ excused' = rows

\* GetByID in front of every change.
Fetch(a, i, s) ==
    /\ AdminAt(a, "idle")
    /\ i \in Rows
    /\ admin' = [admin EXCEPT ![a] = [pc |-> s, id |-> i, late |-> FALSE,
                    default |-> s \in {"save", "enable"} /\ conf[i].default]]

\* A new row is enabled whatever the request says: false is the zero value and
\* the column's default is true.  The old default row keeps its flag.
CreateConfig(a) ==
    /\ AdminAt(a, "idle")
    /\ \E i \in Ids, default \in BOOLEAN :
          /\ conf[i].at = "none" /\ \A j \in 1 .. i - 1 : conf[j].at # "none"
          /\ conf' = [conf EXCEPT ![i] =
                         [at |-> "live", enabled |-> TRUE, default |-> default]]
          /\ admin' = [admin EXCEPT ![a] = [pc |-> "loadNew", id |-> i, default |-> default,
                                            late |-> FALSE]]
    /\ UNCHANGED <<registry, overtaken, excused, failures>>
    /\ AdminRest

\* hotReloadStorageConfig after a creation, an update or an enabling, with the
\* default flag as the handler knows it.  Only a creation is taken back.
LoadProvider(a) ==
    /\ admin[a].pc \in {"load", "loadNew"}
    /\ \/ /\ registry' = Loaded(admin[a].id, admin[a].default)
          /\ AdminEnds(a)
          /\ Excuse(overtaken \ {admin[a].id}, excused \ {admin[a].id})
          /\ ConfigWorks
       \/ /\ UNCHANGED <<registry, overtaken>>
          /\ IF AdminAt(a, "loadNew") THEN AdminGo(a, "rollback") /\ UNCHANGED excused
             ELSE AdminEnds(a) /\ excused' = excused \cup Unloaded(a)
          /\ ConfigFails
    /\ UNCHANGED conf
    /\ AdminRest

\* The error of a rollback that fails is only logged: the row stays.
RollbackCreate(a) ==
    /\ AdminAt(a, "rollback")
    /\ \/ /\ conf' = [conf EXCEPT ![admin[a].id].at = "deleted"]
          /\ UNCHANGED <<excused, failures>>
       \/ /\ excused' = excused \cup Unloaded(a)
          /\ ConfigFails
          /\ UNCHANGED conf
    /\ AdminEnds(a)
    /\ UNCHANGED <<registry, overtaken>>
    /\ AdminRest

\* Mutant: the provider is not loaded again after an update.
UpdateWithoutReload(a) ==
    /\ \/ (\E i \in Ids : Fetch(a, i, "save")) /\ UNCHANGED conf
       \/ /\ AdminAt(a, "save")
          /\ \E enabled \in BOOLEAN :
                conf' = [conf EXCEPT ![admin[a].id] =
                   [at |-> "live", enabled |-> enabled, default |-> admin[a].default]]
          /\ AdminEnds(a)
    /\ UNCHANGED <<registry, overtaken, excused, failures>>
    /\ AdminRest

\* UpdateConfig reads the row, merges and saves the whole row: the flags go
\* back to what they were when it was read.  Save inserts what it finds no live
\* row for, so a row deleted meanwhile lives again.  The request names the
\* category of the row.
UpdateConfig(a) ==
    /\ \/ (\E i \in Ids : Fetch(a, i, "save")) /\ UNCHANGED conf
       \/ /\ AdminAt(a, "save")
          /\ \E enabled \in BOOLEAN :
                conf' = [conf EXCEPT ![admin[a].id] =
                   [at |-> "live", enabled |-> enabled, default |-> admin[a].default]]
          /\ AdminGo(a, "load")
    /\ UNCHANGED <<registry, overtaken, excused, failures>>
    /\ AdminRest

\* Mutant: the images are not counted.
CountNothing(a) ==
    /\ AdminAt(a, "count")
    /\ AdminGo(a, "remove")
    /\ UNCHANGED <<conf, registry, overtaken, excused, failures>>
    /\ AdminRest

\* CountImagesByStorageConfig: images that use the storage, or an error, end the
\* deletion.
CountImages(a) ==
    /\ AdminAt(a, "count")
    /\ \/ admin[a].id \notin stored /\ AdminGo(a, "remove")
       \/ AdminEnds(a)
    /\ UNCHANGED <<conf, registry, overtaken, excused, failures>>
    /\ AdminRest

\* DeleteConfig: once the images are counted the provider is removed, and then
\* the row, the default's too.  If that last statement fails the provider stays
\* away.  If the row cannot be read, or decrypted, to begin with, it is deleted
\* all the same: the images are not counted and the provider stays.
DeleteConfig(a) ==
    /\ \/ /\ \E i \in Ids : \/ Fetch(a, i, "count") /\ ConfigWorks
                            \/ Fetch(a, i, "drop") /\ ConfigFails
          /\ UNCHANGED <<conf, registry, overtaken, excused>>
       \/ /\ AdminAt(a, "remove")
          /\ registry' = Removed(admin[a].id)
          /\ overtaken' = IF admin[a].late
                            THEN overtaken \cup ({admin[a].id} \ registry'.loaded) ELSE overtaken
          /\ AdminGo(a, "drop")
          /\ UNCHANGED <<conf, excused, failures>>
       \/ /\ AdminAt(a, "drop")
          /\ \/ /\ conf' = [conf EXCEPT ![admin[a].id].at = "deleted"]
                /\ UNCHANGED <<excused, failures>>
             \/ /\ excused' = excused \cup Unloaded(a)
                /\ ConfigFails
                /\ UNCHANGED conf
          /\ AdminEnds(a)
          /\ UNCHANGED <<registry, overtaken>>
    /\ AdminRest

\* SetDefaultConfig: a provider that is not loaded is loaded.  SetDefault reads
\* the row and then moves the flag in a transaction, to nobody if the row is
\* gone by then.  The registry follows.  An error ends the handler where it is.
SetDefaultConfig(a) ==
    /\ \/ /\ \E i \in Ids : Fetch(a, i, "ensure")
          /\ UNCHANGED <<conf, registry, overtaken, excused, failures>>
       \/ /\ AdminAt(a, "ensure")
          /\ \/ /\ registry' = Loaded(admin[a].id, FALSE)
                /\ Excuse(overtaken \ {admin[a].id}, excused \ {admin[a].id})
                /\ AdminGo(a, "setDefault")
                /\ ConfigWorks
             \/ /\ admin[a].id \notin registry.loaded
                /\ AdminEnds(a) /\ ConfigFails
                /\ UNCHANGED <<registry, overtaken, excused>>
          /\ UNCHANGED conf
       \/ /\ AdminAt(a, "setDefault")
          /\ \/ admin[a].id \in Rows /\ AdminGo(a, "setFlag")
             \/ AdminEnds(a)
          /\ UNCHANGED <<conf, registry, overtaken, excused, failures>>
       \/ /\ AdminAt(a, "setFlag")
          /\ \/ /\ conf' = [i \in Ids |->
                              [conf[i] EXCEPT !.default = IF i \in Rows THEN i = admin[a].id ELSE @]]
                /\ AdminGo(a, "setDefaultId")
             \/ AdminEnds(a) /\ UNCHANGED conf
          /\ UNCHANGED <<registry, overtaken, excused, failures>>
       \/ /\ AdminAt(a, "setDefaultId")
          /\ registry' = IF admin[a].id \in registry.loaded
                           THEN [registry EXCEPT !.default = admin[a].id] ELSE registry
          /\ AdminEnds(a)
          /\ UNCHANGED <<conf, overtaken, excused, failures>>
    /\ AdminRest

\* EnableConfig loads the provider, DisableConfig leaves it where it is.
EnableConfig(a) ==
    /\ \/ (\E i \in Ids : Fetch(a, i, "enable")) /\ UNCHANGED conf
       \/ /\ AdminAt(a, "enable")
          /\ conf' = [conf EXCEPT ![admin[a].id].enabled = @ \/ admin[a].id \in Rows]
          /\ AdminGo(a, "load")
    /\ UNCHANGED <<registry, overtaken, excused, failures>>
    /\ AdminRest

DisableConfig(a) ==
    /\ AdminAt(a, "idle")
    /\ \E i \in Rows : conf' = [conf EXCEPT ![i].enabled = FALSE]
    /\ UNCHANGED <<registry, admin, overtaken, excused, failures>>
    /\ AdminRest

---------------------------------------------------------------------------
\* Uploads

ConfigKeep == UNCHANGED <<conf, registry, excused, failures>>

\* The request names a storage, or gets the enabled default or the first row
\* that is enabled: any row.  getStorageProviderByID asks the registry.  A
\* shared upload takes the storage of the row it shares and asks nobody.
ChooseStorage(u) ==
    /\ uploader[u] = NoId
    /\ \E i \in registry.loaded \cup stored : uploader' = [uploader EXCEPT ![u] = i]
    /\ UNCHANGED <<stored, admin, overtaken>>
    /\ ConfigKeep

InsertStoredImage(u) ==
    /\ uploader[u] # NoId
    /\ stored' = stored \cup {uploader[u]}
    /\ uploader' = [uploader EXCEPT ![u] = NoId]
    /\ admin' = [a \in Admins |->
                   [admin[a] EXCEPT !.late =
                      @ \/ (admin[a].pc = "remove" /\ admin[a].id = uploader[u])]]
    /\ overtaken' = overtaken \cup ({uploader[u]} \ registry.loaded)
    /\ ConfigKeep

\* All images of a storage are deleted by their owners.
LastImageDeleted ==
    /\ \E i \in stored : stored' = stored \ {i}
    /\ UNCHANGED <<uploader, admin, overtaken>>
    /\ ConfigKeep

---------------------------------------------------------------------------
\* The process dies in the middle of anything and starts again: Initialize
\* makes sure that a local configuration is enabled (its row is the default
\* only if nothing else is enabled), then the providers are loaded.
Start ==
    /\ admin' = [a \in Admins |-> IdleAdmin]
    /\ uploader' = [u \in Uploaders |-> NoId]
    /\ \/ Enabled # {} /\ UNCHANGED conf
       \/ \E i \in Ids :
             /\ conf[i].at = "none" /\ \A j \in 1 .. i - 1 : conf[j].at # "none"
             /\ conf' = [conf EXCEPT ![i] =
                   [at |-> "live", enabled |-> TRUE, default |-> Enabled = {}]]
    /\ LET rows == {i \in Ids : conf'[i].at = "live"} IN
         \/ registry' = Started(rows, rows) /\ ConfigWorks
         \/ (\E i \in rows : registry' = Started(rows, rows \ {i})) /\ ConfigFails
    /\ Excuse(Ids \ registry'.loaded, Ids \ registry'.loaded)
    /\ UNCHANGED stored

ConfigInit ==
    /\ conf = [i \in Ids |-> IF i = 1 THEN [at |-> "live", enabled |-> TRUE, default |-> TRUE]
                             ELSE NoConf]
    /\ registry = [loaded |-> {1}, default |-> 1]
    /\ admin = [a \in Admins |-> IdleAdmin]
    /\ uploader = [u \in Uploaders |-> NoId]
    /\ stored = {}
    /\ overtaken = {}
    /\ excused = {}
    /\ failures = 0

ConfigNext ==
    \/ \E a \in Admins :
          \/ CreateConfig(a) \/ LoadProvider(a) \/ RollbackCreate(a) \/ UpdateConfig(a)
          \/ CountImages(a) \/ DeleteConfig(a) \/ SetDefaultConfig(a) \/ EnableConfig(a)
          \/ DisableConfig(a)
    \/ \E u \in Uploaders : ChooseStorage(u) \/ InsertStoredImage(u)
    \/ LastImageDeleted
    \/ Start

ConfigSpec == ConfigInit /\ [][ConfigNext]_configVars

---------------------------------------------------------------------------
\* Properties

\* The default storage is always a loaded one: deletions, failed loads and
\* changes of the default that meet never leave uploads without the provider
\* that GetDefault promises.
DefaultIsLoaded == registry.default # NoId => registry.default \in registry.loaded

\* No deletion takes the provider of a storage with images: where images have no
\* provider, one of them was inserted behind the count of the deletion that took
\* it, or behind the removal, or the last start has not loaded the storage.
ImagesHaveStorage == stored \ registry.loaded \subseteq overtaken

\* Once no handler is under way, every configuration can be used without a
\* restart, however creations, updates, deletions and re-enablings met, unless
\* its provider could not be created or its row could not be deleted.
RowsAreLoaded ==
    (\A a \in Admins : admin[a].pc = "idle") => Rows \ registry.loaded \subseteq excused
=============================================================================
