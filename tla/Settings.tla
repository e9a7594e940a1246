------------------------------ MODULE Settings -------------------------------
(***************************************************************************)
(* Settings that are rows of system_configs and a value in the cache of    *)
(* the configuration: the transfer mode, the image processing settings and *)
(* the list of storages (config/db/manager.go, config/db/cache.go,         *)
(* config/db/image_processing_config.go,                                   *)
(* api/handler/admin/conversion_handler.go).                               *)
(*                                                                         *)
(* A value is the number of the write that put it in the table.  The cache *)
(* has no expiry: what is in it stays until a write.  The image processing *)
(* settings are cached as a pointer, and a handler that changes them       *)
(* changes what it points at before it knows whether the change is valid.  *)
(* Two requests that share one load are two loads of the same row.         *)
(***************************************************************************)
EXTENDS Naturals

CONSTANTS
    Loaders,    \* requests that need a setting
    Changers,   \* requests that change one
    MaxChange   \* bound: changes

ASSUME SettingsAssumption == MaxChange \in Nat \ {0}

VARIABLES
    row,        \* row[k]: the value in the table, 0 before there is one
    cached,     \* cached[k]: the value in the cache, 0 for none
    changes,    \* changes begun so far
    loader,     \* loader[l]: a value on its way into the cache
    changer     \* changer[c]: a handler that changes a setting

settingsVars == <<row, cached, changes, loader, changer>>

Kinds == {"mode", "processing", "storage"}
Changes == 0 .. MaxChange
ChangerPc == {"idle", "create", "update", "set", "get", "keep", "edit", "save", "write",
              "invalidate", "clear"}

\* late: the table had a newer value when this one was put in the cache.
\* edited: a handler has changed the cached settings and not saved them.
\* bad: they hold a value that Validate refuses.
Cached == [value : Changes, late : BOOLEAN, edited : BOOLEAN, bad : BOOLEAN]
Nothing == [value |-> 0, late |-> FALSE, edited |-> FALSE, bad |-> FALSE]

SettingsTypeOK ==
    /\ row \in [Kinds -> Changes]
    /\ cached \in [Kinds -> Cached]
    /\ changes \in Changes
    /\ loader \in [Loaders -> [pc : {"idle", "store"}, kind : Kinds, value : Changes]]
    /\ changer \in [Changers -> [pc : ChangerPc, kind : Kinds, value : Changes,
                                 holds : BOOLEAN, bad : BOOLEAN]]

IdleLoader == [pc |-> "idle", kind |-> "mode", value |-> 0]
IdleChanger == [pc |-> "idle", kind |-> "mode", value |-> 0, holds |-> FALSE, bad |-> FALSE]

\* NewManager; the defaults of the image processing and of the local storage
\* have been ensured.
SettingsInit ==
    /\ row = [k \in Kinds |-> IF k = "mode" THEN 0 ELSE 1]
    /\ cached = [k \in Kinds |-> Nothing]
    /\ changes = 1
    /\ loader = [l \in Loaders |-> IdleLoader]
    /\ changer = [c \in Changers |-> IdleChanger]

AsCached(k, v) == [Nothing EXCEPT !.value = v, !.late = v < row[k]]

\* Whoever holds the object that leaves the cache has it for himself.
LetGo(cleared, chs) ==
    [c \in Changers |->
        IF chs[c].holds /\ "processing" \in cleared
          THEN [chs[c] EXCEPT !.holds = FALSE, !.bad = cached["processing"].bad]
          ELSE chs[c]]

---------------------------------------------------------------------------
\* GetGlobalTransferMode, GetImageProcessingSettings, GetStorageConfigs: after a
\* miss the rows are loaded and then cached, by everybody who waited for them.

Load(l) ==
    /\ loader[l].pc = "idle"
    /\ \E k \in Kinds :
          /\ cached[k].value = 0
          /\ row[k] # 0
          /\ loader' = [loader EXCEPT ![l] = [pc |-> "store", kind |-> k, value |-> row[k]]]
    /\ UNCHANGED <<row, cached, changes, changer>>

Store(l) ==
    /\ loader[l].pc = "store"
    /\ LET k == loader[l].kind IN
         /\ cached' = [cached EXCEPT ![k] = AsCached(k, loader[l].value)]
         /\ changer' = LetGo({k}, changer)
    /\ loader' = [loader EXCEPT ![l] = IdleLoader]
    /\ UNCHANGED <<row, changes>>

---------------------------------------------------------------------------
\* Changes

ChangerGo(c, s) == changer' = [changer EXCEPT ![c].pc = s]
ChangerEnds(c) == changer' = [changer EXCEPT ![c] = IdleChanger]

BeginChange(c) ==
    /\ changer[c].pc = "idle"
    /\ changes < MaxChange
    /\ changes' = changes + 1
    /\ \/ changer' = [changer EXCEPT ![c].pc = IF row["mode"] = 0 THEN "create" ELSE "update"]
       \/ changer' = [changer EXCEPT ![c].pc = "get", ![c].kind = "processing"]
       \/ changer' = [changer EXCEPT ![c].pc = "write", ![c].kind = "storage"]
    /\ UNCHANGED <<row, cached, loader>>

\* SetGlobalTransferMode found a row to update, or creates one, unless somebody
\* else has; then the cache is set and cleared.
WriteMode(c) ==
    /\ changer[c].pc \in {"create", "update"}
    /\ IF changer[c].pc = "create" /\ row["mode"] # 0
         THEN ChangerEnds(c) /\ UNCHANGED row
         ELSE /\ row' = [row EXCEPT !["mode"] = @ + 1]
              /\ changer' = [changer EXCEPT ![c].pc = "set", ![c].value = row["mode"] + 1]
    /\ UNCHANGED <<cached, changes, loader>>

SetTransferMode(c) ==
    /\ changer[c].pc = "set"
    /\ cached' = [cached EXCEPT !["mode"] = [Nothing EXCEPT !.value = changer[c].value]]
    /\ ChangerGo(c, "invalidate")
    /\ UNCHANGED <<row, changes, loader>>

\* SetDefault, Enable, Disable and DeleteConfig change the row of a storage.
WriteStorage(c) ==
    /\ changer[c].pc = "write"
    /\ row' = [row EXCEPT !["storage"] = @ + 1]
    /\ ChangerGo(c, "invalidate")
    /\ UNCHANGED <<cached, changes, loader>>

\* Mutant: setting the cache is taken to be enough.
ClearsNothing(k) == {{}}

\* A change clears the entry of its category; Enable and Disable, which change
\* the row of a storage, clear the whole cache.
ClearsFor(k) == IF k = "storage" THEN {{k}, Kinds} ELSE {{k}}

\* The handler of the transfer mode has its manager clear the cache once more.
Invalidate(c) ==
    /\ changer[c].pc = "invalidate"
    /\ \E cleared \in ClearsFor(changer[c].kind) :
          /\ cached' = [k \in Kinds |-> IF k \in cleared THEN Nothing ELSE cached[k]]
          /\ changer' = LetGo(cleared, [changer EXCEPT
                ![c] = IF @.kind = "mode" THEN [@ EXCEPT !.pc = "clear"] ELSE IdleChanger])
    /\ UNCHANGED <<row, changes, loader>>

\* ClearCache, which clears the entry of the storages and no other.
ClearCache(c) ==
    /\ changer[c].pc = "clear"
    /\ cached' = [cached EXCEPT !["storage"] = Nothing]
    /\ ChangerEnds(c)
    /\ UNCHANGED <<row, changes, loader>>

\* The handler of the image processing settings gets the cached object, or
\* caches one it has just loaded, ...
GetSettings(c) ==
    /\ changer[c].pc = "get"
    /\ changer' = IF cached["processing"].value # 0
                    THEN [changer EXCEPT ![c].pc = "edit", ![c].holds = TRUE]
                    ELSE [changer EXCEPT ![c].pc = "keep", ![c].value = row["processing"]]
    /\ UNCHANGED <<row, cached, changes, loader>>

KeepSettings(c) ==
    /\ changer[c].pc = "keep"
    /\ cached' = [cached EXCEPT !["processing"] = AsCached("processing", changer[c].value)]
    /\ changer' = [LetGo({"processing"}, changer) EXCEPT ![c].pc = "edit", ![c].holds = TRUE]
    /\ UNCHANGED <<row, changes, loader>>

\* ... writes the fields of the request into it ...
EditSettings(c) ==
    /\ changer[c].pc = "edit"
    /\ \E bad \in BOOLEAN :
          IF changer[c].holds
            THEN /\ cached' = [cached EXCEPT !["processing"].edited = TRUE,
                                             !["processing"].bad = @ \/ bad]
                 /\ ChangerGo(c, "save")
            ELSE /\ changer' = [changer EXCEPT ![c].pc = "save", ![c].bad = @ \/ bad]
                 /\ UNCHANGED cached
    /\ UNCHANGED <<row, changes, loader>>

\* ... and only then has it validated.  What is valid is saved.
SaveSettings(c) ==
    /\ changer[c].pc = "save"
    /\ IF changer[c].bad \/ (changer[c].holds /\ cached["processing"].bad)
         THEN ChangerEnds(c) /\ UNCHANGED row
         ELSE /\ row' = [row EXCEPT !["processing"] = @ + 1]
              /\ ChangerGo(c, "invalidate")
    /\ UNCHANGED <<cached, changes, loader>>

ChangerStep(c) ==
    \/ BeginChange(c) \/ WriteMode(c) \/ SetTransferMode(c) \/ WriteStorage(c) \/ Invalidate(c)
    \/ ClearCache(c) \/ GetSettings(c) \/ KeepSettings(c) \/ EditSettings(c) \/ SaveSettings(c)

SettingsNext ==
    \/ \E l \in Loaders : Load(l) \/ Store(l)
    \/ \E c \in Changers : ChangerStep(c)

SettingsSpec == SettingsInit /\ [][SettingsNext]_settingsVars

---------------------------------------------------------------------------
\* Properties

Settled(k) == \A c \in Changers :
    changer[c].kind = k => changer[c].pc \notin {"set", "invalidate", "edit", "save"}

\* Once every change has returned, what the cache holds is what the table
\* holds, whichever of two changes wrote, cached and cleared first: unless a
\* slow load has put an old value there after the last change, or a change was
\* refused.
CachedSettingsAreCurrent ==
    \A k \in Kinds :
        Settled(k) /\ cached[k].value # 0 /\ ~ cached[k].late /\ ~ cached[k].edited
            => cached[k].value = row[k]

\* Settings in effect pass Validate (image_processing_config.go:69) when no
\* change is under way: a change that is refused changes nothing.
SettingsInEffectAreValid ==
    (\A c \in Changers : changer[c].pc # "save") => ~ cached["processing"].bad
=============================================================================
