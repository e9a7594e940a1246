------------------------ MODULE Configuration_proofs ------------------------
(***************************************************************************)
(* What administrators configure, for any number of rows, handlers and     *)
(* requests: the storages with their providers, and the settings with      *)
(* their cache.                                                            *)
(***************************************************************************)
EXTENDS ConfigStorage, Settings, FiniteSetTheorems, WellFoundedInduction, TLAPS

-----------------------------------------------------------------------------
(***************************************************************************)
(* ConfigStorage. The default is loaded, images keep their storage, and    *)
(* rows can be used once their handlers have returned.                     *)
(***************************************************************************)

\* A handler under way knows its row.
AdminsHaveRows == \A a \in Admins : admin[a].pc # "idle" => admin[a].id \in Ids

\* Who removes the provider of a storage with images knows that one came late.
RemovalsAreKnown ==
    \A a \in Admins : admin[a].pc = "remove" /\ admin[a].id \in stored => admin[a].late

\* A row without a provider is about to get one, or about to go.
UnloadedIsPending ==
    \A i \in (Rows \ registry.loaded) \ excused :
        \E a \in Admins : /\ admin[a].id = i
                          /\ admin[a].pc \in {"loadNew", "load", "rollback", "drop"}

ConfigInv ==
    /\ ConfigTypeOK
    /\ AdminsHaveRows
    /\ DefaultIsLoaded
    /\ RemovalsAreKnown
    /\ ImagesHaveStorage
    /\ UnloadedIsPending

ConfRecord == [at : {"none", "live", "deleted"}, enabled : BOOLEAN, default : BOOLEAN]
AdminRecord == [pc : AdminPc, id : Ids \cup {NoId}, default : BOOLEAN, late : BOOLEAN]
Covering == {"loadNew", "load", "rollback", "drop"}

---------------------------------------------------------------------------

\* A set of ids has a greatest one: what Started picks is in the set.
LEMMA GreatestIn ==
    ASSUME NEW S \in SUBSET Ids, S # {}
    PROVE  Greatest(S) \in S
  <1>1. MaxConfigs \in Nat /\ \A i \in Ids : i \in Nat /\ i <= MaxConfigs
    BY ConfigAssumption DEF Ids
  <1> DEFINE T == {MaxConfigs - i : i \in S}
  <1>2. T \subseteq Nat /\ T # {}
    BY <1>1
  <1> DEFINE Less == {p \in Nat \X Nat : p[1] < p[2]}
  <1>a. IsWellFoundedOn(Less, Nat)
    BY NatLessThanWellFounded DEF OpToRel
  <1> HIDE DEF T, Less
  <1>3. PICK x \in T : \A y \in T : ~ (<<y, x>> \in Less)
    BY <1>2, <1>a, WFMin
  <1>4. \A y \in T : x <= y
    <2> SUFFICES ASSUME NEW y \in T PROVE x <= y
      OBVIOUS
    <2>1. x \in Nat /\ y \in Nat /\ <<y, x>> \in Nat \X Nat
      BY <1>2
    <2>2. ~ (y < x)
      BY <2>1, <1>3 DEF Less
    <2> QED BY <2>1, <2>2
  <1> USE DEF T
  <1>5. PICK i \in S : x = MaxConfigs - i
    BY <1>3
  <1>6. \A j \in S : j <= i
    <2> SUFFICES ASSUME NEW j \in S PROVE j <= i
      OBVIOUS
    <2>1. MaxConfigs - j \in T
      OBVIOUS
    <2>2. MaxConfigs - i <= MaxConfigs - j
      BY <2>1, <1>4, <1>5
    <2> QED BY <2>2, <1>1
  <1> QED BY <1>6 DEF Greatest

\* What the handlers do to the registry leaves the default loaded.
LEMMA RegistryOperations ==
    ASSUME ConfigTypeOK, DefaultIsLoaded, NEW i \in Ids, NEW b \in BOOLEAN
    PROVE  LET Good(r) == /\ r \in [loaded : SUBSET Ids, default : Ids \cup {NoId}]
                          /\ r.default # NoId => r.default \in r.loaded
           IN  /\ Good(Loaded(i, b)) /\ Loaded(i, b).loaded = registry.loaded \cup {i}
               /\ Good(Removed(i)) /\ registry.loaded \ {i} \subseteq Removed(i).loaded
  BY DEF ConfigTypeOK, DefaultIsLoaded, Loaded, Removed

\* What a step of handler a has to do with its row and the registry for the
\* invariant to be kept.
GoodStep(a) ==
    /\ UNCHANGED <<uploader, stored>>
    /\ \E r \in AdminRecord :
          /\ admin' = [admin EXCEPT ![a] = r]
          /\ r.pc # "idle" => r.id \in Ids
          /\ r.pc = "remove" /\ r.id \in stored => r.late
          /\ \A i \in Ids :
                \* a row is left without a provider only by who looks after it
                /\ i \in (Rows' \ registry'.loaded) \ excused' =>
                      \/ r.id = i /\ r.pc \in Covering
                      \/ /\ i \in (Rows \ registry.loaded) \ excused
                         /\ ~ (admin[a].id = i /\ admin[a].pc \in Covering)
                \* a storage with images keeps its provider or was overtaken
                /\ i \in stored \ registry'.loaded => i \in overtaken'
    /\ conf' \in [Ids -> ConfRecord]
    /\ registry' \in [loaded : SUBSET Ids, default : Ids \cup {NoId}]
    /\ registry'.default # NoId => registry'.default \in registry'.loaded
    /\ overtaken' \subseteq Ids
    /\ excused' \subseteq Ids
    /\ failures' \in 0 .. MaxFailures

LEMMA GoodStepsSuffice ==
    ASSUME ConfigInv, NEW a \in Admins, GoodStep(a)
    PROVE  ConfigInv'
  <1>1. PICK r \in AdminRecord :
          /\ admin' = [admin EXCEPT ![a] = r]
          /\ r.pc # "idle" => r.id \in Ids
          /\ r.pc = "remove" /\ r.id \in stored => r.late
          /\ \A i \in Ids :
                /\ i \in (Rows' \ registry'.loaded) \ excused' =>
                      \/ r.id = i /\ r.pc \in Covering
                      \/ /\ i \in (Rows \ registry.loaded) \ excused
                         /\ ~ (admin[a].id = i /\ admin[a].pc \in Covering)
                /\ i \in stored \ registry'.loaded => i \in overtaken'
    BY DEF GoodStep
  <1>2. admin \in [Admins -> AdminRecord]
    BY DEF ConfigInv, ConfigTypeOK, AdminRecord
  <1>3. admin' \in [Admins -> AdminRecord]
    BY <1>1, <1>2
  <1>4. ConfigTypeOK'
    BY <1>3 DEF GoodStep, ConfigInv, ConfigTypeOK, AdminRecord, ConfRecord
  <1>5. AdminsHaveRows'
    BY <1>1, <1>2 DEF ConfigInv, AdminsHaveRows
  <1>6. DefaultIsLoaded'
    BY DEF GoodStep, DefaultIsLoaded
  <1>7. RemovalsAreKnown' /\ ImagesHaveStorage'
    <2>1. stored' = stored /\ stored \subseteq Ids
      BY DEF GoodStep, ConfigInv, ConfigTypeOK
    <2>2. RemovalsAreKnown'
      BY <1>1, <1>2, <2>1 DEF ConfigInv, RemovalsAreKnown
    <2>3. ImagesHaveStorage'
      BY <1>1, <2>1 DEF ImagesHaveStorage
    <2> QED BY <2>2, <2>3
  <1>8. UnloadedIsPending'
    <2> SUFFICES ASSUME NEW i \in (Rows' \ registry'.loaded) \ excused'
                 PROVE  \E b \in Admins : admin'[b].id = i /\ admin'[b].pc \in Covering
      BY DEF UnloadedIsPending, Covering
    <2>1. i \in Ids
      BY DEF Rows
    <2>2. CASE r.id = i /\ r.pc \in Covering
      BY <2>2, <1>1, <1>2
    <2>3. CASE /\ i \in (Rows \ registry.loaded) \ excused
               /\ ~ (admin[a].id = i /\ admin[a].pc \in Covering)
      <3>1. PICK b \in Admins : admin[b].id = i /\ admin[b].pc \in Covering
        BY <2>3 DEF ConfigInv, UnloadedIsPending, Covering
      <3>2. b # a
        BY <3>1, <2>3
      <3> QED BY <3>1, <3>2, <1>1, <1>2
    <2> QED BY <1>1, <2>1, <2>2, <2>3
  <1> QED BY <1>4, <1>5, <1>6, <1>7, <1>8 DEF ConfigInv

---------------------------------------------------------------------------
\* The handlers

\* The types a handler's step starts from.
LEMMA HandlerTypes ==
    ASSUME ConfigInv, NEW a \in Admins
    PROVE  /\ conf \in [Ids -> ConfRecord]
           /\ registry \in [loaded : SUBSET Ids, default : Ids \cup {NoId}]
           /\ registry.default # NoId => registry.default \in registry.loaded
           /\ admin \in [Admins -> AdminRecord]
           /\ admin[a] \in AdminRecord
           /\ admin[a].pc # "idle" => admin[a].id \in Ids
           /\ admin[a].pc = "remove" /\ admin[a].id \in stored => admin[a].late
           /\ \A i \in stored \ registry.loaded : i \in overtaken
           /\ overtaken \subseteq Ids /\ stored \subseteq Ids
           /\ excused \subseteq Ids
           /\ failures \in 0 .. MaxFailures
           /\ IdleAdmin \in AdminRecord
           /\ ConfigFails => failures' \in 0 .. MaxFailures
  BY ConfigAssumption DEF ConfigInv, ConfigTypeOK, AdminsHaveRows, DefaultIsLoaded, ConfRecord, AdminRecord,
     IdleAdmin, AdminPc, ConfigFails, RemovalsAreKnown, ImagesHaveStorage

\* Reading the row first changes nothing but where the handler is.
LEMMA FetchGood ==
    ASSUME ConfigInv, NEW a \in Admins, NEW i \in Ids, NEW s \in AdminPc \ {"remove"},
           Fetch(a, i, s), UNCHANGED <<uploader, stored, conf, registry, overtaken, excused>>,
           failures' \in 0 .. MaxFailures
    PROVE  GoodStep(a)
  <1> DEFINE r == [pc |-> s, id |-> i, late |-> FALSE, default |-> s \in {"save", "enable"} /\ conf[i].default]
  <1>1. r \in AdminRecord
    BY HandlerTypes DEF AdminRecord, ConfRecord
  <1>2. admin' = [admin EXCEPT ![a] = r] /\ Rows' = Rows
    BY DEF Fetch, Rows
  <1>3. admin[a].pc = "idle"
    BY DEF Fetch, AdminAt
  <1> QED BY <1>1, <1>2, <1>3, HandlerTypes DEF GoodStep, Covering

\* A handler that goes on to s, or ends, without touching rows or providers.
LEMMA GoGood ==
    ASSUME ConfigInv, NEW a \in Admins, admin[a].pc \in AdminPc \ (Covering \cup {"idle"}),
           \/ AdminEnds(a)
           \/ \E s \in AdminPc : AdminGo(a, s) /\ (s = "remove" => admin[a].id \notin stored),
           UNCHANGED <<uploader, stored, conf, registry, overtaken, excused>>,
           failures' \in 0 .. MaxFailures
    PROVE  GoodStep(a)
  <1>1. \E r \in AdminRecord : /\ admin' = [admin EXCEPT ![a] = r]
                               /\ r.pc # "idle" => r.id \in Ids
                               /\ r.pc = "remove" /\ r.id \in stored => r.late
    <2>1. CASE AdminEnds(a)
      BY <2>1, HandlerTypes DEF AdminEnds, IdleAdmin
    <2>2. ASSUME NEW s \in AdminPc, AdminGo(a, s), s = "remove" => admin[a].id \notin stored
          PROVE  \E r \in AdminRecord : /\ admin' = [admin EXCEPT ![a] = r]
                                        /\ r.pc # "idle" => r.id \in Ids
                                        /\ r.pc = "remove" /\ r.id \in stored => r.late
      <3>1. [admin[a] EXCEPT !.pc = s] \in AdminRecord
        BY HandlerTypes DEF AdminRecord
      <3>2. admin' = [admin EXCEPT ![a] = [admin[a] EXCEPT !.pc = s]]
        BY <2>2 DEF AdminGo
      <3>3. [admin[a] EXCEPT !.pc = s].id = admin[a].id /\ [admin[a] EXCEPT !.pc = s].pc = s
        BY HandlerTypes DEF AdminRecord
      <3> QED BY <2>2, <3>1, <3>2, <3>3, HandlerTypes
    <2> QED BY <2>1, <2>2
  <1>2. Rows' = Rows
    BY DEF Rows
  <1> QED BY <1>1, <1>2, HandlerTypes DEF GoodStep

LEMMA CreateGood ==
    ASSUME ConfigInv, NEW a \in Admins, CreateConfig(a)
    PROVE  GoodStep(a)
  <1>1. PICK i \in Ids, b \in BOOLEAN :
           /\ conf[i].at = "none"
           /\ conf' = [conf EXCEPT ![i] = [at |-> "live", enabled |-> TRUE, default |-> b]]
           /\ admin' = [admin EXCEPT ![a] = [pc |-> "loadNew", id |-> i, default |-> b, late |-> FALSE]]
    BY DEF CreateConfig
  <1>2. UNCHANGED <<uploader, stored, registry, overtaken, excused, failures>> /\ admin[a].pc = "idle"
    BY DEF CreateConfig, AdminRest, AdminAt
  <1> DEFINE r == [pc |-> "loadNew", id |-> i, default |-> b, late |-> FALSE]
  <1>3. r \in AdminRecord
    BY DEF AdminRecord, AdminPc
  <1>4. conf' \in [Ids -> ConfRecord] /\ Rows' \subseteq Rows \cup {i}
    BY <1>1, HandlerTypes DEF ConfRecord, Rows
  <1> QED BY <1>1, <1>2, <1>3, <1>4, HandlerTypes DEF GoodStep, Covering

LEMMA LoadGood ==
    ASSUME ConfigInv, NEW a \in Admins, LoadProvider(a)
    PROVE  GoodStep(a)
  <1> DEFINE id == admin[a].id
  <1>1. /\ admin[a].pc \in {"load", "loadNew"} /\ id \in Ids /\ Rows' = Rows
        /\ UNCHANGED <<uploader, stored, conf>>
    BY HandlerTypes DEF LoadProvider, AdminRest, Rows
  <1>2. CASE /\ registry' = Loaded(id, admin[a].default)
             /\ AdminEnds(a)
             /\ overtaken' = overtaken \ {id} /\ excused' = excused \ {id}
             /\ ConfigWorks
    <2>1. admin[a].default \in BOOLEAN
      BY HandlerTypes DEF AdminRecord
    <2>2. /\ registry' \in [loaded : SUBSET Ids, default : Ids \cup {NoId}]
          /\ registry'.default # NoId => registry'.default \in registry'.loaded
          /\ registry'.loaded = registry.loaded \cup {id}
      BY <1>1, <1>2, <2>1, RegistryOperations DEF ConfigInv
    <2>3. admin' = [admin EXCEPT ![a] = IdleAdmin] /\ IdleAdmin.pc = "idle"
      BY <1>2 DEF AdminEnds, IdleAdmin
    <2>4. failures' \in 0 .. MaxFailures
      BY <1>2, HandlerTypes DEF ConfigWorks
    <2> QED BY <1>1, <1>2, <2>2, <2>3, <2>4, HandlerTypes DEF GoodStep
  <1>3. CASE /\ UNCHANGED <<registry, overtaken>>
             /\ IF AdminAt(a, "loadNew") THEN AdminGo(a, "rollback") /\ UNCHANGED excused
                ELSE AdminEnds(a) /\ excused' = excused \cup ({id} \ registry.loaded)
             /\ ConfigFails
    <2>1. CASE AdminAt(a, "loadNew")
      <3> DEFINE r == [admin[a] EXCEPT !.pc = "rollback"]
      <3>1. r \in AdminRecord /\ r.id = id /\ r.pc = "rollback"
        BY HandlerTypes DEF AdminRecord, AdminPc
      <3>2. admin' = [admin EXCEPT ![a] = r] /\ UNCHANGED excused
        BY <1>3, <2>1 DEF AdminGo
      <3> QED BY <1>1, <1>3, <3>1, <3>2, HandlerTypes DEF GoodStep, Covering
    <2>2. CASE ~ AdminAt(a, "loadNew")
      <3>1. admin' = [admin EXCEPT ![a] = IdleAdmin] /\ IdleAdmin.pc = "idle"
        BY <1>3, <2>2 DEF AdminEnds, IdleAdmin
      <3>2. excused' = excused \cup ({id} \ registry.loaded)
        BY <1>3, <2>2
      <3> QED BY <1>1, <1>3, <3>1, <3>2, HandlerTypes DEF GoodStep
    <2> QED BY <2>1, <2>2
  <1> QED BY <1>2, <1>3 DEF LoadProvider, Excuse, Unloaded

LEMMA RollbackGood ==
    ASSUME ConfigInv, NEW a \in Admins, RollbackCreate(a)
    PROVE  GoodStep(a)
  <1>1. /\ admin[a].pc = "rollback" /\ admin[a].id \in Ids
        /\ admin' = [admin EXCEPT ![a] = IdleAdmin] /\ IdleAdmin.pc = "idle"
        /\ UNCHANGED <<uploader, stored, registry, overtaken>>
    BY HandlerTypes DEF RollbackCreate, AdminAt, AdminEnds, AdminRest, IdleAdmin
  <1>2. CASE conf' = [conf EXCEPT ![admin[a].id].at = "deleted"] /\ UNCHANGED <<excused, failures>>
    <2>1. conf' \in [Ids -> ConfRecord] /\ Rows' = Rows \ {admin[a].id}
      BY <1>1, <1>2, HandlerTypes DEF ConfRecord, Rows
    <2> QED BY <1>1, <1>2, <2>1, HandlerTypes DEF GoodStep
  <1>3. CASE excused' = excused \cup ({admin[a].id} \ registry.loaded) /\ ConfigFails /\ UNCHANGED conf
    <2>1. Rows' = Rows
      BY <1>3 DEF Rows
    <2> QED BY <1>1, <1>3, <2>1, HandlerTypes DEF GoodStep
  <1> QED BY <1>2, <1>3 DEF RollbackCreate, Unloaded

\* A row that is written by who then loads its provider.
LEMMA WriteThenLoadGood ==
    ASSUME ConfigInv, NEW a \in Admins, admin[a].pc \in {"save", "enable"},
           conf' \in [Ids -> ConfRecord], Rows' \subseteq Rows \cup {admin[a].id},
           AdminGo(a, "load"), UNCHANGED <<uploader, stored, registry, overtaken, excused, failures>>
    PROVE  GoodStep(a)
  <1> DEFINE r == [admin[a] EXCEPT !.pc = "load"]
  <1>1. r \in AdminRecord /\ r.id = admin[a].id /\ r.pc = "load" /\ admin[a].id \in Ids
    BY HandlerTypes DEF AdminRecord, AdminPc
  <1>2. admin' = [admin EXCEPT ![a] = r]
    BY DEF AdminGo
  <1> QED BY <1>1, <1>2, HandlerTypes DEF GoodStep, Covering

LEMMA UpdateGood ==
    ASSUME ConfigInv, NEW a \in Admins, UpdateConfig(a)
    PROVE  GoodStep(a)
  <1>1. UNCHANGED <<uploader, stored, registry, overtaken, excused, failures>> /\ failures' \in 0 .. MaxFailures
    BY HandlerTypes DEF UpdateConfig, AdminRest
  <1>2. ASSUME NEW i \in Ids, Fetch(a, i, "save"), UNCHANGED conf PROVE GoodStep(a)
    BY <1>1, <1>2, FetchGood DEF AdminPc, Covering
  <1>3. ASSUME NEW enabled \in BOOLEAN, AdminAt(a, "save"), AdminGo(a, "load"),
               conf' = [conf EXCEPT ![admin[a].id] =
                   [at |-> "live", enabled |-> enabled, default |-> admin[a].default]]
        PROVE  GoodStep(a)
    <2>1. conf' \in [Ids -> ConfRecord] /\ Rows' \subseteq Rows \cup {admin[a].id}
      BY <1>3, HandlerTypes DEF ConfRecord, AdminRecord, Rows, AdminAt
    <2> QED BY <1>1, <1>3, <2>1, WriteThenLoadGood DEF AdminAt
  <1> QED BY <1>2, <1>3 DEF UpdateConfig

LEMMA EnableGood ==
    ASSUME ConfigInv, NEW a \in Admins, EnableConfig(a)
    PROVE  GoodStep(a)
  <1>1. UNCHANGED <<uploader, stored, registry, overtaken, excused, failures>> /\ failures' \in 0 .. MaxFailures
    BY HandlerTypes DEF EnableConfig, AdminRest
  <1>2. ASSUME NEW i \in Ids, Fetch(a, i, "enable"), UNCHANGED conf PROVE GoodStep(a)
    BY <1>1, <1>2, FetchGood DEF AdminPc, Covering
  <1>3. ASSUME AdminAt(a, "enable"), AdminGo(a, "load"),
               conf' = [conf EXCEPT ![admin[a].id].enabled = @ \/ admin[a].id \in Rows]
        PROVE  GoodStep(a)
    <2>1. admin[a].id \in Ids /\ conf[admin[a].id] \in ConfRecord
      BY <1>3, HandlerTypes DEF AdminAt
    <2>2. (conf[admin[a].id].enabled \/ admin[a].id \in Rows) \in BOOLEAN
      OBVIOUS
    <2>3. conf' \in [Ids -> ConfRecord] /\ Rows' \subseteq Rows
      BY <1>3, <2>1, <2>2, HandlerTypes DEF ConfRecord, Rows
    <2> QED BY <1>1, <1>3, <2>3, WriteThenLoadGood DEF AdminAt
  <1> QED BY <1>2, <1>3 DEF EnableConfig

LEMMA CountGood ==
    ASSUME ConfigInv, NEW a \in Admins, CountImages(a)
    PROVE  GoodStep(a)
  <1>1. /\ admin[a].pc \in AdminPc \ (Covering \cup {"idle"}) /\ failures' \in 0 .. MaxFailures
        /\ UNCHANGED <<uploader, stored, conf, registry, overtaken, excused>> /\ "remove" \in AdminPc
    BY HandlerTypes DEF CountImages, AdminAt, AdminPc, Covering, AdminRest
  <1>2. AdminEnds(a) \/ (AdminGo(a, "remove") /\ admin[a].id \notin stored)
    BY DEF CountImages
  <1> QED BY <1>1, <1>2, GoGood

LEMMA DeleteGood ==
    ASSUME ConfigInv, NEW a \in Admins, DeleteConfig(a)
    PROVE  GoodStep(a)
  <1> DEFINE id == admin[a].id
  <1>1. UNCHANGED <<uploader, stored>>
    BY DEF DeleteConfig, AdminRest
  <1>2. ASSUME NEW i \in Ids, NEW s \in {"count", "drop"}, Fetch(a, i, s), ConfigWorks \/ ConfigFails,
               UNCHANGED <<conf, registry, overtaken, excused>>
        PROVE  GoodStep(a)
    BY <1>1, <1>2, FetchGood, HandlerTypes DEF AdminPc, ConfigWorks
  <1>4. CASE /\ AdminAt(a, "remove")
             /\ registry' = Removed(id)
             /\ overtaken' = IF admin[a].late THEN overtaken \cup ({id} \ registry'.loaded) ELSE overtaken
             /\ AdminGo(a, "drop")
             /\ UNCHANGED <<conf, excused, failures>>
    <2> DEFINE r == [admin[a] EXCEPT !.pc = "drop"]
    <2>1. id \in Ids /\ admin[a].pc = "remove"
      BY <1>4, HandlerTypes DEF AdminAt
    <2>2. r \in AdminRecord /\ r.id = id /\ r.pc = "drop"
      BY HandlerTypes DEF AdminRecord, AdminPc
    <2>3. admin' = [admin EXCEPT ![a] = r]
      BY <1>4 DEF AdminGo
    <2>4. /\ registry' \in [loaded : SUBSET Ids, default : Ids \cup {NoId}]
          /\ registry'.default # NoId => registry'.default \in registry'.loaded
          /\ registry.loaded \ {id} \subseteq registry'.loaded
      BY <1>4, <2>1, RegistryOperations DEF ConfigInv
    <2>5. /\ overtaken \subseteq overtaken' /\ overtaken' \subseteq Ids
          /\ id \in stored \ registry'.loaded => id \in overtaken'
      BY <1>4, <2>1, HandlerTypes
    <2>6. Rows' = Rows /\ conf' \in [Ids -> ConfRecord] /\ failures' \in 0 .. MaxFailures
      BY <1>4, HandlerTypes DEF Rows
    <2> HIDE DEF r
    <2>7. ASSUME NEW i \in Ids
          PROVE  /\ i \in (Rows' \ registry'.loaded) \ excused' =>
                      \/ r.id = i /\ r.pc \in Covering
                      \/ /\ i \in (Rows \ registry.loaded) \ excused
                         /\ ~ (admin[a].id = i /\ admin[a].pc \in Covering)
                 /\ i \in stored \ registry'.loaded => i \in overtaken'
      <3>1. CASE i = id
        BY <3>1, <2>1, <2>2, <2>5 DEF Covering
      <3>2. CASE i # id
        BY <1>4, <3>2, <2>1, <2>4, <2>5, <2>6, HandlerTypes DEF Covering
      <3> QED BY <3>1, <3>2
    <2>8. ~ (r.pc = "remove") /\ excused' \subseteq Ids
      BY <1>4, <2>2, HandlerTypes
    <2> QED BY <1>1, <2>1, <2>2, <2>3, <2>4, <2>5, <2>6, <2>7, <2>8 DEF GoodStep
  <1>5. CASE /\ AdminAt(a, "drop")
             /\ \/ /\ conf' = [conf EXCEPT ![id].at = "deleted"]
                   /\ UNCHANGED <<excused, failures>>
                \/ /\ excused' = excused \cup ({id} \ registry.loaded)
                   /\ ConfigFails
                   /\ UNCHANGED conf
             /\ AdminEnds(a)
             /\ UNCHANGED <<registry, overtaken>>
    <2>1. id \in Ids /\ admin' = [admin EXCEPT ![a] = IdleAdmin] /\ IdleAdmin.pc = "idle"
      BY <1>5, HandlerTypes DEF AdminAt, AdminEnds, IdleAdmin
    <2>2. CASE conf' = [conf EXCEPT ![id].at = "deleted"] /\ UNCHANGED <<excused, failures>>
      <3>1. conf' \in [Ids -> ConfRecord] /\ Rows' = Rows \ {id}
        BY <2>1, <2>2, HandlerTypes DEF ConfRecord, Rows
      <3> QED BY <1>1, <1>5, <2>1, <2>2, <3>1, HandlerTypes DEF GoodStep
    <2>3. CASE excused' = excused \cup ({id} \ registry.loaded) /\ ConfigFails /\ UNCHANGED conf
      <3>1. Rows' = Rows
        BY <2>3 DEF Rows
      <3> QED BY <1>1, <1>5, <2>1, <2>3, <3>1, HandlerTypes DEF GoodStep
    <2> QED BY <1>5, <2>2, <2>3
  <1> QED BY <1>2, <1>4, <1>5 DEF DeleteConfig, Unloaded

LEMMA SetDefaultGood ==
    ASSUME ConfigInv, NEW a \in Admins, SetDefaultConfig(a)
    PROVE  GoodStep(a)
  <1> DEFINE id == admin[a].id
  <1>1. UNCHANGED <<uploader, stored>>
    BY DEF SetDefaultConfig, AdminRest
  <1>2. ASSUME NEW i \in Ids, Fetch(a, i, "ensure"),
               UNCHANGED <<conf, registry, overtaken, excused, failures>>
        PROVE  GoodStep(a)
    BY <1>1, <1>2, FetchGood, HandlerTypes DEF AdminPc
  <1>3. CASE /\ AdminAt(a, "ensure")
             /\ registry' = Loaded(id, FALSE)
             /\ overtaken' = overtaken \ {id} /\ excused' = excused \ {id}
             /\ AdminGo(a, "setDefault")
             /\ ConfigWorks
             /\ UNCHANGED conf
    <2> DEFINE r == [admin[a] EXCEPT !.pc = "setDefault"]
    <2>1. id \in Ids /\ admin[a].pc = "ensure"
      BY <1>3, HandlerTypes DEF AdminAt
    <2>2. r \in AdminRecord /\ r.id = id /\ r.pc = "setDefault"
      BY HandlerTypes DEF AdminRecord, AdminPc
    <2>3. admin' = [admin EXCEPT ![a] = r]
      BY <1>3 DEF AdminGo
    <2>4. /\ registry' \in [loaded : SUBSET Ids, default : Ids \cup {NoId}]
          /\ registry'.default # NoId => registry'.default \in registry'.loaded
          /\ registry'.loaded = registry.loaded \cup {id}
      BY <1>3, <2>1, RegistryOperations DEF ConfigInv
    <2>5. Rows' = Rows /\ failures' = failures
      BY <1>3 DEF Rows, ConfigWorks
    <2> QED BY <1>1, <1>3, <2>1, <2>2, <2>3, <2>4, <2>5, HandlerTypes DEF GoodStep, Covering
  <1>4. CASE /\ AdminAt(a, "ensure")
             /\ AdminEnds(a) /\ ConfigFails
             /\ UNCHANGED <<conf, registry, overtaken, excused>>
    BY <1>1, <1>4, GoGood, HandlerTypes DEF AdminAt, AdminPc, Covering
  <1>7. CASE /\ AdminAt(a, "setDefault")
             /\ (AdminGo(a, "setFlag") \/ AdminEnds(a))
             /\ UNCHANGED <<conf, registry, overtaken, excused, failures>>
    <2>1. /\ admin[a].pc \in AdminPc \ (Covering \cup {"idle"}) /\ failures' \in 0 .. MaxFailures
          /\ "setFlag" \in AdminPc
      BY <1>7, HandlerTypes DEF AdminAt, AdminPc, Covering
    <2> QED BY <1>1, <1>7, <2>1, GoGood
  <1>8. CASE /\ AdminAt(a, "setFlag") /\ AdminEnds(a)
             /\ UNCHANGED <<conf, registry, overtaken, excused, failures>>
    BY <1>1, <1>8, GoGood, HandlerTypes DEF AdminAt, AdminPc, Covering
  <1>5. CASE /\ AdminAt(a, "setFlag")
             /\ conf' = [i \in Ids |->
                   [conf[i] EXCEPT !.default = IF i \in Rows THEN i = id ELSE @]]
             /\ AdminGo(a, "setDefaultId")
             /\ UNCHANGED <<registry, overtaken, excused, failures>>
    <2> DEFINE r == [admin[a] EXCEPT !.pc = "setDefaultId"]
    <2>1. admin[a].pc = "setFlag" /\ id \in Ids
      BY <1>5, HandlerTypes DEF AdminAt
    <2>2. r \in AdminRecord /\ r.id = id /\ r.pc = "setDefaultId" /\ admin' = [admin EXCEPT ![a] = r]
      BY <1>5, HandlerTypes DEF AdminRecord, AdminPc, AdminGo
    <2>3. conf' \in [Ids -> ConfRecord] /\ Rows' = Rows
      <3>1. \A i \in Ids : (IF i \in Rows THEN i = id ELSE conf[i].default) \in BOOLEAN
        BY HandlerTypes DEF ConfRecord
      <3> QED BY <1>5, <3>1, HandlerTypes DEF ConfRecord, Rows
    <2> QED BY <1>1, <1>5, <2>1, <2>2, <2>3, HandlerTypes DEF GoodStep, Covering
  <1>6. CASE /\ AdminAt(a, "setDefaultId")
             /\ registry' = IF id \in registry.loaded
                              THEN [registry EXCEPT !.default = id] ELSE registry
             /\ AdminEnds(a)
             /\ UNCHANGED <<conf, overtaken, excused, failures>>
    <2>1. id \in Ids /\ admin[a].pc = "setDefaultId"
      BY <1>6, HandlerTypes DEF AdminAt
    <2>2. admin' = [admin EXCEPT ![a] = IdleAdmin] /\ IdleAdmin.pc = "idle"
      BY <1>6 DEF AdminEnds, IdleAdmin
    <2>3. /\ registry' \in [loaded : SUBSET Ids, default : Ids \cup {NoId}]
          /\ registry'.default # NoId => registry'.default \in registry'.loaded
          /\ registry'.loaded = registry.loaded
      BY <1>6, <2>1, HandlerTypes
    <2>4. Rows' = Rows /\ failures' = failures
      BY <1>6 DEF Rows
    <2> QED BY <1>1, <1>6, <2>1, <2>2, <2>3, <2>4, HandlerTypes DEF GoodStep, Covering
  <1> QED BY <1>2, <1>3, <1>4, <1>5, <1>6, <1>7, <1>8 DEF SetDefaultConfig, Excuse

LEMMA DisableInv ==
    ASSUME ConfigInv, NEW a \in Admins, DisableConfig(a)
    PROVE  ConfigInv'
  <1>1. UNCHANGED <<uploader, stored, registry, admin, overtaken, excused, failures>>
    BY DEF DisableConfig, AdminRest
  <1>2. conf' \in [Ids -> ConfRecord] /\ Rows' = Rows
    <2>1. PICK i \in Rows : conf' = [conf EXCEPT ![i].enabled = FALSE]
      BY DEF DisableConfig
    <2>2. conf \in [Ids -> ConfRecord]
      BY HandlerTypes
    <2> QED BY <2>1, <2>2 DEF ConfRecord, Rows
  <1> QED BY <1>1, <1>2 DEF ConfigInv, ConfigTypeOK, ConfRecord, AdminsHaveRows, DefaultIsLoaded,
             RemovalsAreKnown, ImagesHaveStorage, UnloadedIsPending

---------------------------------------------------------------------------
\* Uploads and the start

LEMMA UploadInv ==
    ASSUME ConfigInv,
           LastImageDeleted \/ \E u \in Uploaders : ChooseStorage(u) \/ InsertStoredImage(u)
    PROVE  ConfigInv'
  <1>1. UNCHANGED <<conf, registry, excused, failures>>
    BY DEF LastImageDeleted, ChooseStorage, InsertStoredImage, ConfigKeep
  <1>2. Rows' = Rows
    BY <1>1 DEF Rows
  <1>3. /\ uploader \in [Uploaders -> Ids \cup {NoId}] /\ stored \subseteq Ids /\ overtaken \subseteq Ids
        /\ registry.loaded \subseteq Ids /\ admin \in [Admins -> AdminRecord]
        /\ \A a \in Admins : admin[a].pc = "remove" /\ admin[a].id \in stored => admin[a].late
        /\ stored \ registry.loaded \subseteq overtaken
    BY DEF ConfigInv, ConfigTypeOK, AdminRecord, RemovalsAreKnown, ImagesHaveStorage
  <1>4. /\ uploader' \in [Uploaders -> Ids \cup {NoId}] /\ stored' \subseteq Ids /\ overtaken' \subseteq Ids
        /\ admin' \in [Admins -> AdminRecord]
        /\ \A a \in Admins : admin'[a].pc = admin[a].pc /\ admin'[a].id = admin[a].id
        /\ \A a \in Admins : admin[a].pc = "remove" /\ admin[a].id \in stored' => admin'[a].late
        /\ stored' \ registry.loaded \subseteq overtaken'
    <2>1. CASE LastImageDeleted
      BY <1>3, <2>1 DEF LastImageDeleted
    <2>2. ASSUME NEW u \in Uploaders, ChooseStorage(u)
          PROVE  uploader' \in [Uploaders -> Ids \cup {NoId}] /\ UNCHANGED <<stored, admin, overtaken>>
      BY <1>3, <2>2 DEF ChooseStorage
    <2>3. ASSUME NEW u \in Uploaders, InsertStoredImage(u)
          PROVE  /\ uploader' \in [Uploaders -> Ids \cup {NoId}] /\ stored' \subseteq Ids
                 /\ overtaken' \subseteq Ids /\ stored' \ registry.loaded \subseteq overtaken'
                 /\ admin' \in [Admins -> AdminRecord]
                 /\ \A a \in Admins : /\ admin'[a].pc = admin[a].pc /\ admin'[a].id = admin[a].id
                                      /\ admin[a].pc = "remove" /\ admin[a].id \in stored' => admin'[a].late
      <3>1. uploader[u] \in Ids /\ stored' = stored \cup {uploader[u]}
            /\ uploader' = [uploader EXCEPT ![u] = NoId]
            /\ overtaken' = overtaken \cup ({uploader[u]} \ registry.loaded)
        BY <1>3, <2>3 DEF InsertStoredImage
      <3>2. admin' = [a \in Admins |->
                   [admin[a] EXCEPT !.late = @ \/ (admin[a].pc = "remove" /\ admin[a].id = uploader[u])]]
        BY <2>3 DEF InsertStoredImage
      <3>3. ASSUME NEW a \in Admins
            PROVE  /\ admin'[a] \in AdminRecord /\ admin'[a].pc = admin[a].pc /\ admin'[a].id = admin[a].id
                   /\ admin'[a].late = (admin[a].late \/ (admin[a].pc = "remove" /\ admin[a].id = uploader[u]))
        <4> DEFINE b == admin[a].late \/ (admin[a].pc = "remove" /\ admin[a].id = uploader[u])
        <4>1. admin[a] \in AdminRecord /\ b \in BOOLEAN
          BY <1>3 DEF AdminRecord
        <4>2. admin'[a] = [admin[a] EXCEPT !.late = b]
          BY <3>2
        <4> HIDE DEF b
        <4>3. admin'[a] \in AdminRecord /\ admin'[a].pc = admin[a].pc /\ admin'[a].id = admin[a].id
              /\ admin'[a].late = b
          BY <4>1, <4>2 DEF AdminRecord
        <4> QED BY <4>3 DEF b
      <3>4. admin' \in [Admins -> AdminRecord]
        <4>1. DOMAIN admin' = Admins /\ admin' = [a \in Admins |-> admin'[a]]
          BY <3>2
        <4> QED BY <3>3, <4>1
      <3>5. \A a \in Admins : admin[a].pc = "remove" /\ admin[a].id \in stored' => admin'[a].late
        BY <1>3, <3>1, <3>3
      <3> QED BY <1>3, <3>1, <3>3, <3>4, <3>5
    <2> QED BY <1>3, <2>1, <2>2, <2>3
  <1>5. ConfigTypeOK'
    BY <1>1, <1>4 DEF ConfigInv, ConfigTypeOK, AdminRecord
  <1>6. AdminsHaveRows' /\ RemovalsAreKnown' /\ ImagesHaveStorage' /\ DefaultIsLoaded'
    BY <1>1, <1>4 DEF ConfigInv, AdminsHaveRows, RemovalsAreKnown, ImagesHaveStorage, DefaultIsLoaded
  <1>7. UnloadedIsPending'
    BY <1>1, <1>2, <1>4 DEF ConfigInv, UnloadedIsPending
  <1> QED BY <1>5, <1>6, <1>7 DEF ConfigInv

LEMMA StartInv ==
    ASSUME ConfigInv, Start
    PROVE  ConfigInv'
  <1>1. /\ admin' = [a \in Admins |-> IdleAdmin]
        /\ uploader' = [u \in Uploaders |-> NoId]
        /\ excused' = Ids \ registry'.loaded /\ overtaken' = Ids \ registry'.loaded
        /\ stored' = stored
    BY DEF Start, Excuse
  <1>2. IdleAdmin \in AdminRecord /\ IdleAdmin.pc = "idle"
    BY DEF IdleAdmin, AdminRecord, AdminPc
  <1>3. conf' \in [Ids -> ConfRecord]
    <2>1. conf \in [Ids -> ConfRecord] /\ (Enabled = {}) \in BOOLEAN
      BY DEF ConfigInv, ConfigTypeOK, ConfRecord
    <2>2. CASE UNCHANGED conf
      BY <2>1, <2>2
    <2>3. ASSUME NEW i \in Ids,
                 conf' = [conf EXCEPT ![i] =
                   [at |-> "live", enabled |-> TRUE, default |-> Enabled = {}]]
          PROVE  conf' \in [Ids -> ConfRecord]
      <3>1. [at |-> "live", enabled |-> TRUE, default |-> Enabled = {}] \in ConfRecord
        BY <2>1 DEF ConfRecord
      <3> QED BY <2>1, <2>3, <3>1
    <2> QED BY <2>2, <2>3 DEF Start
  <1>4. /\ registry' \in [loaded : SUBSET Ids, default : Ids \cup {NoId}]
        /\ registry'.default # NoId => registry'.default \in registry'.loaded
        /\ failures' \in 0 .. MaxFailures
    <2> DEFINE live == {i \in Ids : conf'[i].at = "live"}
    <2>1. \E usable \in SUBSET Ids : registry' = Started(live, usable)
      BY DEF Start
    <2>2. PICK usable \in SUBSET Ids : registry' = Started(live, usable)
      BY <2>1
    <2> DEFINE defaults == {i \in live \cap usable : conf'[i].default}
    <2>3. defaults \in SUBSET Ids /\ live \cap usable \subseteq Ids
      OBVIOUS
    <2>4. defaults # {} => Greatest(defaults) \in defaults
      BY <2>3, GreatestIn
    <2>5. registry' = IF defaults = {} THEN [loaded |-> {}, default |-> NoId]
                      ELSE [loaded |-> live \cap usable, default |-> Greatest(defaults)]
      BY <2>2 DEF Started
    <2>6. failures' \in 0 .. MaxFailures
      BY ConfigAssumption DEF Start, ConfigWorks, ConfigFails, ConfigInv, ConfigTypeOK
    <2> QED BY <2>3, <2>4, <2>5, <2>6
  <1>5. ConfigTypeOK'
    BY <1>1, <1>2, <1>3, <1>4 DEF ConfigInv, ConfigTypeOK, ConfRecord, AdminRecord
  <1>6. UnloadedIsPending' /\ ImagesHaveStorage'
    BY <1>1, <1>5 DEF UnloadedIsPending, ImagesHaveStorage, Rows, ConfigTypeOK
  <1> QED BY <1>1, <1>2, <1>4, <1>5, <1>6 DEF ConfigInv, AdminsHaveRows, DefaultIsLoaded,
             RemovalsAreKnown

LEMMA ConfigInitInv == ConfigInit => ConfigInv
  <1> SUFFICES ASSUME ConfigInit PROVE ConfigInv
    OBVIOUS
  <1>1. 1 \in Ids /\ NoId \notin Ids /\ 0 \in 0 .. MaxFailures
    BY ConfigAssumption DEF Ids, NoId
  <1>2. conf \in [Ids -> ConfRecord] /\ Rows \subseteq {1}
    BY DEF ConfigInit, NoConf, ConfRecord, Rows
  <1>3. IdleAdmin \in AdminRecord /\ IdleAdmin.pc = "idle"
    BY DEF IdleAdmin, AdminRecord, AdminPc
  <1> QED BY <1>1, <1>2, <1>3 DEF ConfigInit, ConfigInv, ConfigTypeOK, ConfRecord, AdminRecord,
             AdminsHaveRows, DefaultIsLoaded, RemovalsAreKnown, ImagesHaveStorage,
             UnloadedIsPending

LEMMA ConfigStepInv == ConfigInv /\ [ConfigNext]_configVars => ConfigInv'
  <1> SUFFICES ASSUME ConfigInv, [ConfigNext]_configVars PROVE ConfigInv'
    OBVIOUS
  <1>1. CASE UNCHANGED configVars
    BY <1>1 DEF configVars, ConfigInv, ConfigTypeOK, AdminsHaveRows, DefaultIsLoaded,
       RemovalsAreKnown, ImagesHaveStorage, UnloadedIsPending, Rows
  <1>2. ASSUME NEW a \in Admins,
               \/ CreateConfig(a) \/ LoadProvider(a) \/ RollbackCreate(a) \/ UpdateConfig(a)
               \/ CountImages(a) \/ DeleteConfig(a) \/ SetDefaultConfig(a) \/ EnableConfig(a)
        PROVE  ConfigInv'
    <2>1. GoodStep(a)
      BY <1>2, CreateGood, LoadGood, RollbackGood, UpdateGood, CountGood, DeleteGood, SetDefaultGood,
         EnableGood
    <2> QED BY <2>1, GoodStepsSuffice
  <1> QED BY <1>1, <1>2, DisableInv, UploadInv, StartInv DEF ConfigNext

---------------------------------------------------------------------------
\* Theorems

\* ConfigInv holds whatever administrators, uploads and restarts do.
THEOREM ConfigInvariance == ConfigSpec => []ConfigInv
  <1> QED BY ConfigInitInv, ConfigStepInv, PTL DEF ConfigSpec

\* GetDefault always finds a provider when a default is set: the default is
\* never removed, and nothing that is not loaded becomes it.
THEOREM DefaultStaysLoaded == ConfigSpec => []DefaultIsLoaded
  <1>1. ConfigInv => DefaultIsLoaded
    BY DEF ConfigInv
  <1> QED BY <1>1, ConfigInvariance, PTL

\* A storage with images keeps its provider, but where the image was inserted
\* between the count of the deletion and its removal of the provider, or after
\* the removal, and where the last start has not loaded the provider.
THEOREM ImagesKeepStorage == ConfigSpec => []ImagesHaveStorage
  <1>1. ConfigInv => ImagesHaveStorage
    BY DEF ConfigInv
  <1> QED BY <1>1, ConfigInvariance, PTL

\* When the handlers have returned, every row has its provider.
THEOREM RowsGetLoaded == ConfigSpec => []RowsAreLoaded
  <1>1. ConfigInv => RowsAreLoaded
    BY DEF ConfigInv, RowsAreLoaded, UnloadedIsPending
  <1> QED BY <1>1, ConfigInvariance, PTL

-----------------------------------------------------------------------------
(***************************************************************************)
(* Settings. Once every change of a kind has returned, what the cache      *)
(* holds is what the table holds, unless a slow load stored late or a      *)
(* change was refused.                                                     *)
(***************************************************************************)

---------------------------------------------------------------------------
\* Settings

\* Changes counted and not yet written.
Pending == {c \in Changers : changer[c].pc \in {"create", "update", "get", "keep", "edit",
                                               "save", "write"}}

\* Every change is counted before it writes, and no number is used that was not
\* counted.
ChangesAreCounted ==
    /\ IsFiniteSet(Pending)
    /\ changes \in Changes
    /\ row \in [Kinds -> Nat]
    /\ \A k \in Kinds : row[k] + Cardinality(Pending) <= changes

\* Values on their way into the cache were in the table.
LoadsAreReal ==
    /\ loader \in [Loaders -> [pc : {"idle", "store"}, kind : Kinds, value : Changes]]
    /\ changer \in [Changers -> [pc : ChangerPc, kind : Kinds, value : Changes,
                                 holds : BOOLEAN, bad : BOOLEAN]]
    /\ \A l \in Loaders : loader[l].pc = "store" => loader[l].value <= row[loader[l].kind]
    /\ \A c \in Changers : changer[c].value <= row[changer[c].kind]
    /\ \A c \in Changers :
          /\ changer[c].pc = "idle" => changer[c].value = 0
          /\ changer[c].pc \in {"idle", "create", "update", "set"} => changer[c].kind = "mode"
          /\ changer[c].pc \in {"get", "keep", "edit", "save"} => changer[c].kind = "processing"
          /\ changer[c].pc = "write" => changer[c].kind = "storage"

\* A value in the cache that is not the table's is one a change is about to
\* clear, or a late or an edited one.
StaleIsAboutToGo ==
    /\ cached \in [Kinds -> Cached]
    /\ \A k \in Kinds :
          cached[k].value # 0 /\ ~ cached[k].late /\ ~ cached[k].edited
              => \/ cached[k].value = row[k]
                 \/ \E c \in Changers : changer[c].kind = k /\ changer[c].pc \in {"set", "invalidate"}

SettingsInv == ChangesAreCounted /\ LoadsAreReal /\ StaleIsAboutToGo

Changer == [pc : ChangerPc, kind : Kinds, value : Changes, holds : BOOLEAN, bad : BOOLEAN]
Unwritten == {"create", "update", "get", "keep", "edit", "save", "write"}
About == {"set", "invalidate"}

LEMMA IdleSettings == IdleChanger \in Changer /\ 0 \in Changes
  BY SettingsAssumption DEF IdleChanger, Changer, ChangerPc, Kinds, Changes

\* Only a changer's own step moves it; others at most keep the object they hold.
Goes(c, p, k, v) ==
    /\ changer' \in [Changers -> Changer]
    /\ \A d \in Changers \ {c} : /\ changer'[d].pc = changer[d].pc
                                 /\ changer'[d].kind = changer[d].kind
                                 /\ changer'[d].value = changer[d].value
    /\ changer'[c].pc = p /\ changer'[c].kind = k /\ changer'[c].value = v

\* LetGo changes nothing but who holds the object.
LEMMA LetGoKeeps ==
    ASSUME cached \in [Kinds -> Cached], NEW chs \in [Changers -> Changer], NEW S
    PROVE  /\ LetGo(S, chs) \in [Changers -> Changer]
           /\ \A d \in Changers : /\ LetGo(S, chs)[d].pc = chs[d].pc
                                  /\ LetGo(S, chs)[d].kind = chs[d].kind
                                  /\ LetGo(S, chs)[d].value = chs[d].value
  <1>1. cached["processing"].bad \in BOOLEAN
    BY DEF Cached, Kinds
  <1>2. \A ch \in Changer, b \in BOOLEAN :
           LET q == [ch EXCEPT !.holds = FALSE, !.bad = b]
           IN  q \in Changer /\ q.pc = ch.pc /\ q.kind = ch.kind /\ q.value = ch.value
    BY DEF Changer
  <1> QED BY <1>1, <1>2 DEF LetGo

\* The changes not yet written, after a step of one changer.
LEMMA PendingAfter ==
    ASSUME ChangesAreCounted, LoadsAreReal, NEW c \in Changers, NEW p, NEW k, NEW v, Goes(c, p, k, v)
    PROVE  /\ IsFiniteSet(Pending') /\ Cardinality(Pending') \in Nat /\ Cardinality(Pending) \in Nat
           /\ (changer[c].pc \in Unwritten <=> p \in Unwritten) =>
                 Cardinality(Pending') = Cardinality(Pending)
           /\ changer[c].pc \notin Unwritten /\ p \in Unwritten =>
                 Cardinality(Pending') = Cardinality(Pending) + 1
           /\ changer[c].pc \in Unwritten /\ p \notin Unwritten =>
                 Cardinality(Pending') = Cardinality(Pending) - 1
  <1>1. IsFiniteSet(Pending) /\ Cardinality(Pending) \in Nat
    BY FS_CardinalityType DEF ChangesAreCounted
  <1>2. CASE changer[c].pc \in Unwritten <=> p \in Unwritten
    <2>1. Pending' = Pending
      BY <1>2 DEF Pending, Goes, Unwritten
    <2> QED BY <1>1, <1>2, <2>1
  <1>3. CASE changer[c].pc \notin Unwritten /\ p \in Unwritten
    <2>1. Pending' = Pending \cup {c} /\ c \notin Pending
      BY <1>3 DEF Pending, Goes, Unwritten
    <2> QED BY <1>1, <1>3, <2>1, FS_AddElement
  <1>4. CASE changer[c].pc \in Unwritten /\ p \notin Unwritten
    <2>1. Pending' = Pending \ {c} /\ c \in Pending
      BY <1>4 DEF Pending, Goes, Unwritten
    <2>2. IsFiniteSet(Pending') /\ Cardinality(Pending') = Cardinality(Pending) - 1
      BY <1>1, <2>1, FS_RemoveElement
    <2>3. Cardinality(Pending') \in Nat
      BY <2>2, FS_CardinalityType
    <2> QED BY <1>1, <1>4, <2>2, <2>3
  <1> QED BY <1>2, <1>3, <1>4

\* What a step of a changer does to the tables and the counter.
Fits(p, k, v) ==
    /\ p = "idle" => v = 0
    /\ p \in {"idle", "create", "update", "set"} => k = "mode"
    /\ p \in {"get", "keep", "edit", "save"} => k = "processing"
    /\ p = "write" => k = "storage"
    /\ v <= row'[k]
Counts(c, p) ==
    \/ /\ changer[c].pc \notin Unwritten /\ p \in Unwritten
       /\ changes < MaxChange /\ changes' = changes + 1 /\ row' = row
    \/ /\ changer[c].pc \in Unwritten /\ p \notin Unwritten
       /\ changes' = changes
       /\ row' = row \/ \E k \in Kinds : row' = [row EXCEPT ![k] = @ + 1]
    \/ /\ changer[c].pc \in Unwritten <=> p \in Unwritten
       /\ changes' = changes /\ row' = row

LEMMA CountedStep ==
    ASSUME ChangesAreCounted, LoadsAreReal, NEW c \in Changers, NEW p, NEW k, NEW v,
           Goes(c, p, k, v), Counts(c, p)
    PROVE  ChangesAreCounted' /\ \A j \in Kinds : row[j] <= row'[j]
  <1>1. /\ row \in [Kinds -> Nat] /\ changes \in Nat /\ MaxChange \in Nat /\ changes <= MaxChange
        /\ \A j \in Kinds : row[j] + Cardinality(Pending) <= changes
    BY SettingsAssumption DEF ChangesAreCounted, Changes
  <1>2. /\ IsFiniteSet(Pending') /\ Cardinality(Pending') \in Nat /\ Cardinality(Pending) \in Nat
        /\ (changer[c].pc \in Unwritten <=> p \in Unwritten) =>
              Cardinality(Pending') = Cardinality(Pending)
        /\ changer[c].pc \notin Unwritten /\ p \in Unwritten =>
              Cardinality(Pending') = Cardinality(Pending) + 1
        /\ changer[c].pc \in Unwritten /\ p \notin Unwritten =>
              Cardinality(Pending') = Cardinality(Pending) - 1
    BY PendingAfter
  <1>3. CASE /\ changer[c].pc \notin Unwritten /\ p \in Unwritten
             /\ changes < MaxChange /\ changes' = changes + 1 /\ row' = row
    BY <1>1, <1>2, <1>3 DEF ChangesAreCounted, Changes
  <1>4. CASE /\ changer[c].pc \in Unwritten /\ p \notin Unwritten
             /\ changes' = changes
             /\ row' = row \/ \E j \in Kinds : row' = [row EXCEPT ![j] = @ + 1]
    <2>1. \A j \in Kinds : row'[j] \in Nat /\ row[j] <= row'[j] /\ row'[j] <= row[j] + 1
      BY <1>1, <1>4
    <2>2. row' \in [Kinds -> Nat]
      BY <1>1, <1>4
    <2> QED BY <1>1, <1>2, <1>4, <2>1, <2>2 DEF ChangesAreCounted, Changes
  <1>5. CASE /\ changer[c].pc \in Unwritten <=> p \in Unwritten
             /\ changes' = changes /\ row' = row
    BY <1>1, <1>2, <1>5 DEF ChangesAreCounted, Changes
  <1> QED BY <1>3, <1>4, <1>5 DEF Counts

LEMMA LoadsStay ==
    ASSUME ChangesAreCounted, ChangesAreCounted', LoadsAreReal, NEW c \in Changers, NEW p, NEW k \in Kinds,
           NEW v, Goes(c, p, k, v), Fits(p, k, v), UNCHANGED loader,
           \A j \in Kinds : row[j] <= row'[j]
    PROVE  LoadsAreReal'
  <1>1. /\ row \in [Kinds -> Nat] /\ row' \in [Kinds -> Nat]
        /\ \A l \in Loaders : loader[l].kind \in Kinds /\ loader[l].value \in Nat
        /\ \A d \in Changers : changer[d].kind \in Kinds /\ changer[d].value \in Nat
    BY DEF ChangesAreCounted, LoadsAreReal, Changes
  <1>2. \A l \in Loaders : loader[l].pc = "store" => loader[l].value <= row'[loader[l].kind]
    BY <1>1 DEF LoadsAreReal
  <1>3. \A d \in Changers : changer'[d].value <= row'[changer'[d].kind]
    BY <1>1 DEF LoadsAreReal, Goes, Fits
  <1>4. ASSUME NEW d \in Changers
        PROVE  /\ changer'[d].pc = "idle" => changer'[d].value = 0
               /\ changer'[d].pc \in {"idle", "create", "update", "set"} => changer'[d].kind = "mode"
               /\ changer'[d].pc \in {"get", "keep", "edit", "save"} => changer'[d].kind = "processing"
               /\ changer'[d].pc = "write" => changer'[d].kind = "storage"
    BY DEF LoadsAreReal, Goes, Fits
  <1> QED BY <1>2, <1>3, <1>4 DEF LoadsAreReal, Goes, Changer
\* What a step of a changer leaves in the cache.
Keeps(c, k) ==
    \/ /\ row'[k] = row[k] /\ cached'[k] = cached[k]
       /\ changer[c].kind = k /\ changer[c].pc \in About
             => changer'[c].kind = k /\ changer'[c].pc \in About
    \/ changer'[c].kind = k /\ changer'[c].pc \in About
    \/ cached'[k].value = 0 \/ cached'[k].late \/ cached'[k].edited \/ cached'[k].value = row'[k]

LEMMA StaleStep ==
    ASSUME StaleIsAboutToGo, NEW c \in Changers, NEW p, NEW j, NEW v, Goes(c, p, j, v),
           cached' \in [Kinds -> Cached], \A k \in Kinds : Keeps(c, k)
    PROVE  StaleIsAboutToGo'
  <1> SUFFICES ASSUME NEW k \in Kinds, cached'[k].value # 0, ~ cached'[k].late, ~ cached'[k].edited,
                      cached'[k].value # row'[k]
               PROVE  \E d \in Changers : changer'[d].kind = k /\ changer'[d].pc \in About
    BY DEF StaleIsAboutToGo, About
  <1>1. CASE changer'[c].kind = k /\ changer'[c].pc \in About
    BY <1>1
  <1>2. CASE /\ row'[k] = row[k] /\ cached'[k] = cached[k]
             /\ changer[c].kind = k /\ changer[c].pc \in About
                   => changer'[c].kind = k /\ changer'[c].pc \in About
    <2>1. PICK d \in Changers : changer[d].kind = k /\ changer[d].pc \in About
      BY <1>2 DEF StaleIsAboutToGo, About
    <2> QED BY <1>2, <2>1 DEF Goes
  <1> QED BY <1>1, <1>2 DEF Keeps

LEMMA SettingsChange ==
    ASSUME SettingsInv, NEW c \in Changers, NEW p, NEW k \in Kinds, NEW v,
           Goes(c, p, k, v), Fits(p, k, v), Counts(c, p), UNCHANGED loader,
           cached' \in [Kinds -> Cached], \A j \in Kinds : Keeps(c, j)
    PROVE  SettingsInv'
  BY CountedStep, LoadsStay, StaleStep DEF SettingsInv

LEMMA SettingsContext ==
    ASSUME SettingsInv, NEW c \in Changers
    PROVE  /\ changer \in [Changers -> Changer] /\ changer[c] \in Changer
           /\ row \in [Kinds -> Nat] /\ cached \in [Kinds -> Cached]
           /\ \A k \in Kinds : cached[k] \in Cached
           /\ \A k \in Kinds : row[k] \in Nat /\ row[k] \in Changes
           /\ changer[c].value \in Nat /\ changer[c].kind \in Kinds
           /\ changer[c].value <= row[changer[c].kind]
           /\ {"mode", "processing", "storage"} = Kinds
           /\ Nothing \in Cached
           /\ Cardinality(Pending) \in Nat
           /\ changer[c].pc \in Unwritten =>
                 \A k \in Kinds : row[k] + 1 <= changes /\ row[k] + 1 \in Changes
  <1>1. /\ changer \in [Changers -> Changer] /\ changer[c] \in Changer
        /\ row \in [Kinds -> Nat] /\ cached \in [Kinds -> Cached]
        /\ changer[c].value <= row[changer[c].kind]
        /\ changer[c].value \in Nat /\ changer[c].kind \in Kinds
    BY DEF SettingsInv, ChangesAreCounted, LoadsAreReal, StaleIsAboutToGo, Changer, Changes
  <1>2. Nothing \in Cached /\ Kinds = {"mode", "processing", "storage"}
    BY SettingsAssumption DEF Nothing, Cached, Changes, Kinds
  <1>3. /\ IsFiniteSet(Pending) /\ changes \in Nat /\ changes <= MaxChange /\ MaxChange \in Nat
        /\ \A k \in Kinds : row[k] + Cardinality(Pending) <= changes
    BY SettingsAssumption DEF SettingsInv, ChangesAreCounted, Changes
  <1>4. Cardinality(Pending) \in Nat
    BY <1>3, FS_CardinalityType
  <1>5. \A k \in Kinds : row[k] \in Nat /\ row[k] \in Changes
    BY <1>1, <1>3, <1>4 DEF Changes
  <1>6. ASSUME changer[c].pc \in Unwritten
        PROVE  \A k \in Kinds : row[k] + 1 <= changes /\ row[k] + 1 \in Changes
    <2>1. c \in Pending
      BY <1>6 DEF Pending, Unwritten
    <2>2. IsFiniteSet(Pending \ {c}) /\ Cardinality(Pending \ {c}) = Cardinality(Pending) - 1
      BY <1>3, <2>1, FS_RemoveElement
    <2>3. Cardinality(Pending \ {c}) \in Nat
      BY <2>2, FS_CardinalityType
    <2>4. Cardinality(Pending) >= 1
      BY <1>4, <2>2, <2>3
    <2> QED BY <1>3, <1>4, <1>5, <2>4 DEF Changes
  <1>7. \A k \in Kinds : cached[k] \in Cached
    BY <1>1
  <1> QED BY <1>1, <1>2, <1>4, <1>5, <1>6, <1>7

\* The object that leaves the cache changes hands; otherwise a changer only goes
\* on, or ends.
LEMMA GoesOn ==
    ASSUME SettingsInv, NEW c \in Changers, NEW p \in ChangerPc, ChangerGo(c, p)
    PROVE  Goes(c, p, changer[c].kind, changer[c].value)
  BY SettingsContext DEF ChangerGo, Goes, Changer

LEMMA GoesHome ==
    ASSUME SettingsInv, NEW c \in Changers, ChangerEnds(c)
    PROVE  Goes(c, "idle", "mode", 0)
  BY SettingsContext, IdleSettings DEF ChangerEnds, Goes, IdleChanger

LEMMA GoesAs ==
    ASSUME NEW f \in [Changers -> Changer], NEW c \in Changers, NEW r \in Changer,
           \A d \in Changers : /\ f[d].pc = changer[d].pc /\ f[d].kind = changer[d].kind
                               /\ f[d].value = changer[d].value,
           changer' = [f EXCEPT ![c] = r]
    PROVE  Goes(c, r.pc, r.kind, r.value)
  BY DEF Goes

\* What a load puts in the cache.
LEMMA AsCachedIs ==
    ASSUME NEW k \in Kinds, NEW v \in Changes, row[k] \in Nat, v <= row[k]
    PROVE  /\ AsCached(k, v) \in Cached
           /\ AsCached(k, v).late \/ AsCached(k, v).value = row[k]
  <1> DEFINE late == v < row[k]
  <1>1. v \in Nat
    BY SettingsAssumption DEF Changes
  <1>2. AsCached(k, v) = [Nothing EXCEPT !.value = v, !.late = late]
    BY DEF AsCached
  <1>3. late \/ v = row[k]
    BY <1>1
  <1>4. late \in BOOLEAN
    OBVIOUS
  <1> HIDE DEF late
  <1>5. \A b \in BOOLEAN : LET q == [Nothing EXCEPT !.value = v, !.late = b]
                             IN  q \in Cached /\ q.value = v /\ q.late = b
    BY DEF Nothing, Cached
  <1> QED BY <1>2, <1>3, <1>4, <1>5

LEMMA BeginSteps ==
    ASSUME SettingsInv, NEW c \in Changers, BeginChange(c)
    PROVE  SettingsInv'
  <1> USE SettingsContext
  <1>1. /\ changer[c].pc = "idle" /\ changer[c].value = 0 /\ changer[c].kind = "mode"
        /\ changes < MaxChange /\ changes' = changes + 1 /\ UNCHANGED <<row, cached, loader>>
    BY DEF BeginChange, SettingsInv, LoadsAreReal
  <1>2. \E p \in Unwritten, k \in Kinds :
           /\ Goes(c, p, k, 0)
           /\ \/ p \in {"create", "update"} /\ k = "mode"
              \/ p = "get" /\ k = "processing"
              \/ p = "write" /\ k = "storage"
    <2>1. \A p \in Unwritten, k \in Kinds :
             changer' = [changer EXCEPT ![c].pc = p, ![c].kind = k] => Goes(c, p, k, 0)
      <3> SUFFICES ASSUME NEW p \in Unwritten, NEW k \in Kinds,
                          changer' = [changer EXCEPT ![c].pc = p, ![c].kind = k]
                   PROVE  Goes(c, p, k, 0)
        OBVIOUS
      <3> DEFINE r == [changer[c] EXCEPT !.pc = p, !.kind = k]
      <3>1. r \in Changer /\ r.pc = p /\ r.kind = k /\ r.value = 0
        BY <1>1 DEF Changer, Unwritten, ChangerPc
      <3>2. changer' = [changer EXCEPT ![c] = r]
        OBVIOUS
      <3> HIDE DEF r
      <3> QED BY <3>1, <3>2, GoesAs
    <2>2. \A p \in Unwritten : changer' = [changer EXCEPT ![c].pc = p] => Goes(c, p, "mode", 0)
      BY <1>1 DEF Goes, Changer, Unwritten, ChangerPc
    <2>3. CASE changer' = [changer EXCEPT ![c].pc = IF row["mode"] = 0 THEN "create" ELSE "update"]
      BY <2>2, <2>3 DEF Unwritten
    <2>4. CASE changer' = [changer EXCEPT ![c].pc = "get", ![c].kind = "processing"]
      BY <2>1, <2>4 DEF Unwritten
    <2>5. CASE changer' = [changer EXCEPT ![c].pc = "write", ![c].kind = "storage"]
      BY <2>1, <2>5 DEF Unwritten
    <2> QED BY <2>3, <2>4, <2>5 DEF BeginChange
  <1>3. PICK p \in Unwritten, k \in Kinds :
           /\ Goes(c, p, k, 0)
           /\ \/ p \in {"create", "update"} /\ k = "mode"
              \/ p = "get" /\ k = "processing"
              \/ p = "write" /\ k = "storage"
    BY <1>2
  <1>4. Fits(p, k, 0)
    BY <1>1, <1>3 DEF Fits, Unwritten
  <1>5. Counts(c, p)
    BY <1>1 DEF Counts, Unwritten
  <1>6. \A j \in Kinds : Keeps(c, j)
    BY <1>1 DEF Keeps, About
  <1> QED BY <1>1, <1>3, <1>4, <1>5, <1>6, SettingsChange

LEMMA WriteSteps ==
    ASSUME SettingsInv, NEW c \in Changers, WriteMode(c) \/ WriteStorage(c) \/ SaveSettings(c)
    PROVE  SettingsInv'
  <1> USE SettingsContext
  <1>1. /\ changer[c].pc \in Unwritten /\ UNCHANGED <<cached, changes, loader>>
        /\ changer[c].pc \in {"create", "update"} => changer[c].kind = "mode"
        /\ changer[c].pc = "save" => changer[c].kind = "processing"
        /\ changer[c].pc = "write" => changer[c].kind = "storage"
    BY DEF WriteMode, WriteStorage, SaveSettings, Unwritten, SettingsInv, LoadsAreReal
  <1>2. CASE ChangerEnds(c) /\ UNCHANGED row
    <2>1. Goes(c, "idle", "mode", 0) /\ Fits("idle", "mode", 0) /\ Counts(c, "idle")
      BY <1>1, <1>2, GoesHome DEF Fits, Counts, Unwritten
    <2>2. \A j \in Kinds : Keeps(c, j)
      BY <1>1, <1>2 DEF Keeps, About, Unwritten
    <2> QED BY <1>1, <2>1, <2>2, SettingsChange
  <1>3. ASSUME NEW p \in About, NEW v \in Nat, v <= row'[changer[c].kind], Goes(c, p, changer[c].kind, v),
               row' = [row EXCEPT ![changer[c].kind] = @ + 1], p = "set" => changer[c].kind = "mode"
        PROVE  SettingsInv'
    <2>1. Fits(p, changer[c].kind, v) /\ Counts(c, p)
      BY <1>1, <1>3 DEF Fits, Counts, Unwritten, About
    <2>2. \A j \in Kinds : Keeps(c, j)
      <3>1. changer'[c].kind = changer[c].kind /\ changer'[c].pc \in About
        BY <1>3 DEF Goes
      <3>2. \A j \in Kinds \ {changer[c].kind} : row'[j] = row[j] /\ cached'[j] = cached[j]
        BY <1>1, <1>3
      <3> QED BY <3>1, <3>2 DEF Keeps
    <2> QED BY <1>1, <1>3, <2>1, <2>2, SettingsChange
  <1>4. CASE WriteMode(c)
    <2>1. CASE ChangerEnds(c) /\ UNCHANGED row
      BY <1>2, <2>1
    <2>2. CASE /\ row' = [row EXCEPT !["mode"] = @ + 1]
               /\ changer' = [changer EXCEPT ![c].pc = "set", ![c].value = row["mode"] + 1]
      <3>1. changer[c].kind = "mode" /\ row'["mode"] = row["mode"] + 1 /\ row["mode"] + 1 \in Changes
        BY <1>1, <1>4, <2>2 DEF WriteMode
      <3>2. Goes(c, "set", "mode", row["mode"] + 1)
        BY <2>2, <3>1 DEF Goes, Changer, ChangerPc
      <3> QED BY <1>3, <2>2, <3>1, <3>2 DEF About
    <2> QED BY <1>4, <2>1, <2>2 DEF WriteMode
  <1>5. ASSUME NEW k \in Kinds, changer[c].kind = k, ChangerGo(c, "invalidate"),
               row' = [row EXCEPT ![k] = @ + 1]
        PROVE  SettingsInv'
    <2>1. Goes(c, "invalidate", changer[c].kind, changer[c].value)
      BY <1>5, GoesOn DEF ChangerPc
    <2>2. changer[c].value <= row'[changer[c].kind]
      BY <1>5
    <2> QED BY <1>3, <1>5, <2>1, <2>2 DEF About
  <1>6. CASE WriteStorage(c)
    BY <1>1, <1>5, <1>6 DEF WriteStorage
  <1>7. CASE SaveSettings(c)
    BY <1>1, <1>2, <1>5, <1>7 DEF SaveSettings
  <1> QED BY <1>4, <1>6, <1>7

LEMMA CacheSteps ==
    ASSUME SettingsInv, NEW c \in Changers,
           \/ SetTransferMode(c) \/ Invalidate(c) \/ ClearCache(c)
           \/ GetSettings(c) \/ KeepSettings(c) \/ EditSettings(c)
    PROVE  SettingsInv'
  <1> USE SettingsContext
  <1>1. /\ UNCHANGED <<row, changes, loader>>
        /\ changer[c].pc = "set" => changer[c].kind = "mode"
        /\ changer[c].pc \in {"get", "keep", "edit", "save"} => changer[c].kind = "processing"
    BY DEF SetTransferMode, Invalidate, ClearCache, GetSettings, KeepSettings, EditSettings,
       SettingsInv, LoadsAreReal
  <1>2. CASE SetTransferMode(c)
    <2>1. /\ changer[c].pc = "set" /\ changer[c].kind = "mode" /\ changer[c].value \in Changes
      BY <1>1, <1>2 DEF SetTransferMode, Changer
    <2>2. Goes(c, "invalidate", "mode", changer[c].value)
      BY <1>2, <2>1, GoesOn DEF SetTransferMode, ChangerPc
    <2>3. [Nothing EXCEPT !.value = changer[c].value] \in Cached
      BY <2>1 DEF Nothing, Cached
    <2>4. cached' \in [Kinds -> Cached] /\ \A j \in Kinds \ {"mode"} : cached'[j] = cached[j]
      BY <1>2, <2>3 DEF SetTransferMode
    <2>5. Fits("invalidate", "mode", changer[c].value) /\ Counts(c, "invalidate")
      BY <1>1, <2>1 DEF Fits, Counts, Unwritten
    <2>6. \A j \in Kinds : Keeps(c, j)
      BY <1>1, <2>1, <2>2, <2>4 DEF Keeps, Goes, About
    <2> QED BY <1>1, <2>2, <2>4, <2>5, <2>6, SettingsChange
  <1>3. CASE Invalidate(c)
    <2>1. PICK cleared \in ClearsFor(changer[c].kind) :
             /\ cached' = [k \in Kinds |-> IF k \in cleared THEN Nothing ELSE cached[k]]
             /\ changer' = LetGo(cleared, [changer EXCEPT
                   ![c] = IF @.kind = "mode" THEN [@ EXCEPT !.pc = "clear"] ELSE IdleChanger])
      BY <1>3 DEF Invalidate
    <2>2. changer[c].kind \in cleared /\ changer[c].pc = "invalidate"
      BY <1>3 DEF ClearsFor, Invalidate
    <2>3. cached' \in [Kinds -> Cached]
      BY <2>1
    <2> DEFINE r == IF changer[c].kind = "mode" THEN [changer[c] EXCEPT !.pc = "clear"]
                                                ELSE IdleChanger
    <2>4. /\ r \in Changer
          /\ \/ /\ r.pc = "clear" /\ r.kind = "mode" /\ r.value = changer[c].value
                /\ changer[c].kind = "mode"
             \/ r.pc = "idle" /\ r.kind = "mode" /\ r.value = 0
      <3>1. CASE changer[c].kind = "mode"
        BY <3>1 DEF Changer, ChangerPc
      <3>2. CASE changer[c].kind # "mode"
        BY <3>2, IdleSettings DEF IdleChanger
      <3> QED BY <3>1, <3>2
    <2>5. changer' = LetGo(cleared, [changer EXCEPT ![c] = r])
      BY <2>1
    <2> HIDE DEF r
    <2>6. [changer EXCEPT ![c] = r] \in [Changers -> Changer]
      BY <2>4
    <2>7. Goes(c, r.pc, r.kind, r.value)
      <3> DEFINE chs == [changer EXCEPT ![c] = r]
      <3>1. cached \in [Kinds -> Cached] /\ chs \in [Changers -> Changer] /\ changer' = LetGo(cleared, chs)
        BY <1>1, <2>5, <2>6
      <3>2. chs[c] = r /\ \A d \in Changers \ {c} : chs[d] = changer[d]
        BY <1>1
      <3> HIDE DEF chs
      <3>3. /\ changer' \in [Changers -> Changer]
            /\ \A d \in Changers : /\ changer'[d].pc = chs[d].pc /\ changer'[d].kind = chs[d].kind
                                   /\ changer'[d].value = chs[d].value
        BY <3>1, LetGoKeeps
      <3> QED BY <3>2, <3>3 DEF Goes
    <2>8. Fits(r.pc, r.kind, r.value)
      <3>1. row["mode"] \in Nat /\ row' = row /\ (changer[c].kind = "mode" => changer[c].value <= row["mode"])
        BY <1>1
      <3>2. r.value <= row["mode"] /\ r.kind = "mode"
        BY <2>4, <3>1
      <3> QED BY <2>4, <3>1, <3>2 DEF Fits
    <2>9. Counts(c, r.pc)
      BY <1>1, <2>2, <2>4 DEF Counts, Unwritten
    <2>10. \A j \in Kinds : Keeps(c, j)
      BY <1>1, <2>1, <2>2 DEF Keeps, Nothing
    <2> QED BY <1>1, <2>3, <2>4, <2>7, <2>8, <2>9, <2>10, SettingsChange
  <1>14. CASE ClearCache(c)
    <2>1. changer[c].pc = "clear" /\ cached' = [cached EXCEPT !["storage"] = Nothing]
      BY <1>14 DEF ClearCache
    <2>2. cached' \in [Kinds -> Cached]
      BY <2>1
    <2>3. Goes(c, "idle", "mode", 0)
      BY <1>14, GoesHome DEF ClearCache
    <2>4. Fits("idle", "mode", 0) /\ Counts(c, "idle")
      BY <1>1, <2>1 DEF Fits, Counts, Unwritten
    <2>5. \A j \in Kinds : Keeps(c, j)
      BY <1>1, <2>1 DEF Keeps, Nothing, About
    <2> QED BY <1>1, <2>2, <2>3, <2>4, <2>5, SettingsChange
  <1>4. ASSUME NEW p \in {"keep", "edit", "save"}, NEW v \in Nat, v <= row["processing"],
               changer[c].pc \in {"get", "keep", "edit"},
               Goes(c, p, "processing", v), cached' \in [Kinds -> Cached],
               \A j \in Kinds : \/ cached'[j] = cached[j] \/ cached'[j].edited \/ cached'[j].late
                                \/ cached'[j].value = row[j]
        PROVE  SettingsInv'
    <2>1. Fits(p, "processing", v) /\ Counts(c, p)
      BY <1>1, <1>4 DEF Fits, Counts, Unwritten
    <2>2. \A j \in Kinds : Keeps(c, j)
      BY <1>1, <1>4 DEF Keeps, About
    <2> QED BY <1>1, <1>4, <2>1, <2>2, SettingsChange
  <1>5. ASSUME NEW p \in {"keep", "edit", "save"}, NEW v \in Changes, NEW b \in BOOLEAN, NEW d \in BOOLEAN,
               changer[c].kind = "processing",
               changer' = [changer EXCEPT ![c] = [@ EXCEPT !.pc = p, !.value = v, !.holds = b, !.bad = d]]
        PROVE  Goes(c, p, "processing", v)
    BY <1>5 DEF Goes, Changer, ChangerPc
  <1>6. changer[c].value \in Changes /\ changer[c].holds \in BOOLEAN /\ changer[c].bad \in BOOLEAN
    BY DEF Changer
  <1>7. CASE GetSettings(c)
    <2>1. changer[c].pc = "get" /\ changer[c].kind = "processing" /\ UNCHANGED cached
      BY <1>1, <1>7 DEF GetSettings
    <2>2. CASE changer' = [changer EXCEPT ![c].pc = "edit", ![c].holds = TRUE]
      <3>1. Goes(c, "edit", "processing", changer[c].value)
        BY <2>1, <2>2 DEF Goes, Changer, ChangerPc
      <3> QED BY <1>4, <2>1, <3>1
    <2>3. CASE changer' = [changer EXCEPT ![c].pc = "keep", ![c].value = row["processing"]]
      <3>1. Goes(c, "keep", "processing", row["processing"])
        BY <2>1, <2>3 DEF Goes, Changer, ChangerPc
      <3> QED BY <1>4, <2>1, <3>1
    <2> QED BY <1>7, <2>2, <2>3 DEF GetSettings
  <1>8. CASE KeepSettings(c)
    <2>1. /\ changer[c].pc = "keep" /\ changer[c].kind = "processing"
          /\ changer[c].value <= row["processing"]
      BY <1>1, <1>8 DEF KeepSettings
    <2>2. /\ AsCached("processing", changer[c].value) \in Cached
          /\ \/ AsCached("processing", changer[c].value).late
             \/ AsCached("processing", changer[c].value).value = row["processing"]
      BY <1>6, <2>1, AsCachedIs
    <2>3. /\ cached' \in [Kinds -> Cached]
          /\ cached'["processing"] = AsCached("processing", changer[c].value)
          /\ \A j \in Kinds \ {"processing"} : cached'[j] = cached[j]
      BY <1>8, <2>2 DEF KeepSettings
    <2> DEFINE f == LetGo({"processing"}, changer)
               r == [f[c] EXCEPT !.pc = "edit", !.holds = TRUE]
    <2>4. f \in [Changers -> Changer]
          /\ \A d \in Changers : /\ f[d].pc = changer[d].pc /\ f[d].kind = changer[d].kind
                                 /\ f[d].value = changer[d].value
      BY LetGoKeeps
    <2>5. changer' = [f EXCEPT ![c].pc = "edit", ![c].holds = TRUE]
      BY <1>8 DEF KeepSettings
    <2> HIDE DEF f
    <2>7. r \in Changer /\ r.pc = "edit" /\ r.kind = "processing" /\ r.value = changer[c].value
      BY <2>1, <2>4 DEF Changer, ChangerPc
    <2>8. changer' = [f EXCEPT ![c] = r]
      BY <2>4, <2>5
    <2> HIDE DEF r
    <2>6. Goes(c, "edit", "processing", changer[c].value)
      BY <2>4, <2>7, <2>8, GoesAs
    <2> QED BY <1>4, <2>1, <2>2, <2>3, <2>6
  <1>9. CASE EditSettings(c)
    <2>1. changer[c].pc = "edit" /\ changer[c].kind = "processing"
      BY <1>1, <1>9 DEF EditSettings
    <2>2. PICK bad \in BOOLEAN :
             IF changer[c].holds
            THEN /\ cached' = [cached EXCEPT !["processing"].edited = TRUE,
                                             !["processing"].bad = @ \/ bad]
                 /\ ChangerGo(c, "save")
            ELSE /\ changer' = [changer EXCEPT ![c].pc = "save", ![c].bad = @ \/ bad]
                 /\ UNCHANGED cached
      BY <1>9 DEF EditSettings
    <2>3. CASE changer[c].holds
      <3>1. Goes(c, "save", "processing", changer[c].value)
        BY <2>1, <2>2, <2>3, GoesOn DEF ChangerPc
      <3>2. (cached["processing"].bad \/ bad) \in BOOLEAN
        BY DEF Cached
      <3>3. \A b \in BOOLEAN : [cached["processing"] EXCEPT !.edited = TRUE, !.bad = b] \in Cached
                /\ [cached["processing"] EXCEPT !.edited = TRUE, !.bad = b].edited
        BY DEF Cached
      <3>4. cached' \in [Kinds -> Cached] /\ cached'["processing"].edited
            /\ \A j \in Kinds \ {"processing"} : cached'[j] = cached[j]
        BY <2>2, <2>3, <3>2, <3>3
      <3> QED BY <1>4, <2>1, <3>1, <3>4
    <2>4. CASE ~changer[c].holds
      <3>1. (changer[c].bad \/ bad) \in BOOLEAN
        BY <1>6
      <3>2. \A b \in BOOLEAN : changer' = [changer EXCEPT ![c].pc = "save", ![c].bad = b] =>
               Goes(c, "save", "processing", changer[c].value)
        BY <2>1 DEF Goes, Changer, ChangerPc
      <3>3. Goes(c, "save", "processing", changer[c].value) /\ UNCHANGED cached
        BY <2>2, <2>4, <3>1, <3>2
      <3> QED BY <1>4, <2>1, <3>3
    <2> QED BY <2>3, <2>4
  <1> QED BY <1>2, <1>3, <1>7, <1>8, <1>9, <1>14

---------------------------------------------------------------------------
\* Loads

LEMMA LoadSteps ==
    ASSUME SettingsInv, NEW l \in Loaders, Load(l) \/ Store(l)
    PROVE  SettingsInv'
  <1>1. /\ loader \in [Loaders -> [pc : {"idle", "store"}, kind : Kinds, value : Changes]]
        /\ changer \in [Changers -> Changer] /\ cached \in [Kinds -> Cached]
        /\ row \in [Kinds -> Nat]
    BY DEF SettingsInv, LoadsAreReal, StaleIsAboutToGo, Changer, ChangesAreCounted
  <1>2. \A k \in Kinds : row[k] \in Changes
    <2>1. Cardinality(Pending) \in Nat
      BY FS_CardinalityType DEF SettingsInv, ChangesAreCounted
    <2> QED BY <1>1, <2>1, SettingsAssumption DEF SettingsInv, ChangesAreCounted, Changes
  <1>3. UNCHANGED <<row, changes>>
    BY DEF Load, Store
  <1>4. CASE Load(l)
    <2>1. PICK k \in Kinds : 
             loader' = [loader EXCEPT ![l] = [pc |-> "store", kind |-> k, value |-> row[k]]]
      BY <1>4 DEF Load
    <2>2. UNCHANGED <<cached, changer>> /\ Pending' = Pending
      BY <1>4 DEF Load, Pending
    <2>3. LoadsAreReal'
      BY <1>1, <1>2, <1>3, <2>1, <2>2 DEF SettingsInv, LoadsAreReal
    <2> QED BY <1>3, <2>2, <2>3 DEF SettingsInv, ChangesAreCounted, StaleIsAboutToGo
  <1>5. CASE Store(l)
    <2> DEFINE k == loader[l].kind
               v == loader[l].value
    <2>1. /\ k \in Kinds /\ v \in Changes /\ v <= row[k] /\ row[k] \in Nat
          /\ cached' = [cached EXCEPT ![k] = AsCached(k, v)]
          /\ changer' = LetGo({k}, changer)
          /\ loader' = [loader EXCEPT ![l] = IdleLoader]
      BY <1>1, <1>5 DEF Store, SettingsInv, LoadsAreReal
    <2>2. AsCached(k, v) \in Cached /\ (AsCached(k, v).late \/ AsCached(k, v).value = row[k])
      BY <2>1, AsCachedIs
    <2>3. changer' \in [Changers -> Changer] /\ \A d \in Changers :
                 /\ changer'[d].pc = changer[d].pc /\ changer'[d].kind = changer[d].kind
                 /\ changer'[d].value = changer[d].value
      BY <1>1, <2>1, LetGoKeeps
    <2>4. IdleLoader \in [pc : {"idle", "store"}, kind : Kinds, value : Changes]
          /\ IdleLoader.pc = "idle"
      BY IdleSettings DEF IdleLoader, Kinds
    <2> HIDE DEF k, v
    <2>5. LoadsAreReal'
      <3>1. loader' \in [Loaders -> [pc : {"idle", "store"}, kind : Kinds, value : Changes]]
        BY <1>1, <2>1, <2>4
      <3>2. \A m \in Loaders : loader'[m].pc = "store" => loader'[m] = loader[m]
        BY <1>1, <2>1, <2>4
      <3> QED BY <1>3, <2>3, <3>1, <3>2 DEF SettingsInv, LoadsAreReal, Changer
    <2>6. Pending' = Pending
      BY <2>3 DEF Pending
    <2>7. StaleIsAboutToGo'
      <3>1. /\ cached' \in [Kinds -> Cached]
            /\ cached'[k].late \/ cached'[k].value = row'[k]
            /\ \A j \in Kinds \ {k} : cached'[j] = cached[j] /\ row'[j] = row[j]
        BY <1>1, <1>3, <2>1, <2>2
      <3>2. \A j \in Kinds \ {k} :
              cached[j].value # 0 /\ ~ cached[j].late /\ ~ cached[j].edited
                => \/ cached[j].value = row[j]
                   \/ \E d \in Changers :
                         changer'[d].kind = j /\ changer'[d].pc \in {"set", "invalidate"}
        BY <2>3 DEF SettingsInv, StaleIsAboutToGo
      <3> QED BY <3>1, <3>2 DEF StaleIsAboutToGo
    <2> QED BY <1>3, <2>5, <2>6, <2>7 DEF SettingsInv, ChangesAreCounted
  <1> QED BY <1>4, <1>5

---------------------------------------------------------------------------
\* Theorems

LEMMA SettingsStart == SettingsInit => SettingsInv
  <1> SUFFICES ASSUME SettingsInit PROVE SettingsInv
    OBVIOUS
  <1>1. Pending = {}
    BY DEF SettingsInit, Pending, IdleChanger
  <1>2. IsFiniteSet(Pending) /\ Cardinality(Pending) = 0
    BY <1>1, FS_EmptySet
  <1>3. ChangesAreCounted
    BY <1>2, SettingsAssumption DEF SettingsInit, ChangesAreCounted, Changes, Kinds
  <1>4. LoadsAreReal
    BY IdleSettings DEF SettingsInit, LoadsAreReal, IdleLoader, IdleChanger, Changer, Kinds
  <1>5. StaleIsAboutToGo
    BY IdleSettings DEF SettingsInit, StaleIsAboutToGo, Nothing, Cached
  <1> QED BY <1>3, <1>4, <1>5 DEF SettingsInv

LEMMA SettingsInvariant == SettingsSpec => []SettingsInv
  <1>1. SettingsInv /\ UNCHANGED settingsVars => SettingsInv'
    BY DEF SettingsInv, ChangesAreCounted, LoadsAreReal, StaleIsAboutToGo, settingsVars, Pending
  <1>2. SettingsInv /\ SettingsNext => SettingsInv'
    BY BeginSteps, WriteSteps, CacheSteps, LoadSteps DEF SettingsNext, ChangerStep
  <1> QED BY <1>1, <1>2, SettingsStart, PTL DEF SettingsSpec

\* Every variable keeps its type: no more versions are written than changes begun.
THEOREM SettingsTypes == SettingsSpec => []SettingsTypeOK
  <1>1. SettingsInv => SettingsTypeOK
    <2> SUFFICES ASSUME SettingsInv PROVE SettingsTypeOK
      OBVIOUS
    <2>1. Cardinality(Pending) \in Nat
      BY FS_CardinalityType DEF SettingsInv, ChangesAreCounted
    <2>2. \A k \in Kinds : row[k] \in Changes
      BY <2>1, SettingsAssumption DEF SettingsInv, ChangesAreCounted, Changes
    <2> QED BY <2>2 DEF SettingsInv, ChangesAreCounted, LoadsAreReal, StaleIsAboutToGo, SettingsTypeOK
  <1> QED BY <1>1, SettingsInvariant, PTL

\* Once every change has returned the cache holds what the table holds, for any
\* number of requests that load and change settings at once: a value that is not
\* the table's is late, edited, or about to be cleared by the change that made it so.
THEOREM SettingsStayCurrent == SettingsSpec => []CachedSettingsAreCurrent
  <1>1. SettingsInv => CachedSettingsAreCurrent
    BY DEF SettingsInv, StaleIsAboutToGo, CachedSettingsAreCurrent, Settled
  <1> QED BY <1>1, SettingsInvariant, PTL

=============================================================================
