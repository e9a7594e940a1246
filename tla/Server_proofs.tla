---------------------------- MODULE Server_proofs ----------------------------
(***************************************************************************)
(* The parts of the server together.  MCServer lets one part play at a     *)
(* time, with fewer goroutines than its constants name, and begins parts   *)
(* that do not play in one state: whatever it does is what each of the     *)
(* nine specifications allows, so that what is proved of a part holds of   *)
(* the server.                                                             *)
(***************************************************************************)
EXTENDS MCServer, Requests_proofs, Configuration_proofs, ImageStore_proofs, Commands_proofs

\* All parts, each by its own specification.
ServerParts ==
    /\ StoreSpec /\ AlbumSpec /\ ConfigSpec /\ SettingsSpec /\ SessionSpec
    /\ MigrationSpec /\ BackupSpec /\ ServingSpec /\ LimitSpec

LEMMA PartsBegin ==
    Init => /\ StoreInit /\ AlbumInit /\ ConfigInit /\ SettingsInit /\ SessionInit
            /\ MigrationInit /\ BackupInit /\ ServingInit /\ LimitInit
  BY DEF Init

\* One step for each part: it makes a step of its own or none.
ServerStep ==
    /\ [StoreNext]_storeVars
    /\ [AlbumNext]_albumVars
    /\ [ConfigNext]_configVars
    /\ [SettingsNext]_settingsVars
    /\ [SessionNext]_sessionVars
    /\ [MigrationNext]_migrationVars
    /\ [BackupNext]_backupVars
    /\ [ServingNext]_servingVars
    /\ [LimitNext]_limitVars

LEMMA PartsStep == [Next]_vars => ServerStep
  <1> SUFFICES ASSUME [Next]_vars PROVE ServerStep
    OBVIOUS
  <1>1. CASE StorePart
    <2>1. StoreNext
      BY <1>1 DEF StorePart, StoreNext, Plays
    <2> QED BY <1>1, <2>1 DEF StorePart, ServerStep
  <1>2. CASE AlbumPart
    <2>1. AlbumNext
      BY <1>2 DEF AlbumPart, AlbumNext, Plays
    <2> QED BY <1>2, <2>1 DEF AlbumPart, ServerStep
  <1>3. CASE ConfigPart
    <2>1. ConfigNext
      BY <1>3 DEF ConfigPart, ConfigNext, Plays
    <2> QED BY <1>3, <2>1 DEF ConfigPart, ServerStep
  <1>4. CASE SettingsPart
    BY <1>4 DEF SettingsPart, ServerStep
  <1>5. CASE SessionPart
    BY <1>5 DEF SessionPart, ServerStep
  <1>6. CASE MigrationPart
    BY <1>6 DEF MigrationPart, ServerStep
  <1>7. CASE BackupPart
    BY <1>7 DEF BackupPart, ServerStep
  <1>8. CASE ServingPart
    BY <1>8 DEF ServingPart, ServerStep
  <1>9. CASE LimitPart
    BY <1>9 DEF LimitPart, ServerStep
  <1>10. CASE UNCHANGED vars
    BY <1>10 DEF vars, ServerStep
  <1> QED BY <1>1, <1>2, <1>3, <1>4, <1>5, <1>6, <1>7, <1>8, <1>9, <1>10 DEF Next

\* The server implements each of its parts: it is the parts side by side, and
\* what holds of a part for every value of its constants holds of the server.
THEOREM ServerIsItsParts == Spec => ServerParts
  BY PartsBegin, PartsStep, PTL DEF Spec, ServerStep, ServerParts, StoreSpec, AlbumSpec, ConfigSpec,
     SettingsSpec, SessionSpec, MigrationSpec, BackupSpec, ServingSpec, LimitSpec

\* Every table, cache, file and record in memory of the nine parts has its type.
THEOREM ServerTypes == Spec => []TypeOK
  <1>1. AlbumInv => AlbumTypeOK
    BY DEF AlbumInv
  <1>2. ConfigInv => ConfigTypeOK
    BY DEF ConfigInv
  <1>3. SafeInv => SessionTypeOK
    BY DEF SafeInv
  <1>4. ServingInv => ServingTypeOK
    BY DEF ServingInv
  <1>5. LimitInv => LimitTypeOK
    BY DEF LimitInv
  <1>6. /\ StoreTypeOK /\ AlbumTypeOK /\ ConfigTypeOK /\ SettingsTypeOK /\ SessionTypeOK
        /\ MigrationTypeOK /\ BackupTypeOK /\ ServingTypeOK /\ LimitTypeOK
        => TypeOK
    BY DEF TypeOK
  <1> QED BY <1>1, <1>2, <1>3, <1>4, <1>5, <1>6, ServerIsItsParts, StoreTypes, AlbumInvariance,
          ConfigInvariance, SettingsTypes, SessionInvariance, MigrationTypes, BackupTypes,
          ServingInvariance, LimitInvariance, PTL DEF ServerParts

=============================================================================
