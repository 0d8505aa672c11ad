---------------------------- MODULE MCWeb_proofs ----------------------------
(***************************************************************************)
(* Proofs about the pages together.  A step of the whole is, of each page, *)
(* a step or none: so the whole runs each page, and what is proved of a    *)
(* page by itself holds of it here, mounted or not.                        *)
(***************************************************************************)
EXTENDS MCWeb, Editing_proofs, Lists_proofs

LEMMA StepsOfThePages ==
    ASSUME [WebNext]_webVars
    PROVE  /\ [EditorNext]_editorVars /\ [ProfilesNext]_profileVars /\ [SettingsNext]_settingsVars
           /\ [ProvidersNext]_providerVars /\ [BackupNext]_backupVars
           /\ [ConnectionsNext]_connVars /\ [UnlockTestNext]_testVars
BY DEF WebNext, webVars

(***************************************************************************)
(* The router of App.tsx mounts one page and leaves the others as they     *)
(* are: what the whole does is, for the pages that have their list from    *)
(* the beginning, a run of each of them.                                   *)
(***************************************************************************)
THEOREM WebRunsThePages ==
    WebSpec => EditorSpec /\ ProfilesSpec /\ SettingsSpec /\ ProvidersSpec /\ BackupSpec
<1>1. WebInit => EditorInit /\ ProfilesInit /\ SettingsInit /\ ProvidersInit /\ BackupInit
  BY DEF WebInit
<1> QED
  BY <1>1, StepsOfThePages, PTL
      DEF WebSpec, EditorSpec, ProfilesSpec, SettingsSpec, ProvidersSpec, BackupSpec

LEMMA ListsInvariant == WebSpec => [](ConnsInv /\ TestsInv)
<1>1. WebInit => ConnsInv /\ TestsInv
  BY ConnectionsBegin, TestsStart DEF WebInit
<1>2. ConnsInv /\ TestsInv /\ [WebNext]_webVars => (ConnsInv /\ TestsInv)'
  BY StepsOfThePages, ConnectionsStep, TestsStep
<1> QED
  BY <1>1, <1>2, PTL DEF WebSpec

\* Every variable of the pages has its type, of those that are not mounted too.
THEOREM WebTypes == WebSpec => []WebTypeOK
<1>1. WebSpec => /\ []EditorTypeOK /\ []ProfilesTypeOK /\ []SettingsTypeOK
                 /\ []ProvidersTypeOK /\ []BackupTypeOK
  BY WebRunsThePages, EditorTypes, ProfilesTypes, SettingsTypes, ProvidersTypes, BackupTypes, PTL
<1>2. ConnsInv /\ TestsInv => ConnectionsTypeOK /\ UnlockTestTypeOK
  BY DEF ConnsInv, TestsInv
<1>3. /\ EditorTypeOK /\ ProfilesTypeOK /\ SettingsTypeOK /\ ProvidersTypeOK /\ BackupTypeOK
      /\ ConnectionsTypeOK /\ UnlockTestTypeOK
      => WebTypeOK
  BY DEF WebTypeOK
<1> QED
  BY <1>1, <1>2, <1>3, ListsInvariant, PTL

(***************************************************************************)
(* What a page shows without the mark of unsaved changes, a tab of the     *)
(* editor or the settings, is what the server has or once had, or what was *)
(* typed while a save was under way (config/page.tsx:425-432).             *)
(***************************************************************************)
THEOREM WebCleanIsStored == WebSpec => []CleanIsStored
<1>1. WebSpec => []CleanMeansStored /\ []CleanSettingsStored
  BY WebRunsThePages, CleanTabsAreStored, CleanSettingsAreStored, PTL
<1>2. CleanMeansStored /\ CleanSettingsStored => CleanIsStored
  BY DEF CleanIsStored
<1> QED
  BY <1>1, <1>2, PTL

\* Whatever fails and in whatever order it is answered, a page whose calls are
\* over holds no button and is loading nothing.
THEOREM PagesAreReleased == WebSpec => []PagesComeToRest
<1>1. WebSpec => []ProfilesComeToRest /\ []ProvidersComeToRest /\ []BackupsComeToRest
  BY WebRunsThePages, ProfilesAreReleased, ProvidersAreReleased, BackupsAreReleased, PTL
<1>2. ConnsInv /\ TestsInv => ConnectionsComeToRest /\ TestsComeToRest
  BY ConnectionsRest, TestsRest
<1>3. /\ ProfilesComeToRest /\ ProvidersComeToRest /\ BackupsComeToRest
      /\ ConnectionsComeToRest /\ TestsComeToRest
      => PagesComeToRest
  BY DEF PagesComeToRest
<1> QED
  BY <1>1, <1>2, <1>3, ListsInvariant, PTL

\* What a restore has packed before it writes stays among the backups, whatever
\* page is mounted.
THEOREM WebRestoresCanBeUndone == WebSpec => []RestoreCanBeUndone
BY WebRunsThePages, RestoresCanBeUndone, PTL

\* A save of the Config page reaches the core that runs the config.
THEOREM WebSavesReachTheCore == WebSpec => []SavesAreApplied
BY WebRunsThePages, SavesReachTheCore, PTL

\* What the Config page stores in a config has been found valid, or was there
\* before, or was typed while a save of it was under way.
THEOREM WebSavesAreChecked == WebSpec => NoNewInvalidConfig
BY WebRunsThePages, SavesAreChecked, PTL

\* No answer takes a draft of the Config page from the user.
THEOREM WebDraftsAreKept == WebSpec => AnswersKeepDrafts
BY WebRunsThePages, DraftsAreKept, PTL

=============================================================================
