------------------------------- MODULE MCWeb -------------------------------
(***************************************************************************)
(* The pages that act on what the server and the core keep.  The router    *)
(* mounts one at a time (src/web/src/App.tsx): which one is chosen in the  *)
(* beginning, and the others, whose state a page that is not mounted does  *)
(* not have, stay as they are.                                             *)
(***************************************************************************)
EXTENDS ConfigEditor, Profiles, Settings, Providers, Backup, Connections, UnlockTest, TLC

CONSTANTS i1, i2, n1, n2, f1, f2, u1, v1, v2

VARIABLE route

webVars == <<route, editorVars, profileVars, settingsVars, providerVars, backupVars, connVars, testVars>>

Profile(n, f) == [set |-> [name |-> n, url |-> u1, file |-> f, enabled |-> TRUE], status |-> "healthy"]

TwoProfiles == [i \in {i1, i2} |-> IF i = i1 THEN Profile(n1, f1) ELSE Profile(n2, f2)]

OneUpload == {[x \in {f1} |-> v1]}

WebSymmetry == Permutations(Slots) \cup Permutations(Configs)

-----------------------------------------------------------------------------
\* One state of the server is enough for the other pages, and of those that are
\* not mounted; another window makes the rest of them.
WebInit ==
    /\ route \in {"config", "profiles", "settings", "providers", "backup", "connections", "unlock-test"}
    /\ active = CHOOSE n \in Configs : TRUE
    /\ disk \in [Files -> Contents \ Accepted]
    /\ stored = [f \in Fields |-> Blank]
    /\ workFiles = [f \in BackupFiles |-> v1] /\ archives = [n \in {1} |-> [f \in BackupFiles |-> v2]]
    /\ route = "profiles" \/ selectedId = i1
    /\ route = "providers" \/ providerFiles = {}
    /\ EditorInit /\ ProfilesInit /\ SettingsInit /\ ProvidersInit /\ BackupInit
    /\ IF route = "connections" THEN ConnectionsInit ELSE ConnectionsAbsent
    /\ IF route = "unlock-test" THEN UnlockTestInit ELSE UnlockTestAbsent

WebNext ==
    /\ UNCHANGED route
    /\ \/ /\ route = "config" /\ EditorNext
          /\ UNCHANGED <<profileVars, settingsVars, providerVars, backupVars, connVars, testVars>>
       \/ /\ route = "profiles" /\ ProfilesNext
          /\ UNCHANGED <<editorVars, settingsVars, providerVars, backupVars, connVars, testVars>>
       \/ /\ route = "settings" /\ SettingsNext
          /\ UNCHANGED <<editorVars, profileVars, providerVars, backupVars, connVars, testVars>>
       \/ /\ route = "providers" /\ ProvidersNext
          /\ UNCHANGED <<editorVars, profileVars, settingsVars, backupVars, connVars, testVars>>
       \/ /\ route = "backup" /\ BackupNext
          /\ UNCHANGED <<editorVars, profileVars, settingsVars, providerVars, connVars, testVars>>
       \/ /\ route = "connections" /\ ConnectionsNext
          /\ UNCHANGED <<editorVars, profileVars, settingsVars, providerVars, backupVars, testVars>>
       \/ /\ route = "unlock-test" /\ UnlockTestNext
          /\ UNCHANGED <<editorVars, profileVars, settingsVars, providerVars, backupVars, connVars>>

WebSpec == WebInit /\ [][WebNext]_webVars

-----------------------------------------------------------------------------
\* Every variable of the page that is mounted has its type.
WebTypeOK ==
    /\ route = "config" => EditorTypeOK
    /\ route = "profiles" => ProfilesTypeOK
    /\ route = "settings" => SettingsTypeOK
    /\ route = "providers" => ProvidersTypeOK
    /\ route = "backup" => BackupTypeOK
    /\ route = "connections" => ConnectionsTypeOK
    /\ route = "unlock-test" => UnlockTestTypeOK

\* What a page shows as saved, in a tab of the editor or in the settings, is what
\* the server has, or what an answer marked as saved without it being sent.
CleanIsStored == CleanMeansStored /\ CleanSettingsStored

\* When the calls of a page are over, whatever failed, none of its buttons is
\* held and nothing is still loading.
PagesComeToRest ==
    /\ ProfilesComeToRest /\ ProvidersComeToRest /\ BackupsComeToRest
    /\ ConnectionsComeToRest /\ TestsComeToRest

=============================================================================
