------------------------------- MODULE Backup -------------------------------
(***************************************************************************)
(* Local backups: the service (internal/service/backup/service.go), its    *)
(* handlers (handler/backup/backup.go) and the Backup page                 *)
(* (src/web/src/app/backup/page.tsx).  The remote targets are in           *)
(* RemoteSync.                                                             *)
(*                                                                         *)
(* What the service does under its mutex is one step, but for the making   *)
(* of a backup, which packs the files one by one while others change them. *)
(* A restore makes a backup first and then writes the files one by one     *)
(* without the mutex.  Backups are numbered in the order they are made,    *)
(* which stands for their names and their times.  The status is only       *)
(* shown: its call is one with the list before it.                         *)
(***************************************************************************)
EXTENDS Naturals, FiniteSets, Functions

CONSTANTS
    BackupFiles,        \* the files of the working directory
    Versions,           \* what a file may hold
    Uploads,            \* archives a user has: files and what they hold
    MaxBackups,         \* config.Backup.MaxBackups
    BackupSlots,        \* calls under way at once
    MaxMade,            \* bound on backups
    MaxBackupInputs,    \* bound on inputs
    MaxBackupMishaps    \* bound on failures and on what other windows do

Archive == [BackupFiles -> Versions]

\* What a backup has packed so far, and a restore has still to write.
PartialArchive == UNION {[F -> Versions] : F \in SUBSET BackupFiles}

ASSUME BackupAssumption ==
    /\ Uploads \subseteq PartialArchive
    /\ MaxBackups \in Nat \ {0} /\ MaxMade \in Nat \ {0}
    /\ MaxBackupInputs \in Nat /\ MaxBackupMishaps \in Nat

VARIABLES
    workFiles,        \* the working directory
    archives,         \* the backups there are, by number
    made,             \* the last number
    aged,             \* up to which number backups are older than MaxAgeDays
    discarded,        \* (history) the backups that the user deleted
    history,          \* the page's list of backups
    confirmMode,      \* the dialog that is open and its backup
    historyLoading, createLoading, restoreLoading, retentionLoading,
    backupCalls,
    backupInputs, backupMishaps

backupStore == <<workFiles, archives, made, aged, discarded>>
backupView == <<history, confirmMode, historyLoading, createLoading, restoreLoading, retentionLoading>>
backupVars == <<backupStore, backupView, backupCalls, backupInputs, backupMishaps>>

BackupNames == 1..MaxMade

NoFiles == <<>>

NoConfirm == [mode |-> "none", name |-> 0]

Handlers == {"none", "create", "upload", "history", "delete", "retention", "refresh"}

BackupCalls ==
    [op : {"none", "create", "download", "list", "upload", "history", "delete", "retention"},
     by : Handlers,                          \* the handler that awaits it
     stage : {"sent", "packing", "writing", "served"},
     name : {0} \cup BackupNames,
     contents : PartialArchive,
     packed : PartialArchive,                \* what its own backup holds
     undo : {0} \cup BackupNames,            \* the backup it made first
     rows : SUBSET BackupNames]

NoBackupCall == [op |-> "none", by |-> "none", stage |-> "sent", name |-> 0, contents |-> NoFiles,
                 packed |-> NoFiles, undo |-> 0, rows |-> {}]

BackupTypeOK ==
    /\ workFiles \in Archive
    /\ made \in {0} \cup BackupNames /\ aged \in 0..made
    /\ DOMAIN archives \subseteq 1..made /\ \A n \in DOMAIN archives : archives[n] \in PartialArchive
    /\ discarded \subseteq BackupNames
    /\ history \subseteq BackupNames
    /\ confirmMode \in [mode : {"none", "upload", "history", "delete"}, name : {0} \cup BackupNames]
    /\ {historyLoading, createLoading, restoreLoading, retentionLoading} \subseteq BOOLEAN
    /\ backupCalls \in [BackupSlots -> BackupCalls]

-----------------------------------------------------------------------------
BackupInput == /\ backupInputs < MaxBackupInputs /\ backupInputs' = backupInputs + 1
               /\ UNCHANGED backupMishaps

BackupMishap == /\ backupMishaps < MaxBackupMishaps /\ backupMishaps' = backupMishaps + 1
                /\ UNCHANGED backupInputs

NoBackupInput == UNCHANGED <<backupInputs, backupMishaps>>

Vacant(s) == backupCalls[s].op = "none"

BackupsQuiet == \A s \in BackupSlots : Vacant(s)

Proceeds(s, call) == backupCalls' = [backupCalls EXCEPT ![s] = call]

\* The handler goes on with another call.
Continues(s, op, name) ==
    Proceeds(s, [NoBackupCall EXCEPT !.op = op, !.by = backupCalls[s].by, !.name = name])

-----------------------------------------------------------------------------
(***************************************************************************)
(* Inputs.  An open dialog covers the page.                                *)
(***************************************************************************)
Starts(s, op, by, name) ==
    Vacant(s) /\ Proceeds(s, [NoBackupCall EXCEPT !.op = op, !.by = by, !.name = name])

RefreshHistory(s) ==
    /\ BackupInput /\ confirmMode = NoConfirm /\ ~historyLoading
    /\ Starts(s, "list", "refresh", 0)
    /\ historyLoading' = TRUE
    /\ UNCHANGED <<backupStore, history, confirmMode, createLoading, restoreLoading, retentionLoading>>

HandleCreateBackup(s) ==
    /\ BackupInput /\ confirmMode = NoConfirm /\ ~createLoading
    /\ Starts(s, "create", "create", 0)
    /\ createLoading' = TRUE
    /\ UNCHANGED <<backupStore, history, confirmMode, historyLoading, restoreLoading, retentionLoading>>

HandleApplyRetention(s) ==
    /\ BackupInput /\ confirmMode = NoConfirm /\ ~retentionLoading
    /\ Starts(s, "retention", "retention", 0)
    /\ retentionLoading' = TRUE
    /\ UNCHANGED <<backupStore, history, confirmMode, historyLoading, createLoading, restoreLoading>>

\* The rows are hidden while they load.
AskToConfirm(mode, name) ==
    /\ BackupInput /\ confirmMode = NoConfirm
    /\ IF mode = "upload" THEN ~restoreLoading /\ name = 0 ELSE ~historyLoading /\ name \in history
    /\ confirmMode' = [mode |-> mode, name |-> name]
    /\ UNCHANGED <<backupStore, history, historyLoading, createLoading, restoreLoading, retentionLoading,
                   backupCalls>>

CancelConfirm ==
    /\ BackupInput /\ confirmMode # NoConfirm
    /\ confirmMode' = NoConfirm
    /\ UNCHANGED <<backupStore, history, historyLoading, createLoading, restoreLoading, retentionLoading,
                   backupCalls>>

\* confirmUploadRestore and confirmHistoryRestore
ConfirmRestore(s, upload) ==
    LET mode == confirmMode.mode
    IN  /\ BackupInput /\ mode \in {"upload", "history"} /\ ~restoreLoading /\ Vacant(s)
        /\ upload \in IF mode = "upload" THEN Uploads ELSE {NoFiles}
        /\ Proceeds(s, [NoBackupCall EXCEPT !.op = mode, !.by = mode, !.name = confirmMode.name,
                                            !.contents = upload])
        /\ restoreLoading' = TRUE
        /\ UNCHANGED <<backupStore, history, confirmMode, historyLoading, createLoading, retentionLoading>>

\* Nothing holds the button up, neither a deletion nor a restore under way.
ConfirmDeleteBackup(s) ==
    /\ BackupInput /\ confirmMode.mode = "delete"
    /\ Starts(s, "delete", "delete", confirmMode.name)
    /\ UNCHANGED <<backupStore, backupView>>

-----------------------------------------------------------------------------
(***************************************************************************)
(* The service                                                             *)
(***************************************************************************)
\* Mutant: sorted the wrong way round, the oldest are kept.
RetainedOldest(all) ==
    {n \in DOMAIN all : n > aged /\ Cardinality({m \in DOMAIN all : m < n /\ m > aged}) < MaxBackups}

\* applyRetentionLocked: the newest MaxBackups of those not too old.
Retained(all) ==
    {n \in DOMAIN all : n > aged /\ Cardinality({m \in DOMAIN all : m > n}) < MaxBackups}

Asked(s, op) == backupCalls[s].op = op /\ backupCalls[s].stage = "sent"

Serves(s, name, rows) ==
    Proceeds(s, [backupCalls[s] EXCEPT !.stage = "served", !.name = name, !.rows = rows])

\* The service's mutex: held while a backup is made.
MutexFree == \A s \in BackupSlots : backupCalls[s].stage # "packing"

\* CreateBackup, asked for or before a restore.
BeginPacking(s) ==
    /\ NoBackupInput /\ MutexFree /\ made < MaxMade
    /\ \E op \in {"create", "upload", "history"} : Asked(s, op)
    /\ Proceeds(s, [backupCalls[s] EXCEPT !.stage = "packing"])
    /\ UNCHANGED <<backupStore, backupView>>

\* addBackupItem: the files are packed in the order of their names.
PackFile(s) ==
    LET call == backupCalls[s]
        f == CHOOSE g \in BackupFiles \ DOMAIN call.packed : TRUE
    IN  /\ NoBackupInput /\ call.stage = "packing" /\ DOMAIN call.packed # BackupFiles
        /\ Proceeds(s, [call EXCEPT !.packed =
                          [g \in DOMAIN call.packed \cup {f} |->
                              IF g = f THEN workFiles[f] ELSE call.packed[g]]])
        /\ UNCHANGED <<backupStore, backupView>>

\* The archive is closed, whose errors are ignored: it may lack what was still
\* buffered.  The retention follows; a restore goes on to write.
EndPacking(s) ==
    LET call == backupCalls[s]
        n == made + 1
    IN  /\ call.stage = "packing" /\ DOMAIN call.packed = BackupFiles
        /\ \E F \in SUBSET BackupFiles :
              LET kept == Restrict(call.packed, F)
                  all == [m \in DOMAIN archives \cup {n} |-> IF m = n THEN kept ELSE archives[m]]
              IN  /\ IF F = BackupFiles THEN NoBackupInput ELSE BackupMishap
                  /\ archives' = Restrict(all, Retained(all))
                  /\ Proceeds(s, IF call.op = "create"
                                 THEN [call EXCEPT !.stage = "served", !.name = n]
                                 ELSE [call EXCEPT !.stage = "writing", !.packed = kept, !.undo = n])
        /\ made' = n
        /\ UNCHANGED <<workFiles, aged, discarded, backupView>>

\* Whether the backup before a restore was made is not asked.
RestoreUnpacked(s) ==
    /\ BackupMishap /\ backupCalls[s].op \in {"upload", "history"}
    /\ backupCalls[s].stage = "packing" \/ (backupCalls[s].stage = "sent" /\ MutexFree)
    /\ Proceeds(s, [backupCalls[s] EXCEPT !.stage = "writing", !.packed = NoFiles])
    /\ UNCHANGED <<backupStore, backupView>>

ServeHistory(s) ==
    /\ NoBackupInput /\ MutexFree /\ Asked(s, "list")
    /\ Serves(s, 0, DOMAIN archives)
    /\ UNCHANGED <<backupStore, backupView>>

ServeDownload(s) ==
    /\ NoBackupInput /\ Asked(s, "download") /\ backupCalls[s].name \in DOMAIN archives
    /\ Serves(s, backupCalls[s].name, {})
    /\ UNCHANGED <<backupStore, backupView>>

ServeDeleteBackup(s) ==
    /\ NoBackupInput /\ MutexFree /\ Asked(s, "delete") /\ backupCalls[s].name \in DOMAIN archives
    /\ archives' = Restrict(archives, DOMAIN archives \ {backupCalls[s].name})
    /\ discarded' = discarded \cup {backupCalls[s].name}
    /\ Serves(s, backupCalls[s].name, {})
    /\ UNCHANGED <<workFiles, made, aged, backupView>>

ServeRetention(s) ==
    /\ NoBackupInput /\ MutexFree /\ Asked(s, "retention")
    /\ archives' = Restrict(archives, Retained(archives))
    /\ Serves(s, 0, {})
    /\ UNCHANGED <<workFiles, made, aged, discarded, backupView>>

\* restoreFromPath opens the archive, and has what it holds from then on: of a
\* history restore only if the retention has left it there.
OpenArchive(s) ==
    LET call == backupCalls[s]
    IN  /\ NoBackupInput /\ call.op = "history" /\ call.stage = "writing" /\ call.name \in DOMAIN archives
        /\ Proceeds(s, [call EXCEPT !.op = "upload", !.name = 0, !.contents = archives[call.name]])
        /\ UNCHANGED <<backupStore, backupView>>

WriteFile(s) ==
    LET call == backupCalls[s]
    IN  /\ NoBackupInput /\ call.op = "upload" /\ call.stage = "writing"
        /\ \E f \in DOMAIN call.contents :
              /\ workFiles' = [workFiles EXCEPT ![f] = call.contents[f]]
              /\ Proceeds(s, [call EXCEPT !.contents = Restrict(@, DOMAIN @ \ {f})])
        /\ UNCHANGED <<archives, made, aged, discarded, backupView>>

EndWriting(s) ==
    LET call == backupCalls[s]
    IN  /\ NoBackupInput /\ call.op = "upload" /\ call.stage = "writing" /\ call.contents = NoFiles
        /\ Serves(s, 0, {})
        /\ UNCHANGED <<backupStore, backupView>>

\* Days pass; another window or the core changes a file.
DaysPass == BackupMishap /\ aged < made /\ aged' = made
                         /\ UNCHANGED <<workFiles, archives, made, discarded, backupView, backupCalls>>

ElsewhereFiles ==
    /\ BackupMishap
    /\ \E f \in BackupFiles, v \in Versions : workFiles' = [workFiles EXCEPT ![f] = v]
    /\ UNCHANGED <<archives, made, aged, discarded, backupView, backupCalls>>

-----------------------------------------------------------------------------
(***************************************************************************)
(* Answers                                                                 *)
(***************************************************************************)
\* The handler's finally: resetDialogs closes whichever dialog is open.
Finally(by) ==
    /\ createLoading' = (createLoading /\ by # "create")
    /\ retentionLoading' = (retentionLoading /\ by # "retention")
    /\ restoreLoading' = (restoreLoading /\ by \notin {"upload", "history"})
    /\ confirmMode' = IF by \in {"upload", "history", "delete"} THEN NoConfirm ELSE confirmMode

Received(s, op) == backupCalls[s].op = op /\ backupCalls[s].stage = "served"

BackupCreated(s) ==
    /\ NoBackupInput /\ Received(s, "create")
    /\ Continues(s, "download", backupCalls[s].name)
    /\ UNCHANGED <<backupStore, backupView>>

\* What is done is listed anew, but not a restore from the history.
BackupDone(s) ==
    LET call == backupCalls[s]
    IN  /\ NoBackupInput /\ \E op \in {"download", "upload", "delete", "retention"} : Received(s, op)
        /\ IF call.by = "history"
           THEN Proceeds(s, NoBackupCall) /\ Finally("history") /\ UNCHANGED historyLoading
           ELSE /\ Continues(s, "list", 0) /\ historyLoading' = TRUE
                /\ UNCHANGED <<confirmMode, createLoading, restoreLoading, retentionLoading>>
        /\ UNCHANGED <<backupStore, history>>

\* list() answers an error with an empty list: the history that was shown goes.
HistoryAnswered(s) ==
    /\ backupCalls[s].op = "list"
    /\ \/ NoBackupInput /\ Received(s, "list") /\ history' = backupCalls[s].rows
       \/ BackupMishap /\ history' = {}
    /\ historyLoading' = FALSE
    /\ Proceeds(s, NoBackupCall) /\ Finally(backupCalls[s].by)
    /\ UNCHANGED backupStore

\* The backup is not there; or the call fails before, in the middle of or
\* after what it does.
BackupCallFails(s) ==
    LET call == backupCalls[s]
    IN  /\ ~Vacant(s) /\ call.op # "list"
        /\ \/ BackupMishap
           \/ /\ NoBackupInput /\ call.name \notin DOMAIN archives
              /\ Asked(s, "download") \/ (Asked(s, "delete") /\ MutexFree) \/ (call.op = "history" /\ call.stage = "writing")
        /\ Proceeds(s, NoBackupCall) /\ Finally(call.by)
        /\ UNCHANGED <<backupStore, history, historyLoading>>

-----------------------------------------------------------------------------
\* The page has been opened and has its list: one backup, of other contents.
BackupInit ==
    /\ workFiles \in Archive /\ made = 1 /\ aged = 0 /\ discarded = {}
    /\ archives \in [{1} -> Archive]
    /\ history = {1} /\ confirmMode = NoConfirm
    /\ historyLoading = FALSE /\ createLoading = FALSE
    /\ restoreLoading = FALSE /\ retentionLoading = FALSE
    /\ backupCalls = [s \in BackupSlots |-> NoBackupCall]
    /\ backupInputs = 0 /\ backupMishaps = 0

BackupNext ==
    \/ CancelConfirm \/ DaysPass \/ ElsewhereFiles
    \/ \E mode \in {"upload", "history", "delete"}, n \in {0} \cup BackupNames : AskToConfirm(mode, n)
    \/ \E s \in BackupSlots :
          \/ RefreshHistory(s) \/ HandleCreateBackup(s) \/ HandleApplyRetention(s)
          \/ \E upload \in Uploads \cup {NoFiles} : ConfirmRestore(s, upload)
          \/ ConfirmDeleteBackup(s)
          \/ BeginPacking(s) \/ PackFile(s) \/ EndPacking(s) \/ RestoreUnpacked(s)
          \/ ServeHistory(s) \/ ServeDownload(s) \/ ServeDeleteBackup(s) \/ ServeRetention(s)
          \/ OpenArchive(s) \/ WriteFile(s) \/ EndWriting(s)
          \/ BackupCreated(s) \/ BackupDone(s) \/ HistoryAnswered(s) \/ BackupCallFails(s)

BackupSpec == BackupInit /\ [][BackupNext]_backupVars

-----------------------------------------------------------------------------
(***************************************************************************)
(* Properties                                                              *)
(***************************************************************************)
\* While a restore overwrites the files, what its own backup has packed before
\* is among the backups: neither the retention that this backup ends with, nor a
\* restore or backup that runs beside it, takes it away or changes it. Only the
\* user, its age or MaxBackups later backups do.
RestoreCanBeUndone ==
    \A s \in BackupSlots :
        LET undo == backupCalls[s].undo
        IN  (undo > aged /\ undo \notin discarded /\ Cardinality((undo + 1)..made) < MaxBackups) =>
                undo \in DOMAIN archives /\ archives[undo] = backupCalls[s].packed

\* Whatever fails, nothing stays disabled and no dialog of a call that is over
\* stays busy.
BackupsComeToRest ==
    BackupsQuiet => ~historyLoading /\ ~createLoading /\ ~restoreLoading /\ ~retentionLoading

=============================================================================
