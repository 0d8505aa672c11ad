------------------------------ MODULE Providers ------------------------------
(***************************************************************************)
(* The Providers page (src/web/src/app/providers/page.tsx) over the files  *)
(* of proxy_providers and rule_providers (handler/mihomo/files.go).        *)
(*                                                                         *)
(* A handler awaits up to three calls: the change, the lists and a         *)
(* preview; it is one call here that goes on from one to the next.  Of a   *)
(* file its existence is kept: the preview is named after the file that    *)
(* the same answer brings.  The search and the list of what went wrong in  *)
(* a sync show and change nothing else.                                    *)
(***************************************************************************)
EXTENDS Naturals

CONSTANTS
    ProxyFiles, RuleFiles,
    NoProvider,
    ProviderSlots,       \* calls under way at once
    MaxProviderInputs,   \* bound on inputs
    MaxProviderMishaps   \* bound on failed calls and on what other windows do

ASSUME ProvidersAssumption ==
    /\ ProxyFiles \cap RuleFiles = {} /\ NoProvider \notin ProxyFiles \cup RuleFiles
    /\ MaxProviderInputs \in Nat /\ MaxProviderMishaps \in Nat

VARIABLES
    providerFiles,    \* the files there are
    providerRows,     \* proxyProviders and ruleProviders
    previewed,        \* selected
    providerDialog,   \* createKind, uploadKind, renameTarget or deleteTarget
    busyAction,       \* one for all actions: the last to start sets it, the
                      \* first to end clears it
    loadingRows,      \* refreshing
    previewLoading,
    providerCalls,
    providerInputs,
    providerMishaps

providerView == <<providerRows, previewed, providerDialog, busyAction, loadingRows, previewLoading>>
providerVars == <<providerFiles, providerView, providerCalls, providerInputs, providerMishaps>>

ProviderFiles == ProxyFiles \cup RuleFiles

OptionalFile == ProviderFiles \cup {NoProvider}

Kind(f) == IF f \in ProxyFiles THEN ProxyFiles ELSE RuleFiles

Closing == [op |-> "none", file |-> NoProvider]

Actions == {"none", "create", "upload", "rename", "delete", "sync", "download"}

ProviderCalls ==
    [op : Actions \cup {"list", "content"},
     served : BOOLEAN,
     file : OptionalFile,
     to : OptionalFile,                \* the new name
     next : OptionalFile,              \* the file to preview in the end; for a
                                       \* deletion, that it was previewed
     ends : BOOLEAN,                   \* the handler clears busyAction in the end
     rows : SUBSET ProviderFiles]      \* the answer of the lists

NoProviderCall == [op |-> "none", served |-> FALSE, file |-> NoProvider, to |-> NoProvider,
                   next |-> NoProvider, ends |-> FALSE, rows |-> {}]

ProvidersTypeOK ==
    /\ providerFiles \subseteq ProviderFiles /\ providerRows \subseteq ProviderFiles
    /\ previewed \in OptionalFile
    /\ providerDialog \in [op : {"none", "create", "upload", "rename", "delete"}, file : OptionalFile]
    /\ busyAction \in [op : Actions, file : OptionalFile \cup {ProxyFiles, RuleFiles}]
    /\ loadingRows \in BOOLEAN /\ previewLoading \in BOOLEAN
    /\ providerCalls \in [ProviderSlots -> ProviderCalls]

-----------------------------------------------------------------------------
ProviderInput == providerInputs < MaxProviderInputs /\ providerInputs' = providerInputs + 1
                                                    /\ UNCHANGED providerMishaps

ProviderMishap == providerMishaps < MaxProviderMishaps /\ providerMishaps' = providerMishaps + 1
                                                       /\ UNCHANGED providerInputs

NoProviderInput == UNCHANGED <<providerInputs, providerMishaps>>

Goes(s, call) == providerCalls' = [providerCalls EXCEPT ![s] = call]

Idle(s) == providerCalls[s].op = "none"

ProvidersQuiet == \A s \in ProviderSlots : Idle(s)

Awaited(s, op) == NoProviderInput /\ providerCalls[s].op = op /\ providerCalls[s].served

NoDialog == providerDialog = Closing

Busy(op, f) == [op |-> op, file |-> f]

\* A button whose action is the busy one is disabled.
Pressable(op, f) == busyAction # Busy(op, f)

-----------------------------------------------------------------------------
(***************************************************************************)
(* Inputs                                                                  *)
(***************************************************************************)
RefreshIndex(s) ==
    /\ ProviderInput /\ NoDialog /\ ~loadingRows /\ Idle(s)
    /\ Goes(s, [NoProviderCall EXCEPT !.op = "list"])
    /\ loadingRows' = TRUE
    /\ UNCHANGED <<providerFiles, providerRows, previewed, providerDialog, busyAction, previewLoading>>

\* A click on a row is not held up by a preview under way.
Preview(s, f) ==
    /\ ProviderInput /\ NoDialog /\ f \in providerRows /\ Idle(s)
    /\ Goes(s, [NoProviderCall EXCEPT !.op = "content", !.file = f])
    /\ previewLoading' = TRUE
    /\ UNCHANGED <<providerFiles, providerRows, previewed, providerDialog, busyAction, loadingRows>>

OpenDialog(op, f) ==
    /\ ProviderInput /\ NoDialog
    /\ IF op \in {"create", "upload"} THEN f = NoProvider ELSE f \in providerRows
    /\ providerDialog' = Busy(op, f)
    /\ UNCHANGED <<providerFiles, providerRows, previewed, busyAction, loadingRows, previewLoading,
                   providerCalls>>

CancelDialog ==
    /\ ProviderInput /\ ~NoDialog
    /\ providerDialog' = Closing
    /\ UNCHANGED <<providerFiles, providerRows, previewed, busyAction, loadingRows, previewLoading,
                   providerCalls>>

\* handleCreate and handleUploadFile, the Enter key included: f is the name that is typed or chosen.
HandleCreate(s, f) ==
    LET op == providerDialog.op
    IN  /\ ProviderInput /\ op \in {"create", "upload"} /\ Idle(s)
        /\ Goes(s, [NoProviderCall EXCEPT !.op = op, !.file = f, !.next = f, !.ends = TRUE])
        /\ busyAction' = Busy(op, Kind(f))
        /\ UNCHANGED <<providerFiles, providerRows, previewed, providerDialog, loadingRows, previewLoading>>

\* The Enter key submits whatever is busy.
HandleRename(s, new) ==
    LET f == providerDialog.file
    IN  /\ ProviderInput /\ providerDialog.op = "rename" /\ Idle(s)
        /\ new \in Kind(f)
        /\ Goes(s, [NoProviderCall EXCEPT !.op = "rename", !.file = f, !.to = new, !.ends = TRUE,
                                          !.next = IF previewed = f THEN new ELSE NoProvider])
        /\ busyAction' = Busy("rename", Kind(f))
        /\ UNCHANGED <<providerFiles, providerRows, previewed, providerDialog, loadingRows, previewLoading>>

HandleDelete(s) ==
    LET f == providerDialog.file
    IN  /\ ProviderInput /\ providerDialog.op = "delete" /\ Pressable("delete", Kind(f)) /\ Idle(s)
        /\ Goes(s, [NoProviderCall EXCEPT !.op = "delete", !.file = f, !.ends = TRUE,
                                          !.next = IF previewed = f THEN f ELSE NoProvider])
        /\ busyAction' = Busy("delete", Kind(f))
        /\ UNCHANGED <<providerFiles, providerRows, previewed, providerDialog, loadingRows, previewLoading>>

\* Of a row; the dialog of a deletion offers a download too.
HandleFetch(s, op, f) ==
    /\ ProviderInput /\ op \in {"sync", "download"} /\ Idle(s)
    /\ \/ NoDialog /\ f \in providerRows /\ Pressable(op, f)
       \/ op = "download" /\ providerDialog = Busy("delete", f)
    /\ Goes(s, [NoProviderCall EXCEPT !.op = op, !.file = f, !.ends = TRUE])
    /\ busyAction' = Busy(op, f)
    /\ UNCHANGED <<providerFiles, providerRows, previewed, providerDialog, loadingRows, previewLoading>>

-----------------------------------------------------------------------------
(***************************************************************************)
(* The server                                                              *)
(***************************************************************************)
\* What is created is not there yet, what is changed or read is.
Granted(call) ==
    CASE call.op \in {"create", "upload"} -> call.file \notin providerFiles
      [] call.op = "rename" -> call.file \in providerFiles /\ call.to \notin providerFiles
      [] call.op = "list" -> TRUE
      [] OTHER -> call.file \in providerFiles

ServeProviders(s) ==
    LET call == providerCalls[s]
    IN  /\ NoProviderInput /\ ~Idle(s) /\ ~call.served /\ Granted(call)
        /\ providerFiles' = CASE call.op \in {"create", "upload"} -> providerFiles \cup {call.file}
                              [] call.op = "rename" -> (providerFiles \ {call.file}) \cup {call.to}
                              [] call.op = "delete" -> providerFiles \ {call.file}
                              [] OTHER -> providerFiles
        /\ Goes(s, [call EXCEPT !.served = TRUE,
                                !.rows = IF call.op = "list" THEN providerFiles ELSE {}])
        /\ UNCHANGED providerView

ElsewhereProviders ==
    /\ ProviderMishap
    /\ \E f \in ProviderFiles : providerFiles' = IF f \in providerFiles THEN providerFiles \ {f}
                                                 ELSE providerFiles \cup {f}
    /\ UNCHANGED <<providerView, providerCalls>>

-----------------------------------------------------------------------------
(***************************************************************************)
(* Answers                                                                 *)
(***************************************************************************)
\* The handler is over.
Ends(call) == busyAction' = IF call.ends THEN Closing ELSE busyAction

\* The lists are loaded next.
Relists(s, call) ==
    /\ Goes(s, [NoProviderCall EXCEPT !.op = "list", !.next = call.next, !.ends = call.ends])
    /\ loadingRows' = TRUE

\* setCreateKind(null) and the like: the dialog of the kind, opened since or not.
Dismiss(op) == providerDialog' = IF providerDialog.op = op THEN Closing ELSE providerDialog

FileCreated(s) ==
    LET call == providerCalls[s]
    IN  /\ Awaited(s, "create") \/ Awaited(s, "upload")
        /\ Dismiss(call.op) /\ Relists(s, call)
        /\ UNCHANGED <<providerFiles, providerRows, previewed, busyAction, previewLoading>>

FileRenamed(s) ==
    LET call == providerCalls[s]
    IN  /\ Awaited(s, "rename")
        /\ Dismiss("rename") /\ Relists(s, call)
        /\ UNCHANGED <<providerFiles, providerRows, previewed, busyAction, previewLoading>>

FileDeleted(s) ==
    LET call == providerCalls[s]
    IN  /\ Awaited(s, "delete")
        /\ previewed' = IF call.next # NoProvider THEN NoProvider ELSE previewed
        /\ Dismiss("delete") /\ Relists(s, [call EXCEPT !.next = NoProvider])
        /\ UNCHANGED <<providerFiles, providerRows, busyAction, previewLoading>>

\* After a sync the lists are loaded by nobody's leave.
Fetched(s) ==
    LET call == providerCalls[s]
    IN  /\ Awaited(s, "sync") \/ Awaited(s, "download")
        /\ Ends(call)
        /\ IF call.op = "sync" THEN Relists(s, NoProviderCall)
           ELSE Goes(s, NoProviderCall) /\ UNCHANGED loadingRows
        /\ UNCHANGED <<providerFiles, providerRows, previewed, providerDialog, previewLoading>>

\* A list that fails is an empty list; the preview of a file that is not listed
\* goes, and the handler goes on.
RowsLoaded(s, rows) ==
    LET call == providerCalls[s]
    IN  /\ providerRows' = rows
        /\ previewed' = IF previewed \in rows THEN previewed ELSE NoProvider
        /\ loadingRows' = FALSE
        /\ IF call.next # NoProvider
           THEN /\ Goes(s, [NoProviderCall EXCEPT !.op = "content", !.file = call.next,
                                                  !.ends = call.ends])
                /\ previewLoading' = TRUE /\ UNCHANGED busyAction
           ELSE Goes(s, NoProviderCall) /\ Ends(call) /\ UNCHANGED previewLoading
        /\ UNCHANGED <<providerFiles, providerDialog>>

RowsAnswered(s) == Awaited(s, "list") /\ RowsLoaded(s, providerCalls[s].rows)

RowsFail(s) ==
    /\ ProviderMishap /\ providerCalls[s].op = "list"
    /\ \E lost \in {ProxyFiles, RuleFiles} : RowsLoaded(s, providerFiles \ lost)

ContentAnswered(s) ==
    LET call == providerCalls[s]
    IN  /\ Awaited(s, "content")
        /\ previewed' = call.file
        /\ previewLoading' = FALSE
        /\ Goes(s, NoProviderCall) /\ Ends(call)
        /\ UNCHANGED <<providerFiles, providerRows, providerDialog, loadingRows>>

\* Refused, or lost before or after the server acted.  A dialog stays open.
ProviderCallFails(s) ==
    LET call == providerCalls[s]
    IN  /\ ~Idle(s) /\ call.op # "list"
        /\ \/ NoProviderInput /\ ~call.served /\ ~Granted(call)
           \/ ProviderMishap
        /\ previewLoading' = (previewLoading /\ call.op # "content")
        /\ Goes(s, NoProviderCall) /\ Ends(call)
        /\ UNCHANGED <<providerFiles, providerRows, previewed, providerDialog, loadingRows>>

\* The page has been opened and has its lists.
ProvidersInit ==
    /\ providerFiles \in SUBSET ProviderFiles /\ providerRows = providerFiles
    /\ previewed = NoProvider /\ providerDialog = Closing /\ busyAction = Closing
    /\ loadingRows = FALSE /\ previewLoading = FALSE
    /\ providerCalls = [s \in ProviderSlots |-> NoProviderCall]
    /\ providerInputs = 0 /\ providerMishaps = 0

ProvidersNext ==
    \/ CancelDialog \/ ElsewhereProviders
    \/ \E f \in OptionalFile, op \in {"create", "upload", "rename", "delete"} : OpenDialog(op, f)
    \/ \E s \in ProviderSlots :
          \/ RefreshIndex(s) \/ HandleDelete(s)
          \/ \E f \in ProviderFiles :
                \/ Preview(s, f) \/ HandleCreate(s, f) \/ HandleRename(s, f)
                \/ \E op \in {"sync", "download"} : HandleFetch(s, op, f)
          \/ ServeProviders(s)
          \/ FileCreated(s) \/ FileRenamed(s) \/ FileDeleted(s) \/ Fetched(s)
          \/ RowsAnswered(s) \/ RowsFail(s) \/ ContentAnswered(s) \/ ProviderCallFails(s)

ProvidersSpec == ProvidersInit /\ [][ProvidersNext]_providerVars

-----------------------------------------------------------------------------
(***************************************************************************)
(* Properties                                                              *)
(***************************************************************************)
\* Whatever fails, no button stays disabled and no skeleton stays up once the
\* calls are over, though one busyAction is shared by all handlers.
ProvidersComeToRest ==
    ProvidersQuiet => busyAction = Closing /\ ~loadingRows /\ ~previewLoading

=============================================================================
