---------------------------- MODULE Lists_proofs ----------------------------
(***************************************************************************)
(* Proofs about the pages that list what there is: Providers, the unlock   *)
(* test, Backup and Connections, for any number of files, targets,         *)
(* backups, connections, calls and failures.                               *)
(*                                                                         *)
(* What each page shows as busy has a call under way whose handler ends    *)
(* it; so at rest nothing is held.  Of the backups also: what a restore    *)
(* has packed before it writes stays among them.                           *)
(***************************************************************************)
EXTENDS Providers, UnlockTest, Backup, Connections, FiniteSetTheorems, TLAPS
-----------------------------------------------------------------------------
(***************************************************************************)
(* Providers                                                               *)
(***************************************************************************)
Changes == {"create", "upload", "rename", "delete"}

\* A handler that sets busyAction clears it when it ends.
ProviderCallSound(call) ==
    /\ call.op \in Changes \cup {"sync", "download"} => call.ends
    /\ call.op = "none" => ~call.ends
    /\ call.op \in {"create", "upload"} => call.file # NoProvider
    /\ call.op = "rename" => call.to # NoProvider

ProviderCallsSound == \A s \in ProviderSlots : ProviderCallSound(providerCalls[s])

\* What is shown as busy or loading has a call under way that ends it.
ProviderFlagsHeld ==
    /\ busyAction # Closing => \E s \in ProviderSlots : providerCalls[s].ends
    /\ loadingRows => \E s \in ProviderSlots : providerCalls[s].op = "list"
    /\ previewLoading => \E s \in ProviderSlots : providerCalls[s].op = "content"

ProvidersInv == ProvidersTypeOK /\ ProviderCallsSound /\ ProviderFlagsHeld

-----------------------------------------------------------------------------
\* A call of the types there are, and what is told of it below.
Made(call, op, ends) ==
    call \in ProviderCalls /\ ProviderCallSound(call) /\ call.op = op /\ call.ends = ends

LEMMA NoProviderMade == Made(NoProviderCall, "none", FALSE)
BY DEF Made, NoProviderCall, ProviderCalls, ProviderCallSound, OptionalFile, Actions, Changes

LEMMA ListMade ==
    ASSUME NEW next \in OptionalFile, NEW ends \in BOOLEAN
    PROVE  /\ Made([NoProviderCall EXCEPT !.op = "list", !.next = next, !.ends = ends], "list", ends)
           /\ Made([NoProviderCall EXCEPT !.op = "list"], "list", FALSE)
BY DEF Made, NoProviderCall, ProviderCalls, ProviderCallSound, OptionalFile, Actions, Changes

LEMMA ContentMade ==
    ASSUME NEW f \in OptionalFile, NEW ends \in BOOLEAN
    PROVE  /\ Made([NoProviderCall EXCEPT !.op = "content", !.file = f, !.ends = ends], "content", ends)
           /\ Made([NoProviderCall EXCEPT !.op = "content", !.file = f], "content", FALSE)
BY DEF Made, NoProviderCall, ProviderCalls, ProviderCallSound, OptionalFile, Actions, Changes

LEMMA FetchMade ==
    ASSUME NEW f \in OptionalFile, NEW op \in {"sync", "download"}
    PROVE  Made([NoProviderCall EXCEPT !.op = op, !.file = f, !.ends = TRUE], op, TRUE)
BY DEF Made, NoProviderCall, ProviderCalls, ProviderCallSound, OptionalFile, Actions, Changes

LEMMA ChangeMade ==
    ASSUME NEW f \in OptionalFile, NEW new \in OptionalFile, NEW next \in OptionalFile
    PROVE  /\ \A op \in {"create", "upload"} : f # NoProvider =>
                 Made([NoProviderCall EXCEPT !.op = op, !.file = f, !.next = f, !.ends = TRUE], op, TRUE)
           /\ new # NoProvider =>
                 Made([NoProviderCall EXCEPT !.op = "rename", !.file = f, !.to = new, !.ends = TRUE,
                                             !.next = next], "rename", TRUE)
           /\ Made([NoProviderCall EXCEPT !.op = "delete", !.file = f, !.ends = TRUE, !.next = next],
                   "delete", TRUE)
BY DEF Made, NoProviderCall, ProviderCalls, ProviderCallSound, OptionalFile, Actions, Changes

LEMMA BusyTyped ==
    ASSUME NEW op \in Actions, NEW f \in OptionalFile
    PROVE  LET busy == [op : Actions, file : OptionalFile \cup {ProxyFiles, RuleFiles}]
           IN  Busy(op, f) \in busy /\ Busy(op, Kind(f)) \in busy /\ Closing \in busy
BY DEF Busy, Kind, Closing, OptionalFile, Actions

(***************************************************************************)
(* A step puts one call into a slot.  A flag that stays or goes up has a   *)
(* call that will take it down: the new one, or another than the one that  *)
(* left.                                                                   *)
(***************************************************************************)
LEMMA ProviderSlot ==
    ASSUME ProvidersInv, NEW s \in ProviderSlots, NEW call \in ProviderCalls,
           ProviderCallSound(call), Goes(s, call),
           busyAction' # Closing => call.ends \/ (busyAction # Closing /\ ~providerCalls[s].ends),
           loadingRows' => call.op = "list" \/ (loadingRows /\ providerCalls[s].op # "list"),
           previewLoading' => call.op = "content" \/ (previewLoading /\ providerCalls[s].op # "content")
    PROVE  providerCalls' \in [ProviderSlots -> ProviderCalls] /\ ProviderCallsSound' /\ ProviderFlagsHeld'
<1>1. providerCalls \in [ProviderSlots -> ProviderCalls]
      /\ providerCalls' = [providerCalls EXCEPT ![s] = call]
  BY DEF ProvidersInv, ProvidersTypeOK, Goes
<1>2. /\ providerCalls' \in [ProviderSlots -> ProviderCalls] /\ providerCalls'[s] = call
      /\ \A r \in ProviderSlots : r # s => providerCalls'[r] = providerCalls[r]
  BY <1>1
<1>3. ProviderCallsSound'
  BY <1>2 DEF ProvidersInv, ProviderCallsSound
<1>4. ProviderFlagsHeld'
  BY <1>2 DEF ProvidersInv, ProviderFlagsHeld
<1> QED
  BY <1>2, <1>3, <1>4

-----------------------------------------------------------------------------
(***************************************************************************)
(* Inputs.  A call begins in a slot that is idle, and raises its flag.     *)
(***************************************************************************)
Asks(s, call) ==
    /\ Idle(s) /\ Goes(s, call)
    /\ \/ /\ Made(call, "list", FALSE)
          /\ loadingRows' = TRUE /\ UNCHANGED <<busyAction, previewLoading>>
       \/ /\ Made(call, "content", FALSE)
          /\ previewLoading' = TRUE /\ UNCHANGED <<busyAction, loadingRows>>
       \/ /\ \E op \in Changes \cup {"sync", "download"} : Made(call, op, TRUE)
          /\ \E op \in Actions, f \in OptionalFile : busyAction' \in {Busy(op, f), Busy(op, Kind(f))}
          /\ UNCHANGED <<loadingRows, previewLoading>>
    /\ UNCHANGED <<providerFiles, providerRows, previewed, providerDialog>>

LEMMA Asking ==
    ASSUME ProvidersInv, NEW s \in ProviderSlots,
           \/ RefreshIndex(s) \/ HandleDelete(s)
           \/ \E f \in ProviderFiles :
                 \/ Preview(s, f) \/ HandleCreate(s, f) \/ HandleRename(s, f)
                 \/ \E op \in {"sync", "download"} : HandleFetch(s, op, f)
    PROVE  \E call : Asks(s, call)
<1>0. /\ \A f \in ProviderFiles : f \in OptionalFile /\ f # NoProvider
      /\ NoProvider \in OptionalFile /\ providerDialog.file \in OptionalFile
      /\ previewed \in OptionalFile /\ Changes \cup {"sync", "download"} \subseteq Actions
  BY ProvidersAssumption DEF ProvidersInv, ProvidersTypeOK, OptionalFile, ProviderFiles, Changes, Actions
<1>1. CASE RefreshIndex(s)
  BY <1>0, <1>1, ListMade DEF RefreshIndex, Asks
<1>2. ASSUME NEW f \in ProviderFiles, Preview(s, f) PROVE \E call : Asks(s, call)
  <2>1. Made([NoProviderCall EXCEPT !.op = "content", !.file = f], "content", FALSE)
    BY <1>0, ContentMade
  <2> QED
    BY <1>2, <2>1 DEF Preview, Asks
<1>3. ASSUME NEW f \in ProviderFiles, NEW op \in {"sync", "download"}, HandleFetch(s, op, f)
      PROVE  \E call : Asks(s, call)
  BY <1>0, <1>3, FetchMade DEF HandleFetch, Asks
<1>4. ASSUME NEW f \in ProviderFiles, HandleCreate(s, f) PROVE \E call : Asks(s, call)
  <2> DEFINE op == providerDialog.op
             call == [NoProviderCall EXCEPT !.op = op, !.file = f, !.next = f, !.ends = TRUE]
  <2>1. op \in Changes /\ Made(call, op, TRUE)
    BY <1>0, <1>4, ChangeMade DEF HandleCreate, Changes
  <2>2. Goes(s, call)
    BY <1>4 DEF HandleCreate
  <2> HIDE DEF call
  <2> QED
    BY <1>0, <1>4, <2>1, <2>2 DEF HandleCreate, Asks
<1>5. CASE HandleDelete(s)
  <2> DEFINE of == providerDialog.file
             next == IF previewed = of THEN of ELSE NoProvider
             call == [NoProviderCall EXCEPT !.op = "delete", !.file = of, !.ends = TRUE, !.next = next]
  <2>1. Made(call, "delete", TRUE) /\ "delete" \in Changes
    BY <1>0, ChangeMade DEF Changes
  <2>2. Goes(s, call)
    BY <1>5 DEF HandleDelete
  <2> HIDE DEF call, next
  <2> QED
    BY <1>0, <1>5, <2>1, <2>2 DEF HandleDelete, Asks
<1>6. ASSUME NEW f \in ProviderFiles, HandleRename(s, f) PROVE \E call : Asks(s, call)
  <2> DEFINE of == providerDialog.file
             next == IF previewed = of THEN f ELSE NoProvider
             call == [NoProviderCall EXCEPT !.op = "rename", !.file = of, !.to = f, !.ends = TRUE,
                                            !.next = next]
  <2>1. Made(call, "rename", TRUE) /\ "rename" \in Changes
    BY <1>0, ChangeMade DEF Changes
  <2>2. Goes(s, call)
    BY <1>6 DEF HandleRename
  <2> HIDE DEF call, next
  <2> QED
    BY <1>0, <1>6, <2>1, <2>2 DEF HandleRename, Asks
<1> QED
  BY <1>1, <1>2, <1>3, <1>4, <1>5, <1>6

LEMMA AsksStep ==
    ASSUME ProvidersInv, NEW s \in ProviderSlots, NEW call, Asks(s, call)
    PROVE  ProvidersInv'
<1>1. /\ call \in ProviderCalls /\ ProviderCallSound(call) /\ Goes(s, call)
      /\ providerCalls[s].op = "none" /\ ~providerCalls[s].ends
      /\ UNCHANGED <<providerFiles, providerRows, previewed, providerDialog>>
  BY DEF Asks, Made, Idle, ProvidersInv, ProviderCallsSound, ProviderCallSound
<1>2. /\ busyAction' # Closing => call.ends \/ busyAction # Closing
      /\ loadingRows' => call.op = "list" \/ loadingRows
      /\ previewLoading' => call.op = "content" \/ previewLoading
  BY DEF Asks, Made
<1>3. /\ busyAction' \in [op : Actions, file : OptionalFile \cup {ProxyFiles, RuleFiles}]
      /\ loadingRows' \in BOOLEAN /\ previewLoading' \in BOOLEAN
  <2>1. /\ busyAction \in [op : Actions, file : OptionalFile \cup {ProxyFiles, RuleFiles}]
        /\ loadingRows \in BOOLEAN /\ previewLoading \in BOOLEAN
    BY DEF ProvidersInv, ProvidersTypeOK
  <2>2. \/ UNCHANGED busyAction
        \/ \E op \in Actions, f \in OptionalFile : busyAction' \in {Busy(op, f), Busy(op, Kind(f))}
    BY DEF Asks
  <2>3. loadingRows' \in BOOLEAN /\ previewLoading' \in BOOLEAN
    BY <2>1 DEF Asks
  <2> QED
    BY <2>1, <2>2, <2>3, BusyTyped
<1>4. providerCalls' \in [ProviderSlots -> ProviderCalls] /\ ProviderCallsSound' /\ ProviderFlagsHeld'
  BY <1>1, <1>2, ProviderSlot
<1> QED
  BY <1>1, <1>3, <1>4 DEF ProvidersInv, ProvidersTypeOK

\* The dialogs, and what another window does.
LEMMA DialogStep ==
    ASSUME ProvidersInv,
           \/ CancelDialog \/ ElsewhereProviders \/ UNCHANGED providerVars
           \/ \E f \in OptionalFile, op \in {"create", "upload", "rename", "delete"} : OpenDialog(op, f)
    PROVE  ProvidersInv'
<1>1. UNCHANGED <<providerRows, previewed, busyAction, loadingRows, previewLoading, providerCalls>>
  BY DEF CancelDialog, OpenDialog, ElsewhereProviders, providerVars, providerView
<1>2. providerDialog' \in [op : {"none", "create", "upload", "rename", "delete"}, file : OptionalFile]
  BY DEF CancelDialog, OpenDialog, ElsewhereProviders, ProvidersInv, ProvidersTypeOK, providerVars,
         providerView, Closing, Busy, OptionalFile
<1>3. providerFiles' \subseteq ProviderFiles
  BY DEF CancelDialog, OpenDialog, ElsewhereProviders, ProvidersInv, ProvidersTypeOK, providerVars
<1> QED
  BY <1>1, <1>2, <1>3 DEF ProvidersInv, ProvidersTypeOK, ProviderCallsSound, ProviderFlagsHeld

-----------------------------------------------------------------------------
\* The server.
LEMMA ServedStep ==
    ASSUME ProvidersInv, NEW s \in ProviderSlots, ServeProviders(s)
    PROVE  ProvidersInv'
<1> DEFINE old == providerCalls[s]
           rows == IF old.op = "list" THEN providerFiles ELSE {}
           call == [old EXCEPT !.served = TRUE, !.rows = rows]
<1>1. old \in ProviderCalls /\ ProviderCallSound(old) /\ providerFiles \subseteq ProviderFiles
  BY DEF ProvidersInv, ProvidersTypeOK, ProviderCallsSound
<1>2. rows \in SUBSET ProviderFiles
  BY <1>1
<1>3. Goes(s, call)
  BY DEF ServeProviders
<1> HIDE DEF rows
<1>4. /\ call \in ProviderCalls /\ ProviderCallSound(call)
      /\ call.op = old.op /\ call.ends = old.ends
  BY <1>1, <1>2 DEF ProviderCalls, ProviderCallSound
<1> HIDE DEF call
<1>5. /\ UNCHANGED <<providerRows, previewed, providerDialog, busyAction, loadingRows, previewLoading>>
      /\ providerFiles' = CASE old.op \in {"create", "upload"} -> providerFiles \cup {old.file}
                            [] old.op = "rename" -> (providerFiles \ {old.file}) \cup {old.to}
                            [] old.op = "delete" -> providerFiles \ {old.file}
                            [] OTHER -> providerFiles
  BY DEF ServeProviders, providerView
<1>6. providerCalls' \in [ProviderSlots -> ProviderCalls] /\ ProviderCallsSound' /\ ProviderFlagsHeld'
  BY <1>3, <1>4, <1>5, ProviderSlot
<1>7. providerFiles' \subseteq ProviderFiles
  BY <1>1, <1>5 DEF ProviderCalls, OptionalFile, ProviderCallSound
<1> QED
  BY <1>5, <1>6, <1>7 DEF ProvidersInv, ProvidersTypeOK

-----------------------------------------------------------------------------
(***************************************************************************)
(* Answers.                                                                *)
(***************************************************************************)
\* A handler lists the files when it has changed some, and after a sync.
LEMMA RelistStep ==
    ASSUME ProvidersInv, NEW s \in ProviderSlots,
           FileCreated(s) \/ FileRenamed(s) \/ FileDeleted(s) \/ (Fetched(s) /\ providerCalls[s].op = "sync")
    PROVE  ProvidersInv'
<1> DEFINE old == providerCalls[s]
           ends == old.op # "sync"
           next == IF old.op \in {"delete", "sync"} THEN NoProvider ELSE old.next
           call == [NoProviderCall EXCEPT !.op = "list", !.next = next, !.ends = ends]
<1>1. old \in ProviderCalls /\ old.ends /\ old.op \in Changes \cup {"sync"}
  BY DEF FileCreated, FileRenamed, FileDeleted, Fetched, Awaited, ProvidersInv, ProvidersTypeOK,
         ProviderCallsSound, ProviderCallSound, Changes
<1>2. Made(call, "list", ends)
  BY <1>1, ListMade DEF ProviderCalls, OptionalFile
<1>3. Goes(s, call) /\ loadingRows' = TRUE
  <2>1. NoProviderCall.next = NoProvider /\ NoProviderCall.ends = FALSE
    BY DEF NoProviderCall
  <2>2. [old EXCEPT !.next = NoProvider].next = NoProvider /\ [old EXCEPT !.next = NoProvider].ends = old.ends
    BY <1>1 DEF ProviderCalls
  <2>3. CASE FileCreated(s) \/ FileRenamed(s)
    BY <1>1, <2>3 DEF FileCreated, FileRenamed, Relists, Awaited
  <2>4. CASE FileDeleted(s)
    BY <1>1, <2>2, <2>4 DEF FileDeleted, Relists, Awaited
  <2>5. CASE Fetched(s) /\ old.op = "sync"
    BY <2>1, <2>5 DEF Fetched, Relists
  <2> QED
    BY <2>3, <2>4, <2>5
<1> HIDE DEF call, next
<1>4. /\ UNCHANGED <<providerFiles, providerRows, previewLoading>>
      /\ busyAction' = IF ends THEN busyAction ELSE Closing
      /\ providerDialog' \in {providerDialog, Closing}
      /\ previewed' \in {previewed, NoProvider}
  BY <1>1 DEF FileCreated, FileRenamed, FileDeleted, Fetched, Awaited, Ends, Dismiss
<1>5. providerCalls' \in [ProviderSlots -> ProviderCalls] /\ ProviderCallsSound' /\ ProviderFlagsHeld'
  <2>1. call \in ProviderCalls /\ ProviderCallSound(call) /\ call.op = "list" /\ call.ends = ends
    BY <1>2 DEF Made
  <2>2. busyAction' # Closing => call.ends
    BY <1>4, <2>1
  <2>3. previewLoading' => previewLoading /\ old.op # "content"
    BY <1>1, <1>4 DEF Changes
  <2> QED
    BY <1>3, <2>1, <2>2, <2>3, ProviderSlot
<1> QED
  BY <1>3, <1>4, <1>5 DEF ProvidersInv, ProvidersTypeOK, Closing, OptionalFile, Actions

\* A call that is the last of its handler.
LEMMA LastStep ==
    ASSUME ProvidersInv, NEW s \in ProviderSlots,
           \/ Fetched(s) /\ providerCalls[s].op # "sync"
           \/ ContentAnswered(s) \/ ProviderCallFails(s)
    PROVE  ProvidersInv'
<1> DEFINE old == providerCalls[s]
<1>1. old \in ProviderCalls /\ old.op # "list"
  BY DEF Fetched, ContentAnswered, ProviderCallFails, Awaited, ProvidersInv, ProvidersTypeOK
<1>2. /\ NoProviderCall \in ProviderCalls /\ ProviderCallSound(NoProviderCall)
      /\ NoProviderCall.op = "none" /\ ~NoProviderCall.ends
  BY NoProviderMade DEF Made
<1>3. /\ Goes(s, NoProviderCall) /\ busyAction' = IF old.ends THEN Closing ELSE busyAction
      /\ UNCHANGED <<providerFiles, providerRows, providerDialog, loadingRows>>
      /\ previewLoading' = (previewLoading /\ old.op # "content")
      /\ previewed' \in {previewed, old.file}
  BY DEF Fetched, ContentAnswered, ProviderCallFails, Ends, Awaited, ProvidersInv, ProvidersTypeOK
<1>4. providerCalls' \in [ProviderSlots -> ProviderCalls] /\ ProviderCallsSound' /\ ProviderFlagsHeld'
  BY <1>1, <1>2, <1>3, ProviderSlot
<1> QED
  BY <1>1, <1>3, <1>4 DEF ProvidersInv, ProvidersTypeOK, Closing, OptionalFile, Actions, ProviderCalls

\* The lists are there, and a preview follows or the handler is over.
LEMMA RowsStep ==
    ASSUME ProvidersInv, NEW s \in ProviderSlots, RowsAnswered(s) \/ RowsFail(s)
    PROVE  ProvidersInv'
<1> DEFINE old == providerCalls[s]
           more == old.next # NoProvider
           content == [NoProviderCall EXCEPT !.op = "content", !.file = old.next, !.ends = old.ends]
           call == IF more THEN content ELSE NoProviderCall
<1>1. PICK rows \in SUBSET ProviderFiles : RowsLoaded(s, rows)
  BY DEF RowsAnswered, RowsFail, Awaited, ProvidersInv, ProvidersTypeOK, ProviderCalls
<1>2. /\ old \in ProviderCalls /\ old.op = "list" /\ old.ends \in BOOLEAN /\ old.next \in OptionalFile
  BY DEF RowsAnswered, RowsFail, Awaited, ProvidersInv, ProvidersTypeOK, ProviderCalls
<1>3. /\ call \in ProviderCalls /\ ProviderCallSound(call)
      /\ call.op = IF more THEN "content" ELSE "none"
      /\ more => call.ends = old.ends
  <2>1. CASE more
    <3>1. Made(content, "content", old.ends)
      BY <1>2, ContentMade
    <3> HIDE DEF content
    <3> QED
      BY <2>1, <3>1 DEF Made
  <2>2. CASE ~more
    BY <2>2, NoProviderMade DEF Made
  <2> QED
    BY <2>1, <2>2
<1>4. /\ Goes(s, call) /\ UNCHANGED <<providerFiles, providerDialog>>
      /\ providerRows' = rows /\ previewed' \in {previewed, NoProvider} /\ loadingRows' = FALSE
      /\ previewLoading' = IF more THEN TRUE ELSE previewLoading
      /\ busyAction' = IF more \/ ~old.ends THEN busyAction ELSE Closing
  BY <1>1 DEF RowsLoaded, Ends
<1> HIDE DEF call
<1>5. providerCalls' \in [ProviderSlots -> ProviderCalls] /\ ProviderCallsSound' /\ ProviderFlagsHeld'
  <2>1. busyAction' # Closing => call.ends \/ (busyAction # Closing /\ ~old.ends)
    BY <1>2, <1>3, <1>4
  <2>2. previewLoading' => call.op = "content" \/ (previewLoading /\ old.op # "content")
    BY <1>2, <1>3, <1>4
  <2> QED
    BY <1>3, <1>4, <2>1, <2>2, ProviderSlot
<1> QED
  BY <1>4, <1>5 DEF ProvidersInv, ProvidersTypeOK, Closing, OptionalFile, Actions

-----------------------------------------------------------------------------
LEMMA ProvidersStart ==
    ASSUME ProvidersInit
    PROVE  ProvidersInv
<1>1. /\ NoProviderCall \in ProviderCalls /\ ProviderCallSound(NoProviderCall)
      /\ NoProviderCall.op = "none" /\ ~NoProviderCall.ends
  BY NoProviderMade DEF Made
<1>2. \A s \in ProviderSlots : providerCalls[s] = NoProviderCall
  BY DEF ProvidersInit
<1>3. ProvidersTypeOK
  BY <1>1 DEF ProvidersInit, ProvidersTypeOK, OptionalFile, Closing, Actions
<1> QED
  BY <1>1, <1>2, <1>3 DEF ProvidersInit, ProvidersInv, ProviderCallsSound, ProviderFlagsHeld

LEMMA ProvidersStep == ProvidersInv /\ [ProvidersNext]_providerVars => ProvidersInv'
<1> SUFFICES ASSUME ProvidersInv, [ProvidersNext]_providerVars PROVE ProvidersInv'
  OBVIOUS
<1>1. CASE \/ CancelDialog \/ ElsewhereProviders \/ UNCHANGED providerVars
           \/ \E f \in OptionalFile, op \in {"create", "upload", "rename", "delete"} : OpenDialog(op, f)
  BY <1>1, DialogStep
<1>2. ASSUME NEW s \in ProviderSlots,
             \/ RefreshIndex(s) \/ HandleDelete(s)
             \/ \E f \in ProviderFiles :
                   \/ Preview(s, f) \/ HandleCreate(s, f) \/ HandleRename(s, f)
                   \/ \E op \in {"sync", "download"} : HandleFetch(s, op, f)
      PROVE  ProvidersInv'
  <2>1. \E call : Asks(s, call)
    BY <1>2, Asking
  <2> QED
    BY <2>1, AsksStep
<1>3. ASSUME NEW s \in ProviderSlots,
             \/ ServeProviders(s)
             \/ FileCreated(s) \/ FileRenamed(s) \/ FileDeleted(s) \/ Fetched(s)
             \/ RowsAnswered(s) \/ RowsFail(s) \/ ContentAnswered(s) \/ ProviderCallFails(s)
      PROVE  ProvidersInv'
  BY <1>3, ServedStep, RelistStep, LastStep, RowsStep
<1> QED
  BY <1>1, <1>2, <1>3 DEF ProvidersNext

LEMMA ProvidersInvariant == ProvidersSpec => []ProvidersInv
BY ProvidersStart, ProvidersStep, PTL DEF ProvidersSpec

\* Once the calls are over, no button of the Providers page is held and nothing
\* is still loading, though all handlers share one busyAction.
LEMMA ProvidersRest == ProvidersInv => ProvidersComeToRest
BY DEF ProvidersInv, ProviderCallsSound, ProviderCallSound, ProviderFlagsHeld, ProvidersComeToRest,
       ProvidersQuiet, Idle

-----------------------------------------------------------------------------
(***************************************************************************)
(* Unlock test                                                             *)
(***************************************************************************)
TestCallSound(call) ==
    /\ call.op \in {"none", "list"} => call.asked = {}
    /\ call.op = "all" => call.asked = Targets

TestCallsSound == \A s \in TestSlots : TestCallSound(testCalls[s])

\* What is shown as loading or held has a call under way that ends it.
TestFlagsHeld ==
    /\ targetsLoading => \E s \in TestSlots : testCalls[s].op = "list"
    /\ isTestingAll => \E s \in TestSlots : testCalls[s].op = "all"
    /\ \A t \in Targets : results[t] =>
          t \in targets /\ \E s \in TestSlots : t \in testCalls[s].asked

TestsInv == UnlockTestTypeOK /\ TestCallsSound /\ TestFlagsHeld

-----------------------------------------------------------------------------
LEMMA TestCallsMade ==
    /\ NoTestCall \in TestCalls /\ NoTestCall.op = "none" /\ NoTestCall.asked = {}
    /\ TestRun("list", {}) \in TestCalls /\ TestRun("list", {}).op = "list"
    /\ TestRun("list", {}).asked = {}
    /\ TestRun("all", Targets) \in TestCalls /\ TestRun("all", Targets).op = "all"
    /\ TestRun("all", Targets).asked = Targets
    /\ \A t \in Targets : LET single == TestRun("single", {t})
                          IN  single \in TestCalls /\ single.op = "single" /\ single.asked = {t}
BY DEF NoTestCall, TestRun, TestCalls

(***************************************************************************)
(* A step puts one call into a slot.  A flag that stays or goes up has a   *)
(* call that will take it down: the new one, or another than the one that  *)
(* left.                                                                   *)
(***************************************************************************)
LEMMA TestSlot ==
    ASSUME TestsInv, NEW s \in TestSlots, NEW call \in TestCalls, TestCallSound(call), TestSend(s, call),
           targets' \subseteq Targets, targetsLoading' \in BOOLEAN, isTestingAll' \in BOOLEAN,
           results' \in [Targets -> BOOLEAN],
           targetsLoading' => call.op = "list" \/ (targetsLoading /\ testCalls[s].op # "list"),
           isTestingAll' => call.op = "all" \/ (isTestingAll /\ testCalls[s].op # "all"),
           \A t \in Targets : results'[t] =>
              /\ t \in targets'
              /\ t \in call.asked \/ (results[t] /\ t \notin testCalls[s].asked)
    PROVE  TestsInv'
<1>1. testCalls \in [TestSlots -> TestCalls] /\ testCalls' = [testCalls EXCEPT ![s] = call]
  BY DEF TestsInv, UnlockTestTypeOK, TestSend
<1>2. /\ testCalls' \in [TestSlots -> TestCalls] /\ testCalls'[s] = call
      /\ \A r \in TestSlots : r # s => testCalls'[r] = testCalls[r]
  BY <1>1
<1>3. UnlockTestTypeOK' /\ TestCallsSound'
  BY <1>2 DEF TestsInv, UnlockTestTypeOK, TestCallsSound
<1>4. TestFlagsHeld'
  BY <1>2 DEF TestsInv, TestFlagsHeld
<1> QED
  BY <1>3, <1>4 DEF TestsInv

\* What is shown of the targets in T.
LEMMA ResultsShown ==
    ASSUME UnlockTestTypeOK, NEW T, NEW loading \in BOOLEAN, Shows(T, loading)
    PROVE  /\ results' \in [Targets -> BOOLEAN]
           /\ \A t \in Targets : results'[t] = IF t \in T THEN loading ELSE results[t]
BY DEF UnlockTestTypeOK, Shows

-----------------------------------------------------------------------------
(***************************************************************************)
(* The inputs, and the service.                                            *)
(***************************************************************************)
LEMMA RunAllStep ==
    ASSUME TestsInv, NEW s \in TestSlots, RunAllTests(s)
    PROVE  TestsInv'
<1> DEFINE all == TestRun("all", Targets)
<1>1. all \in TestCalls /\ all.op = "all" /\ all.asked = Targets /\ TestCallSound(all)
  BY TestCallsMade DEF TestCallSound
<1>2. TestSend(s, all) /\ testCalls[s].op = "none"
  BY DEF RunAllTests, TestFree
<1> HIDE DEF all
<1>3. /\ UNCHANGED <<targets, targetsLoading>> /\ isTestingAll' = TRUE /\ Shows(targets, TRUE)
      /\ UnlockTestTypeOK
  BY DEF RunAllTests, TestsInv
<1>4. /\ results' \in [Targets -> BOOLEAN]
      /\ \A t \in Targets : results'[t] = IF t \in targets THEN TRUE ELSE results[t]
  BY <1>3, ResultsShown
<1>5. \A t \in Targets : results[t] => t \in targets
  BY DEF TestsInv, TestFlagsHeld
<1> QED
  BY <1>1, <1>2, <1>3, <1>4, <1>5, TestSlot DEF UnlockTestTypeOK

LEMMA RunSingleStep ==
    ASSUME TestsInv, NEW s \in TestSlots, NEW t \in Targets, RunSingleTest(s, t)
    PROVE  TestsInv'
<1> DEFINE single == TestRun("single", {t})
<1>1. single \in TestCalls /\ single.op = "single" /\ single.asked = {t} /\ TestCallSound(single)
  BY TestCallsMade DEF TestCallSound
<1>2. TestSend(s, single) /\ testCalls[s].op = "none" /\ testCalls[s].asked = {}
  BY DEF RunSingleTest, TestFree, TestsInv, TestCallsSound, TestCallSound
<1> HIDE DEF single
<1>3. /\ UNCHANGED <<targets, targetsLoading, isTestingAll>> /\ Shows({t}, TRUE) /\ t \in targets
      /\ UnlockTestTypeOK
  BY DEF RunSingleTest, TestsInv
<1>4. /\ results' \in [Targets -> BOOLEAN]
      /\ \A u \in Targets : results'[u] = IF u \in {t} THEN TRUE ELSE results[u]
  BY <1>3, ResultsShown
<1>5. \A u \in Targets : results[u] => u \in targets
  BY DEF TestsInv, TestFlagsHeld
<1>6. \A u \in Targets : results'[u] =>
         u \in targets' /\ (u \in single.asked \/ (results[u] /\ u \notin testCalls[s].asked))
  BY <1>1, <1>2, <1>3, <1>4, <1>5
<1>7. /\ targetsLoading' => targetsLoading /\ testCalls[s].op # "list"
      /\ isTestingAll' => isTestingAll /\ testCalls[s].op # "all"
  BY <1>2, <1>3
<1> QED
  BY <1>1, <1>2, <1>3, <1>4, <1>6, <1>7, TestSlot DEF UnlockTestTypeOK

LEMMA ProbeStep ==
    ASSUME TestsInv, NEW s \in TestSlots, NEW t \in Targets, RunTest(s, t)
    PROVE  TestsInv'
<1> DEFINE old == testCalls[s]
           call == [old EXCEPT !.open = @ \ {t}]
<1>1. old \in TestCalls /\ TestCallSound(old) /\ UnlockTestTypeOK
  BY DEF TestsInv, UnlockTestTypeOK, TestCallsSound
<1>2. call \in TestCalls /\ call.op = old.op /\ call.asked = old.asked /\ TestCallSound(call)
  BY <1>1 DEF TestCalls, TestCallSound
<1>3. TestSend(s, call) /\ UNCHANGED <<targets, targetsLoading, isTestingAll, results>>
  BY DEF RunTest, testView
<1> HIDE DEF call
<1>4. \A u \in Targets : results[u] => u \in targets
  BY DEF TestsInv, TestFlagsHeld
<1> QED
  BY <1>1, <1>2, <1>3, <1>4, TestSlot DEF UnlockTestTypeOK

-----------------------------------------------------------------------------
(***************************************************************************)
(* An answer ends its call and shows nothing more of what that asked for.  *)
(***************************************************************************)
LEMMA TestAnswerStep ==
    ASSUME TestsInv, NEW s \in TestSlots,
           \/ TargetsListed(s) \/ AllTested(s) \/ AllTestsFail(s)
           \/ SingleTested(s) \/ SingleTestFails(s)
    PROVE  TestsInv'
<1> DEFINE old == testCalls[s]
<1>1. /\ NoTestCall \in TestCalls /\ NoTestCall.asked = {} /\ TestCallSound(NoTestCall)
      /\ UnlockTestTypeOK /\ TestCallSound(old)
      /\ \A t \in Targets : results[t] => t \in targets
  BY TestCallsMade DEF TestCallSound, TestsInv, TestFlagsHeld, TestCallsSound
<1>2. TestSend(s, NoTestCall)
  BY DEF TargetsListed, AllTested, AllTestsFail, SingleTested, SingleTestFails, TestAnswered
<1>3. PICK T :
         /\ Shows(T, FALSE)
         /\ targets' = targets \/ (T = Targets /\ targets' \subseteq Targets)
         /\ old.asked \subseteq T \/ T = targets
  <2>1. old.asked \subseteq Targets
    BY <1>1 DEF UnlockTestTypeOK, TestCalls
  <2>2. CASE TargetsListed(s)
    BY <2>1, <2>2 DEF TargetsListed
  <2>3. CASE AllTested(s)
    BY <2>1, <2>3 DEF AllTested
  <2>4. CASE AllTestsFail(s)
    BY <2>4 DEF AllTestsFail
  <2>5. CASE SingleTested(s) \/ SingleTestFails(s)
    <3>1. Shows(old.asked, FALSE) /\ targets' = targets
      BY <2>5 DEF SingleTested, SingleTestFails
    <3> QED
      BY <3>1
  <2> QED
    BY <2>2, <2>3, <2>4, <2>5
<1>4. /\ targetsLoading' \in BOOLEAN /\ isTestingAll' \in BOOLEAN
      /\ targetsLoading' => targetsLoading /\ old.op # "list"
      /\ isTestingAll' => isTestingAll /\ old.op # "all"
  <2>0. targetsLoading \in BOOLEAN /\ isTestingAll \in BOOLEAN
    BY <1>1 DEF UnlockTestTypeOK
  <2>1. CASE TargetsListed(s)
    BY <2>0, <2>1 DEF TargetsListed, TestAnswered
  <2>2. CASE AllTested(s)
    BY <2>0, <2>2 DEF AllTested, TestAnswered
  <2>3. CASE AllTestsFail(s)
    BY <2>0, <2>3 DEF AllTestsFail
  <2>4. CASE SingleTested(s) \/ SingleTestFails(s)
    <3>1. old.op = "single" /\ targetsLoading' = targetsLoading /\ isTestingAll' = isTestingAll
      BY <2>4 DEF SingleTested, SingleTestFails, TestAnswered
    <3> QED
      BY <2>0, <3>1
  <2> QED
    BY <2>1, <2>2, <2>3, <2>4
<1>5. /\ results' \in [Targets -> BOOLEAN]
      /\ \A t \in Targets : results'[t] = IF t \in T THEN FALSE ELSE results[t]
  BY <1>1, <1>3, ResultsShown
<1>6. \A t \in Targets : results'[t] => results[t] /\ t \in targets' /\ t \notin old.asked
  <2>1. CASE T = targets
    BY <1>1, <1>3, <1>5, <2>1
  <2>2. CASE T # targets
    BY <1>1, <1>3, <1>5, <2>2
  <2> QED
    BY <2>1, <2>2
<1>7. targets' \subseteq Targets
  BY <1>1, <1>3 DEF UnlockTestTypeOK
<1> QED
  BY <1>1, <1>2, <1>4, <1>5, <1>6, <1>7, TestSlot

-----------------------------------------------------------------------------
\* The page that has just been opened, or that is not open.
LEMMA TestsStart ==
    ASSUME UnlockTestInit \/ UnlockTestAbsent
    PROVE  TestsInv
<1> DEFINE list == TestRun("list", {})
<1>1. /\ list \in TestCalls /\ list.op = "list" /\ list.asked = {}
      /\ NoTestCall \in TestCalls /\ NoTestCall.op = "none" /\ NoTestCall.asked = {}
  BY TestCallsMade
<1>2. PICK listing \in SUBSET TestSlots : UnlockTestStart(listing)
  BY DEF UnlockTestInit, UnlockTestAbsent
<1>3. testCalls = [s \in TestSlots |-> IF s \in listing THEN list ELSE NoTestCall]
  BY <1>2 DEF UnlockTestStart
<1> HIDE DEF list
<1>4. /\ testCalls \in [TestSlots -> TestCalls]
      /\ \A s \in TestSlots : /\ testCalls[s].op = IF s \in listing THEN "list" ELSE "none"
                              /\ testCalls[s].asked = {}
  BY <1>1, <1>3
<1>5. /\ targets = {} /\ targetsLoading = (listing # {}) /\ isTestingAll = FALSE
      /\ results = [t \in Targets |-> FALSE]
  BY <1>2 DEF UnlockTestStart
<1>6. UnlockTestTypeOK
  BY <1>4, <1>5 DEF UnlockTestTypeOK
<1>7. TestCallsSound /\ TestFlagsHeld
  BY <1>4, <1>5 DEF TestCallsSound, TestCallSound, TestFlagsHeld
<1> QED
  BY <1>6, <1>7 DEF TestsInv

LEMMA TestsStep == TestsInv /\ [UnlockTestNext]_testVars => TestsInv'
<1> SUFFICES ASSUME TestsInv, [UnlockTestNext]_testVars PROVE TestsInv'
  OBVIOUS
<1>1. CASE UNCHANGED testVars
  BY <1>1 DEF testVars, testView, TestsInv, UnlockTestTypeOK, TestCallsSound, TestFlagsHeld
<1> QED
  BY <1>1, RunAllStep, RunSingleStep, ProbeStep, TestAnswerStep DEF UnlockTestNext

LEMMA TestsRest == TestsInv => TestsComeToRest
BY DEF TestsInv, TestCallsSound, TestCallSound, TestFlagsHeld, TestsComeToRest, TestsQuiet, TestFree

-----------------------------------------------------------------------------
(***************************************************************************)
(* Backups                                                                 *)
(***************************************************************************)
Restores == {"upload", "history"}

\* Numbers are of backups that were made; a restore is awaited by its handler,
\* and has made its own backup once it writes.
BackupCallSound(call, last) ==
    /\ call.op = "none" => call.by = "none"
    /\ call.op \in Restores => call.by \in Restores
    /\ call.stage = "packing" => call.op \in Restores \cup {"create"}
    /\ call.undo # 0 => call.op \in Restores /\ call.stage \notin {"sent", "packing"}
    /\ call.name <= last /\ call.undo <= last /\ call.rows \subseteq 1..last

BackupCallsSound == \A s \in BackupSlots : BackupCallSound(backupCalls[s], made)

\* The mutex: one backup is made at a time, and its number is free.
PackingAlone ==
    \A s \in BackupSlots :
        backupCalls[s].stage = "packing" =>
            made < MaxMade /\ \A r \in BackupSlots : backupCalls[r].stage = "packing" => r = s

BackupFlagsHeld ==
    /\ historyLoading => \E s \in BackupSlots : backupCalls[s].op = "list"
    /\ createLoading => \E s \in BackupSlots : backupCalls[s].by = "create"
    /\ retentionLoading => \E s \in BackupSlots : backupCalls[s].by = "retention"
    /\ restoreLoading => \E s \in BackupSlots : backupCalls[s].by \in Restores

NamesMade == history \subseteq 1..made /\ confirmMode.name <= made

BackupsInv ==
    /\ BackupTypeOK /\ NamesMade /\ BackupCallsSound
    /\ PackingAlone /\ BackupFlagsHeld /\ RestoreCanBeUndone

-----------------------------------------------------------------------------
LEMMA Numbers ==
    ASSUME BackupTypeOK
    PROVE  made \in Nat /\ aged \in Nat /\ aged <= made /\ MaxBackups \in Nat /\ MaxBackups >= 1
BY BackupAssumption DEF BackupTypeOK, BackupNames

LEMMA Partial ==
    /\ Archive \subseteq PartialArchive /\ NoFiles \in PartialArchive
    /\ \A a \in PartialArchive : \A S : Restrict(a, DOMAIN a \ S) \in PartialArchive
    /\ \A a \in PartialArchive : DOMAIN a = BackupFiles => \A F \in SUBSET BackupFiles :
          Restrict(a, F) \in PartialArchive
    /\ \A a \in PartialArchive : \A f \in DOMAIN a : f \in BackupFiles /\ a[f] \in Versions
<1>1. NoFiles \in [{} -> Versions]
  BY DEF NoFiles
<1>2. Archive \subseteq PartialArchive
  BY DEF Archive, PartialArchive
<1>3. ASSUME NEW a \in PartialArchive
      PROVE  /\ \A S : Restrict(a, DOMAIN a \ S) \in PartialArchive
             /\ DOMAIN a = BackupFiles => \A F \in SUBSET BackupFiles : Restrict(a, F) \in PartialArchive
             /\ \A f \in DOMAIN a : f \in BackupFiles /\ a[f] \in Versions
  <2>1. PICK F \in SUBSET BackupFiles : a \in [F -> Versions]
    BY DEF PartialArchive
  <2>2. \A S : Restrict(a, DOMAIN a \ S) \in [F \ S -> Versions]
    BY <2>1 DEF Restrict
  <2>3. ASSUME DOMAIN a = BackupFiles, NEW G \in SUBSET BackupFiles
        PROVE  Restrict(a, G) \in PartialArchive
    <3>1. Restrict(a, G) \in [G -> Versions]
      BY <2>1, <2>3 DEF Restrict
    <3> QED
      BY <3>1 DEF PartialArchive
  <2> QED
    BY <2>1, <2>2, <2>3 DEF PartialArchive
<1> QED
  BY <1>1, <1>2, <1>3 DEF PartialArchive

\* A call as it is sent; what it carries is empty but for a restore's upload.
SentAs(call, op, by, name) ==
    /\ call \in BackupCalls /\ call.op = op /\ call.by = by /\ call.name = name
    /\ call.stage = "sent" /\ call.undo = 0 /\ call.rows = {}

LEMMA FreshCalls ==
    ASSUME NEW op \in {"create", "download", "list", "delete", "retention", "upload", "history"},
           NEW by \in Handlers, NEW name \in {0} \cup BackupNames
    PROVE  /\ SentAs([NoBackupCall EXCEPT !.op = op, !.by = by, !.name = name], op, by, name)
           /\ \A upload \in PartialArchive :
                 SentAs([NoBackupCall EXCEPT !.op = op, !.by = by, !.name = name, !.contents = upload],
                       op, by, name)
           /\ SentAs(NoBackupCall, "none", "none", 0)
<1>1. NoFiles \in PartialArchive
  BY Partial
<1>2. SentAs([NoBackupCall EXCEPT !.op = op, !.by = by, !.name = name], op, by, name)
  BY <1>1 DEF SentAs, NoBackupCall, BackupCalls
<1>3. ASSUME NEW upload \in PartialArchive
      PROVE  SentAs([NoBackupCall EXCEPT !.op = op, !.by = by, !.name = name, !.contents = upload],
                   op, by, name)
  BY <1>1 DEF SentAs, NoBackupCall, BackupCalls
<1>4. SentAs(NoBackupCall, "none", "none", 0)
  BY <1>1 DEF SentAs, NoBackupCall, BackupCalls, Handlers
<1> QED
  BY <1>2, <1>3, <1>4

-----------------------------------------------------------------------------
(***************************************************************************)
(* The retention keeps a backup while fewer than MaxBackups are newer,     *)
(* there or not.                                                           *)
(***************************************************************************)
LEMMA NewerCounted ==
    ASSUME NEW n \in Nat, NEW last \in Nat, NEW names \in SUBSET (1..last)
    PROVE  /\ Cardinality({m \in names : m > n}) <= Cardinality((n + 1)..last)
           /\ Cardinality((n + 1)..last) \in Nat /\ Cardinality({m \in names : m > n}) \in Nat
<1> DEFINE newer == {m \in names : m > n}
<1>1. IsFiniteSet((n + 1)..last) /\ Cardinality((n + 1)..last) \in Nat
  BY FS_Interval, FS_CardinalityType
<1>2. newer \subseteq (n + 1)..last
  <2> SUFFICES ASSUME NEW m \in names, m > n PROVE m \in (n + 1)..last
    OBVIOUS
  <2>1. m \in 1..last
    OBVIOUS
  <2> QED
    BY <2>1
<1>3. IsFiniteSet(newer) /\ Cardinality(newer) <= Cardinality((n + 1)..last)
  BY <1>1, <1>2, FS_Subset
<1>4. Cardinality(newer) \in Nat
  BY <1>3, FS_CardinalityType
<1> QED
  BY <1>1, <1>3, <1>4

LEMMA MoreAreNewer ==
    ASSUME NEW n \in Nat, NEW last \in Nat
    PROVE  /\ Cardinality((n + 1)..last) <= Cardinality((n + 1)..(last + 1))
           /\ Cardinality((n + 1)..last) \in Nat /\ Cardinality((n + 1)..(last + 1)) \in Nat
<1>1. Cardinality((n + 1)..last) = IF n + 1 > last THEN 0 ELSE last - (n + 1) + 1
  BY FS_Interval
<1>2. Cardinality((n + 1)..(last + 1)) = IF n + 1 > last + 1 THEN 0 ELSE (last + 1) - (n + 1) + 1
  BY FS_Interval
<1> QED
  BY <1>1, <1>2

LEMMA RetainedKeeps ==
    ASSUME BackupTypeOK, NEW last \in Nat, NEW all, DOMAIN all \subseteq 1..last,
           NEW n \in DOMAIN all, aged < n, Cardinality((n + 1)..last) < MaxBackups
    PROVE  n \in Retained(all) /\ Restrict(all, Retained(all))[n] = all[n]
<1>1. n \in Nat /\ MaxBackups \in Nat
  BY Numbers
<1>2. Cardinality({m \in DOMAIN all : m > n}) < MaxBackups
  <2> DEFINE newer == {m \in DOMAIN all : m > n}
             room == (n + 1)..last
  <2>1. Cardinality(newer) <= Cardinality(room) /\ Cardinality(newer) \in Nat /\ Cardinality(room) \in Nat
    BY <1>1, NewerCounted, Zenon
  <2>2. Cardinality(room) < MaxBackups
    OBVIOUS
  <2> HIDE DEF newer, room
  <2>3. Cardinality(newer) < MaxBackups
    BY <1>1, <2>1, <2>2
  <2> QED
    BY <2>3 DEF newer
<1>3. n \in Retained(all)
  BY <1>2 DEF Retained
<1> QED
  BY <1>3 DEF Restrict

\* What is retained is of what there was.
LEMMA RetainedTyped ==
    ASSUME NEW all, \A n \in DOMAIN all : all[n] \in PartialArchive
    PROVE  LET kept == Restrict(all, Retained(all))
           IN  DOMAIN kept \subseteq DOMAIN all /\ \A n \in DOMAIN kept : kept[n] \in PartialArchive
BY DEF Restrict, Retained

\* A backup that a restore can be undone with is not taken away.
Keeps(n) ==
    n > aged' /\ n \notin discarded' /\ Cardinality((n + 1)..made') < MaxBackups =>
        /\ n > aged /\ n \notin discarded /\ Cardinality((n + 1)..made) < MaxBackups
        /\ n \in DOMAIN archives => n \in DOMAIN archives' /\ archives'[n] = archives[n]

KeepsUndos == \A s \in BackupSlots : backupCalls[s].undo # 0 => Keeps(backupCalls[s].undo)

ArchivesTyped ==
    /\ made' \in {0} \cup BackupNames /\ made' \in {made, made + 1} /\ aged' \in 0..made'
    /\ DOMAIN archives' \subseteq 1..made' /\ \A n \in DOMAIN archives' : archives'[n] \in PartialArchive
    /\ discarded' \subseteq BackupNames

\* A backup is made and the retention follows.
LEMMA MakesKeeps ==
    ASSUME BackupsInv, NEW kept \in PartialArchive, NEW all,
           all = [n \in DOMAIN archives \cup {made + 1} |-> IF n = made + 1 THEN kept ELSE archives[n]],
           archives' = Restrict(all, Retained(all)), made' = made + 1, made < MaxMade,
           UNCHANGED <<aged, discarded>>
    PROVE  /\ ArchivesTyped /\ KeepsUndos
           /\ aged < made' => made' \in DOMAIN archives' /\ archives'[made'] = kept
<1>1. /\ BackupTypeOK /\ made \in Nat /\ aged \in Nat /\ aged <= made
      /\ MaxBackups \in Nat /\ MaxBackups >= 1 
      /\ discarded \subseteq BackupNames
      /\ DOMAIN archives \subseteq 1..made /\ \A n \in DOMAIN archives : archives[n] \in PartialArchive
  BY Numbers DEF BackupsInv, BackupTypeOK
<1>2. made' \in BackupNames
  BY <1>1, BackupAssumption DEF BackupNames
<1>3. /\ DOMAIN all = DOMAIN archives \cup {made + 1} /\ DOMAIN all \subseteq 1..(made + 1)
      /\ all[made + 1] = kept /\ \A n \in DOMAIN archives : all[n] = archives[n]
      /\ \A n \in DOMAIN all : all[n] \in PartialArchive
  BY <1>1
<1>4. ArchivesTyped
  BY <1>1, <1>2, <1>3, RetainedTyped DEF ArchivesTyped
<1>5. made' \in DOMAIN archives' /\ archives'[made'] = kept
  <2>1. Cardinality((made' + 1)..made') = 0
    BY <1>1, <1>2, FS_Interval
  <2>2. made' \in Retained(all) /\ archives'[made'] = all[made']
    BY <1>1, <1>2, <1>3, <2>1, RetainedKeeps
  <2> QED
    BY <1>2, <1>3, <2>2 DEF Restrict
<1>6. KeepsUndos
  <2> SUFFICES ASSUME NEW s \in BackupSlots, NEW n, n = backupCalls[s].undo, n # 0, n > aged,
                      n \notin discarded, Cardinality((n + 1)..made') < MaxBackups
               PROVE  /\ Cardinality((n + 1)..made) < MaxBackups
                      /\ n \in DOMAIN archives => n \in DOMAIN archives' /\ archives'[n] = archives[n]
    BY DEF KeepsUndos, Keeps
  <2>1. n \in Nat /\ n >= 1 /\ n <= made
    BY <1>1 DEF BackupsInv, BackupTypeOK, BackupCalls, BackupNames, BackupCallsSound, BackupCallSound
  <2>2. Cardinality((n + 1)..made) < MaxBackups
    <3>1. /\ Cardinality((n + 1)..made) <= Cardinality((n + 1)..made')
          /\ Cardinality((n + 1)..made) \in Nat /\ Cardinality((n + 1)..made') \in Nat
      BY <1>1, <1>2, <2>1, MoreAreNewer
    <3> QED
      BY <1>1, <3>1
  <2>3. ASSUME n \in DOMAIN archives
        PROVE  n \in DOMAIN archives' /\ archives'[n] = archives[n]
    <3>1. n \in Retained(all) /\ archives'[n] = all[n]
      BY <1>1, <1>2, <1>3, <2>1, <2>3, RetainedKeeps
    <3> QED
      BY <1>2, <1>3, <2>3, <3>1 DEF Restrict
  <2> QED
    BY <2>2, <2>3
<1> QED
  BY <1>2, <1>4, <1>5, <1>6

LEMMA TakesAwayKeeps ==
    ASSUME BackupsInv, NEW taken, archives' = Restrict(archives, DOMAIN archives \ taken),
           UNCHANGED <<made, aged>>, discarded \subseteq discarded', discarded' \subseteq BackupNames,
           \A s \in BackupSlots : \A n \in taken :
              n = backupCalls[s].undo /\ n # 0 =>
                  n \in discarded' \/ ~(n > aged) \/ ~(Cardinality((n + 1)..made) < MaxBackups)
    PROVE  ArchivesTyped /\ KeepsUndos
<1>1. /\ DOMAIN archives' = DOMAIN archives \ taken
      /\ \A n \in DOMAIN archives' : archives'[n] = archives[n]
  BY DEF Restrict
<1>2. ArchivesTyped
  BY <1>1 DEF ArchivesTyped, BackupsInv, BackupTypeOK
<1>3. KeepsUndos
  BY <1>1 DEF KeepsUndos, Keeps
<1> QED
  BY <1>2, <1>3

LEMMA RetentionKeeps ==
    ASSUME BackupsInv, archives' = Restrict(archives, Retained(archives)),
           UNCHANGED <<made, aged, discarded>>
    PROVE  ArchivesTyped /\ KeepsUndos
<1> DEFINE taken == DOMAIN archives \ Retained(archives)
<1>1. archives' = Restrict(archives, DOMAIN archives \ taken)
  <2>1. DOMAIN archives \ taken = Retained(archives)
    BY DEF Retained
  <2> QED
    BY <2>1
<1>2. ASSUME NEW n \in taken, n > aged, Cardinality((n + 1)..made) < MaxBackups
      PROVE  FALSE
  <2>1. /\ BackupTypeOK /\ made \in Nat /\ DOMAIN archives \subseteq 1..made
        /\ n \in DOMAIN archives /\ aged < n
    BY <1>2, Numbers DEF BackupsInv, BackupTypeOK
  <2>2. n \in Retained(archives)
    BY <1>2, <2>1, RetainedKeeps
  <2> QED
    BY <2>2
<1> HIDE DEF taken
<1>3. discarded' \subseteq BackupNames
  BY DEF BackupsInv, BackupTypeOK
<1> QED
  BY <1>1, <1>2, <1>3, TakesAwayKeeps

LEMMA NothingTaken ==
    ASSUME BackupsInv, UNCHANGED <<archives, made, aged, discarded>>
    PROVE  ArchivesTyped /\ KeepsUndos
BY DEF ArchivesTyped, KeepsUndos, Keeps, BackupsInv, BackupTypeOK

-----------------------------------------------------------------------------
(***************************************************************************)
(* A step puts one call into a slot.  What the others are about stays as   *)
(* it is.  Only a call that was packing makes a backup.                    *)
(***************************************************************************)
NewUndo(call, old) ==
    \/ call.undo = 0
    \/ call.undo = old.undo /\ call.packed = old.packed
    \/ /\ call.undo = made'
       /\ aged' < made' => made' \in DOMAIN archives' /\ archives'[made'] = call.packed

KeepsMutex(call, old) ==
    /\ call.stage = "packing" => old.stage = "packing" \/ (MutexFree /\ made < MaxMade)
    /\ made' = made \/ (old.stage = "packing" /\ call.stage # "packing")

LEMMA BackupSlot ==
    ASSUME BackupsInv, ArchivesTyped, KeepsUndos, NEW s \in BackupSlots, NEW call \in BackupCalls,
           Proceeds(s, call), BackupCallSound(call, made'),
           NewUndo(call, backupCalls[s]), KeepsMutex(call, backupCalls[s])
    PROVE  /\ backupCalls' \in [BackupSlots -> BackupCalls] /\ backupCalls'[s] = call
           /\ \A r \in BackupSlots : r # s => backupCalls'[r] = backupCalls[r]
           /\ BackupCallsSound' /\ PackingAlone' /\ RestoreCanBeUndone'
<1>1. /\ backupCalls \in [BackupSlots -> BackupCalls]
      /\ backupCalls' = [backupCalls EXCEPT ![s] = call]
  BY DEF BackupsInv, BackupTypeOK, Proceeds
<1>2. /\ backupCalls' \in [BackupSlots -> BackupCalls] /\ backupCalls'[s] = call
      /\ \A r \in BackupSlots : r # s => backupCalls'[r] = backupCalls[r]
  BY <1>1
<1>3. made \in Nat /\ made' \in Nat /\ made <= made'
  BY Numbers DEF BackupsInv, ArchivesTyped
<1>4. BackupCallsSound'
  <2> SUFFICES ASSUME NEW r \in BackupSlots, r # s PROVE BackupCallSound(backupCalls[r], made')
    BY <1>2 DEF BackupCallsSound
  <2>1. BackupCallSound(backupCalls[r], made) /\ backupCalls[r] \in BackupCalls
    BY <1>1 DEF BackupsInv, BackupCallsSound
  <2>2. backupCalls[r].name \in Nat /\ backupCalls[r].undo \in Nat
    BY <2>1 DEF BackupCalls, BackupNames
  <2>3. 1..made \subseteq 1..made'
    BY <1>3
  <2> QED
    BY <1>3, <2>1, <2>2, <2>3 DEF BackupCallSound
<1>5. PackingAlone'
  <2> SUFFICES ASSUME NEW r \in BackupSlots, backupCalls'[r].stage = "packing"
               PROVE  /\ made' < MaxMade
                      /\ \A q \in BackupSlots : backupCalls'[q].stage = "packing" => q = r
    BY DEF PackingAlone
  <2>1. CASE made' = made
    BY <1>2, <2>1 DEF BackupsInv, PackingAlone, KeepsMutex, MutexFree
  <2>2. CASE backupCalls[s].stage = "packing" /\ call.stage # "packing"
    BY <1>2, <2>2 DEF BackupsInv, PackingAlone
  <2> QED
    BY <2>1, <2>2 DEF KeepsMutex
<1>6. RestoreCanBeUndone'
  <2> SUFFICES ASSUME NEW r \in BackupSlots, NEW n, n = backupCalls'[r].undo, n > aged',
                      n \notin discarded', Cardinality((n + 1)..made') < MaxBackups
               PROVE  n \in DOMAIN archives' /\ archives'[n] = backupCalls'[r].packed
    BY DEF RestoreCanBeUndone
  <2>1. n # 0
    <3>1. aged' \in Nat
      BY <1>3 DEF ArchivesTyped
    <3> QED
      BY <3>1
  <2>2. CASE n = backupCalls[r].undo /\ backupCalls'[r].packed = backupCalls[r].packed
    BY <2>1, <2>2 DEF KeepsUndos, Keeps, BackupsInv, RestoreCanBeUndone
  <2>3. CASE r # s
    BY <1>2, <2>2, <2>3
  <2>4. CASE r = s
    BY <1>2, <2>1, <2>2, <2>4 DEF NewUndo
  <2> QED
    BY <2>3, <2>4
<1> QED
  BY <1>2, <1>4, <1>5, <1>6

(***************************************************************************)
(* The flags: each goes down with the end of the handler that raised it.   *)
(***************************************************************************)
FlagsFollow(call, old) ==
    /\ historyLoading' => call.op = "list" \/ (historyLoading /\ old.op # "list")
    /\ createLoading' => call.by = "create" \/ (createLoading /\ old.by # "create")
    /\ retentionLoading' => call.by = "retention" \/ (retentionLoading /\ old.by # "retention")
    /\ restoreLoading' => call.by \in Restores \/ (restoreLoading /\ old.by \notin Restores)

FlagsTyped == {historyLoading, createLoading, restoreLoading, retentionLoading} \subseteq BOOLEAN

ConfirmTyped == /\ confirmMode \in [mode : {"none", "upload", "history", "delete"},
                                    name : {0} \cup BackupNames]
                /\ confirmMode.name <= made

\* All of it, for a step that puts a call into a slot.
LEMMA BackupStep ==
    ASSUME BackupsInv, ArchivesTyped, KeepsUndos, NEW s \in BackupSlots, NEW call \in BackupCalls,
           Proceeds(s, call), BackupCallSound(call, made'),
           NewUndo(call, backupCalls[s]), KeepsMutex(call, backupCalls[s]),
           FlagsFollow(call, backupCalls[s]), FlagsTyped', ConfirmTyped',
           workFiles' \in Archive, history' \subseteq 1..made'
    PROVE  BackupsInv'
<1>1. /\ backupCalls' \in [BackupSlots -> BackupCalls] /\ backupCalls'[s] = call
      /\ \A r \in BackupSlots : r # s => backupCalls'[r] = backupCalls[r]
      /\ BackupCallsSound' /\ PackingAlone' /\ RestoreCanBeUndone'
  BY BackupSlot
<1>2. BackupFlagsHeld'
  BY <1>1 DEF BackupsInv, BackupFlagsHeld, FlagsFollow
<1>3. 1..made' \subseteq BackupNames
  BY BackupAssumption DEF ArchivesTyped, BackupNames
<1>4. BackupTypeOK' /\ NamesMade'
  BY <1>1, <1>3 DEF BackupTypeOK, NamesMade, ArchivesTyped, FlagsTyped, ConfirmTyped
<1> QED
  BY <1>1, <1>2, <1>4 DEF BackupsInv

\* A step that sends no call and changes no flag.
LEMMA QuietStep ==
    ASSUME BackupsInv, ArchivesTyped, KeepsUndos, UNCHANGED <<made, backupCalls>>,
           UNCHANGED <<history, historyLoading, createLoading, restoreLoading, retentionLoading>>,
           ConfirmTyped', workFiles' \in Archive
    PROVE  BackupsInv'
<1>1. BackupTypeOK' /\ NamesMade'
  BY DEF BackupsInv, BackupTypeOK, NamesMade, ArchivesTyped, ConfirmTyped
<1>2. RestoreCanBeUndone'
  <2> SUFFICES ASSUME NEW r \in BackupSlots, NEW n, n = backupCalls[r].undo, n > aged',
                      n \notin discarded', Cardinality((n + 1)..made') < MaxBackups
               PROVE  n \in DOMAIN archives' /\ archives'[n] = backupCalls[r].packed
    BY DEF RestoreCanBeUndone
  <2>1. n # 0
    <3>1. aged' \in Nat
      BY Numbers DEF ArchivesTyped, BackupsInv
    <3> QED
      BY <3>1
  <2> QED
    BY <2>1 DEF BackupsInv, RestoreCanBeUndone, KeepsUndos, Keeps
<1> QED
  BY <1>1, <1>2 DEF BackupsInv, BackupCallsSound, PackingAlone, BackupFlagsHeld

LEMMA ConfirmKept ==
    ASSUME BackupsInv
    PROVE  /\ FlagsTyped /\ ConfirmTyped /\ workFiles \in Archive /\ history \subseteq 1..made
           /\ made \in Nat
BY Numbers DEF BackupsInv, BackupTypeOK, NamesMade, FlagsTyped, ConfirmTyped

LEMMA NoConfirmTyped == made' \in Nat /\ confirmMode' = NoConfirm => ConfirmTyped'
BY DEF NoConfirm, ConfirmTyped

-----------------------------------------------------------------------------
(***************************************************************************)
(* Inputs                                                                  *)
(***************************************************************************)
LEMMA ConfirmInv ==
    ASSUME BackupsInv,
           \/ CancelConfirm \/ DaysPass \/ ElsewhereFiles \/ UNCHANGED backupVars
           \/ \E mode \in {"upload", "history", "delete"}, n \in {0} \cup BackupNames : AskToConfirm(mode, n)
    PROVE  BackupsInv'
<1>0. /\ FlagsTyped /\ ConfirmTyped /\ workFiles \in Archive /\ history \subseteq 1..made
      /\ made \in Nat
  BY ConfirmKept
<1>1. CASE CancelConfirm
  <2>1. UNCHANGED <<workFiles, archives, made, aged, discarded, history, historyLoading, createLoading, restoreLoading,
                    retentionLoading, backupCalls>> /\ confirmMode' = NoConfirm
    BY <1>1 DEF CancelConfirm, backupStore
  <2> QED
    BY <1>0, <2>1, NothingTaken, NoConfirmTyped, QuietStep
<1>2. CASE DaysPass
  <2>1. /\ UNCHANGED <<workFiles, archives, made, discarded, history, confirmMode, historyLoading, createLoading,
                       restoreLoading, retentionLoading, backupCalls>>
        /\ aged' = made /\ aged < made
    BY <1>2 DEF DaysPass, backupView
  <2>2. aged \in Nat /\ \A s \in BackupSlots : backupCalls[s].undo \in Nat
    BY <2>1, Numbers DEF BackupsInv, BackupTypeOK, BackupCalls, BackupNames
  <2>3. ArchivesTyped /\ KeepsUndos
    BY <1>0, <2>1, <2>2 DEF ArchivesTyped, KeepsUndos, Keeps, BackupsInv, BackupTypeOK
  <2> QED
    BY <1>0, <2>1, <2>3, QuietStep DEF ConfirmTyped
<1>3. CASE ElsewhereFiles
  <2>1. /\ UNCHANGED <<archives, made, aged, discarded, history, confirmMode, historyLoading, createLoading,
                       restoreLoading, retentionLoading, backupCalls>>
        /\ workFiles' \in Archive
    BY <1>0, <1>3 DEF ElsewhereFiles, backupView, Archive
  <2> QED
    BY <1>0, <2>1, NothingTaken, QuietStep DEF ConfirmTyped
<1>4. CASE UNCHANGED backupVars
  <2>1. UNCHANGED <<workFiles, archives, made, aged, discarded, history, confirmMode, historyLoading, createLoading,
                    restoreLoading, retentionLoading, backupCalls>>
    BY <1>4 DEF backupVars, backupStore, backupView
  <2> QED
    BY <1>0, <2>1, NothingTaken, QuietStep DEF ConfirmTyped
<1>5. ASSUME NEW mode \in {"upload", "history", "delete"}, NEW n \in {0} \cup BackupNames,
             AskToConfirm(mode, n)
      PROVE  BackupsInv'
  <2>1. /\ UNCHANGED <<workFiles, archives, made, aged, discarded, history, historyLoading, createLoading, restoreLoading,
                       retentionLoading, backupCalls>>
        /\ confirmMode' = [mode |-> mode, name |-> n] /\ (n = 0 \/ n \in history)
    BY <1>5 DEF AskToConfirm, backupStore
  <2>2. ConfirmTyped'
    BY <1>0, <2>1 DEF ConfirmTyped
  <2> QED
    BY <1>0, <2>1, <2>2, NothingTaken, QuietStep
<1> QED
  BY <1>1, <1>2, <1>3, <1>4, <1>5

LEMMA FreshSound ==
    ASSUME NEW last \in Nat, NEW call, NEW op, NEW by, NEW name, SentAs(call, op, by, name),
           name <= last, op = "none" => by = "none", op \in Restores => by \in Restores
    PROVE  /\ call \in BackupCalls /\ BackupCallSound(call, last) /\ call.undo = 0 /\ call.stage = "sent"
           /\ call.op = op /\ call.by = by /\ call.name = name
BY DEF SentAs, BackupCallSound

LEMMA SendInv ==
    ASSUME BackupsInv, NEW s \in BackupSlots, NEW upload \in Uploads \cup {NoFiles},
           \/ RefreshHistory(s) \/ HandleCreateBackup(s) \/ HandleApplyRetention(s)
           \/ ConfirmRestore(s, upload) \/ ConfirmDeleteBackup(s)
    PROVE  BackupsInv'
<1> DEFINE old == backupCalls[s]
<1>0. /\ FlagsTyped /\ ConfirmTyped /\ workFiles \in Archive /\ history \subseteq 1..made
      /\ made \in Nat /\ upload \in PartialArchive /\ confirmMode.name \in {0} \cup BackupNames
      /\ confirmMode.name <= made /\ 0 \in {0} \cup BackupNames
  BY ConfirmKept, Partial, BackupAssumption DEF ConfirmTyped
<1>1. old.op = "none" /\ old.by = "none"
  BY DEF RefreshHistory, HandleCreateBackup, HandleApplyRetention, ConfirmRestore, ConfirmDeleteBackup,
         Starts, Vacant, BackupsInv, BackupCallsSound, BackupCallSound
<1>2. UNCHANGED <<workFiles, archives, made, aged, discarded, history, confirmMode>>
  BY DEF RefreshHistory, HandleCreateBackup, HandleApplyRetention, ConfirmRestore, ConfirmDeleteBackup,
         backupStore, backupView
<1>3. ArchivesTyped /\ KeepsUndos /\ ConfirmTyped'
  BY <1>0, <1>2, NothingTaken DEF ConfirmTyped
<1>4. CASE RefreshHistory(s)
  <2> DEFINE call == [NoBackupCall EXCEPT !.op = "list", !.by = "refresh", !.name = 0]
  <2>1. SentAs(call, "list", "refresh", 0)
    BY <1>0, FreshCalls DEF Handlers
  <2>2. /\ Proceeds(s, call) /\ historyLoading' = TRUE
        /\ UNCHANGED <<createLoading, restoreLoading, retentionLoading>>
    BY <1>4 DEF RefreshHistory, Starts
  <2> HIDE DEF call
  <2>3. /\ call \in BackupCalls /\ BackupCallSound(call, made') /\ call.undo = 0 /\ call.stage = "sent"
        /\ call.op = "list" /\ call.by = "refresh"
    BY <1>0, <1>2, <2>1, FreshSound DEF Restores
  <2>4. FlagsFollow(call, old) /\ FlagsTyped'
    BY <1>0, <1>1, <2>2, <2>3 DEF FlagsFollow, FlagsTyped, Restores
  <2> QED
    BY <1>0, <1>2, <1>3, <2>2, <2>3, <2>4, BackupStep DEF NewUndo, KeepsMutex
<1>5. CASE HandleCreateBackup(s)
  <2> DEFINE call == [NoBackupCall EXCEPT !.op = "create", !.by = "create", !.name = 0]
  <2>1. SentAs(call, "create", "create", 0)
    BY <1>0, FreshCalls DEF Handlers
  <2>2. /\ Proceeds(s, call) /\ createLoading' = TRUE
        /\ UNCHANGED <<historyLoading, restoreLoading, retentionLoading>>
    BY <1>5 DEF HandleCreateBackup, Starts
  <2> HIDE DEF call
  <2>3. /\ call \in BackupCalls /\ BackupCallSound(call, made') /\ call.undo = 0 /\ call.stage = "sent"
        /\ call.op = "create" /\ call.by = "create"
    BY <1>0, <1>2, <2>1, FreshSound DEF Restores
  <2>4. FlagsFollow(call, old) /\ FlagsTyped'
    BY <1>0, <1>1, <2>2, <2>3 DEF FlagsFollow, FlagsTyped, Restores
  <2> QED
    BY <1>0, <1>2, <1>3, <2>2, <2>3, <2>4, BackupStep DEF NewUndo, KeepsMutex
<1>6. CASE HandleApplyRetention(s)
  <2> DEFINE call == [NoBackupCall EXCEPT !.op = "retention", !.by = "retention", !.name = 0]
  <2>1. SentAs(call, "retention", "retention", 0)
    BY <1>0, FreshCalls DEF Handlers
  <2>2. /\ Proceeds(s, call) /\ retentionLoading' = TRUE
        /\ UNCHANGED <<historyLoading, restoreLoading, createLoading>>
    BY <1>6 DEF HandleApplyRetention, Starts
  <2> HIDE DEF call
  <2>3. /\ call \in BackupCalls /\ BackupCallSound(call, made') /\ call.undo = 0 /\ call.stage = "sent"
        /\ call.op = "retention" /\ call.by = "retention"
    BY <1>0, <1>2, <2>1, FreshSound DEF Restores
  <2>4. FlagsFollow(call, old) /\ FlagsTyped'
    BY <1>0, <1>1, <2>2, <2>3 DEF FlagsFollow, FlagsTyped, Restores
  <2> QED
    BY <1>0, <1>2, <1>3, <2>2, <2>3, <2>4, BackupStep DEF NewUndo, KeepsMutex
<1>7. CASE ConfirmRestore(s, upload)
  <2> DEFINE mode == confirmMode.mode
             name == confirmMode.name
             call == [NoBackupCall EXCEPT !.op = mode, !.by = mode, !.name = name, !.contents = upload]
  <2>1. mode \in {"upload", "history"} /\ SentAs(call, mode, mode, name)
    <3>1. mode \in {"upload", "history"}
      BY <1>7 DEF ConfirmRestore
    <3>2. mode \in Handlers
      BY <3>1 DEF Handlers
    <3> QED
      BY <1>0, <3>1, <3>2, FreshCalls
  <2>2. /\ Proceeds(s, call) /\ restoreLoading' = TRUE /\ ~restoreLoading
        /\ UNCHANGED <<historyLoading, retentionLoading, createLoading>>
    BY <1>7 DEF ConfirmRestore
  <2> HIDE DEF call, mode, name
  <2>3. /\ call \in BackupCalls /\ BackupCallSound(call, made') /\ call.undo = 0 /\ call.stage = "sent"
        /\ call.op = mode /\ call.by = mode
    BY <1>0, <1>2, <2>1, FreshSound DEF Restores, name
  <2>4. FlagsFollow(call, old) /\ FlagsTyped'
    BY <1>0, <1>1, <2>1, <2>2, <2>3 DEF FlagsFollow, FlagsTyped, Restores
  <2> QED
    BY <1>0, <1>2, <1>3, <2>1, <2>2, <2>3, <2>4, BackupStep DEF NewUndo, KeepsMutex
<1>8. CASE ConfirmDeleteBackup(s)
  <2> DEFINE name == confirmMode.name
             call == [NoBackupCall EXCEPT !.op = "delete", !.by = "delete", !.name = name]
  <2>1. SentAs(call, "delete", "delete", name)
    BY <1>0, FreshCalls DEF Handlers
  <2>2. /\ Proceeds(s, call)
        /\ UNCHANGED <<historyLoading, retentionLoading, createLoading, restoreLoading>>
    BY <1>8 DEF ConfirmDeleteBackup, Starts, backupView
  <2> HIDE DEF call, name
  <2>3. /\ call \in BackupCalls /\ BackupCallSound(call, made') /\ call.undo = 0 /\ call.stage = "sent"
        /\ call.op = "delete" /\ call.by = "delete"
    BY <1>0, <1>2, <2>1, FreshSound DEF Restores, name
  <2>4. FlagsFollow(call, old) /\ FlagsTyped'
    BY <1>0, <1>1, <2>1, <2>2, <2>3 DEF FlagsFollow, FlagsTyped, Restores
  <2> QED
    BY <1>0, <1>2, <1>3, <2>1, <2>2, <2>3, <2>4, BackupStep DEF NewUndo, KeepsMutex
<1> QED
  BY <1>4, <1>5, <1>6, <1>7, <1>8

-----------------------------------------------------------------------------
(***************************************************************************)
(* The service.  It changes no flag, and the operation of a call only when *)
(* it has opened the archive of the history that is restored.              *)
(***************************************************************************)
LEMMA ServeStepInv ==
    ASSUME BackupsInv, ArchivesTyped, KeepsUndos, NEW s \in BackupSlots, NEW call \in BackupCalls,
           Proceeds(s, call), UNCHANGED backupView, workFiles' \in Archive,
           call.by = backupCalls[s].by,
           \/ call.op = backupCalls[s].op
           \/ {call.op, backupCalls[s].op} \subseteq Restores,
           call.name <= made', call.undo <= made', call.rows \subseteq 1..made',
           NewUndo(call, backupCalls[s]), KeepsMutex(call, backupCalls[s]),
           call.stage = "packing" => call.op \in Restores \cup {"create"},
           call.undo # 0 => call.op \in Restores /\ call.stage \notin {"sent", "packing"}
    PROVE  BackupsInv'
<1> DEFINE old == backupCalls[s]
<1>0. /\ FlagsTyped /\ ConfirmTyped /\ history \subseteq 1..made /\ made \in Nat
      /\ made' \in Nat /\ made <= made'
  BY ConfirmKept DEF ArchivesTyped
<1>1. BackupCallSound(old, made)
  BY DEF BackupsInv, BackupCallsSound
<1>2. BackupCallSound(call, made')
  BY <1>1 DEF BackupCallSound, Restores
<1>3. /\ UNCHANGED <<history, confirmMode, historyLoading, createLoading, restoreLoading, retentionLoading>>
  BY DEF backupView
<1>4. FlagsTyped' /\ ConfirmTyped' /\ history' \subseteq 1..made'
  <2>1. confirmMode.name \in Nat
    BY <1>0 DEF ConfirmTyped, BackupNames
  <2> QED
    BY <1>0, <1>3, <2>1 DEF FlagsTyped, ConfirmTyped
<1>5. FlagsFollow(call, old)
  BY <1>3 DEF FlagsFollow, Restores
<1> QED
  BY <1>2, <1>4, <1>5, BackupStep

\* What a call is about, in the store.
LEMMA CallKnown ==
    ASSUME BackupsInv, NEW s \in BackupSlots
    PROVE  LET old == backupCalls[s]
           IN  /\ old \in BackupCalls /\ BackupCallSound(old, made)
               /\ made \in Nat /\ 0 <= made /\ workFiles \in Archive
               /\ old.name \in {0} \cup BackupNames /\ old.name \in Nat /\ old.name <= made
               /\ old.undo \in {0} \cup BackupNames /\ old.undo \in Nat /\ old.undo <= made
               /\ old.rows \subseteq 1..made
               /\ DOMAIN archives \subseteq 1..made /\ 1..made \subseteq BackupNames
               /\ \A n \in DOMAIN archives : archives[n] \in PartialArchive
               /\ discarded \subseteq BackupNames /\ 0 \in {0} \cup BackupNames
               /\ {} \in SUBSET BackupNames
<1>1. /\ backupCalls[s] \in BackupCalls /\ BackupCallSound(backupCalls[s], made)
      /\ made \in {0} \cup BackupNames
  BY DEF BackupsInv, BackupTypeOK, BackupCallsSound
<1>2. made \in Nat /\ 0 <= made /\ 1..made \subseteq BackupNames
  BY <1>1, BackupAssumption DEF BackupNames
<1>3. /\ DOMAIN archives \subseteq 1..made /\ discarded \subseteq BackupNames /\ workFiles \in Archive
      /\ \A n \in DOMAIN archives : archives[n] \in PartialArchive
  BY DEF BackupsInv, BackupTypeOK
<1> QED
  BY <1>1, <1>2, <1>3 DEF BackupCallSound, BackupCalls, BackupNames

\* What is served with an answer.
LEMMA AnswerInv ==
    ASSUME BackupsInv, ArchivesTyped, KeepsUndos, NEW s \in BackupSlots, NEW name \in {0} \cup BackupNames,
           NEW rows \in SUBSET BackupNames, Serves(s, name, rows), UNCHANGED <<workFiles, made, backupView>>,
           name <= made, rows \subseteq 1..made
    PROVE  BackupsInv'
<1> DEFINE old == backupCalls[s]
           call == [old EXCEPT !.stage = "served", !.name = name, !.rows = rows]
<1>1. /\ old \in BackupCalls /\ BackupCallSound(old, made) /\ workFiles \in Archive
      /\ made \in Nat /\ old.undo <= made
  BY CallKnown
<1>2. /\ call \in BackupCalls /\ call.op = old.op /\ call.by = old.by /\ call.name = name
      /\ call.rows = rows /\ call.undo = old.undo /\ call.packed = old.packed /\ call.stage = "served"
  BY <1>1 DEF BackupCalls
<1>3. Proceeds(s, call)
  BY DEF Serves
<1> HIDE DEF call
<1>4. call.undo # 0 => call.op \in Restores
  BY <1>1, <1>2 DEF BackupCallSound
<1> QED
  BY <1>1, <1>2, <1>3, <1>4, ServeStepInv DEF NewUndo, KeepsMutex

LEMMA ServeInv ==
    ASSUME BackupsInv, NEW s \in BackupSlots,
           ServeHistory(s) \/ ServeDownload(s) \/ ServeDeleteBackup(s) \/ ServeRetention(s) \/ EndWriting(s)
    PROVE  BackupsInv'
<1> DEFINE old == backupCalls[s]
<1>0. /\ old.name \in {0} \cup BackupNames /\ old.name <= made /\ 0 \in {0} \cup BackupNames
      /\ DOMAIN archives \subseteq 1..made /\ DOMAIN archives \in SUBSET BackupNames /\ 0 <= made
      /\ {} \in SUBSET BackupNames /\ {} \subseteq 1..made /\ discarded \subseteq BackupNames
  BY CallKnown
<1>1. CASE ServeHistory(s)
  <2>1. Serves(s, 0, DOMAIN archives) /\ UNCHANGED <<workFiles, archives, made, aged, discarded, backupView>>
    BY <1>1 DEF ServeHistory, backupStore
  <2> QED
    BY <1>0, <2>1, NothingTaken, AnswerInv
<1>2. CASE ServeDownload(s)
  <2>1. Serves(s, old.name, {}) /\ UNCHANGED <<workFiles, archives, made, aged, discarded, backupView>>
    BY <1>2 DEF ServeDownload, backupStore
  <2> QED
    BY <1>0, <2>1, NothingTaken, AnswerInv
<1>3. CASE ServeDeleteBackup(s)
  <2> DEFINE taken == {old.name}
  <2>1. /\ Serves(s, old.name, {}) /\ UNCHANGED <<workFiles, made, aged, backupView>>
        /\ old.name \in DOMAIN archives /\ discarded' = discarded \cup {old.name}
        /\ archives' = Restrict(archives, DOMAIN archives \ taken)
    BY <1>3 DEF ServeDeleteBackup
  <2>2. /\ \A n \in taken : n \in discarded'
        /\ discarded \subseteq discarded' /\ discarded' \subseteq BackupNames
    BY <1>0, <2>1
  <2> HIDE DEF taken
  <2>3. ArchivesTyped /\ KeepsUndos
    BY <2>1, <2>2, TakesAwayKeeps
  <2> QED
    BY <1>0, <2>1, <2>3, AnswerInv
<1>4. CASE ServeRetention(s)
  <2>1. /\ Serves(s, 0, {}) /\ UNCHANGED <<workFiles, made, aged, discarded, backupView>>
        /\ archives' = Restrict(archives, Retained(archives))
    BY <1>4 DEF ServeRetention
  <2> QED
    BY <1>0, <2>1, RetentionKeeps, AnswerInv
<1>5. CASE EndWriting(s)
  <2>1. Serves(s, 0, {}) /\ UNCHANGED <<workFiles, archives, made, aged, discarded, backupView>>
    BY <1>5 DEF EndWriting, backupStore
  <2> QED
    BY <1>0, <2>1, NothingTaken, AnswerInv
<1> QED
  BY <1>1, <1>2, <1>3, <1>4, <1>5

(***************************************************************************)
(* A backup is packed.  While it is, no other is, so its number is free    *)
(* when it is closed; and the call has nothing to undo yet.                *)
(***************************************************************************)
LEMMA PackInv ==
    ASSUME BackupsInv, NEW s \in BackupSlots, BeginPacking(s) \/ PackFile(s) \/ RestoreUnpacked(s)
    PROVE  BackupsInv'
<1> DEFINE old == backupCalls[s]
<1>0. /\ old \in BackupCalls /\ BackupCallSound(old, made) /\ workFiles \in Archive
      /\ old.name <= made /\ old.undo <= made /\ old.rows \subseteq 1..made
      /\ NoFiles \in PartialArchive
  BY CallKnown, Partial
<1>1. UNCHANGED <<workFiles, archives, made, aged, discarded, backupView>>
  BY DEF BeginPacking, PackFile, RestoreUnpacked, backupStore
<1>2. ArchivesTyped /\ KeepsUndos
  BY <1>1, NothingTaken
<1>3. CASE BeginPacking(s)
  <2> DEFINE call == [old EXCEPT !.stage = "packing"]
  <2>1. /\ old.stage = "sent" /\ old.op \in {"create", "upload", "history"} /\ Proceeds(s, call)
        /\ MutexFree /\ made < MaxMade
    BY <1>3 DEF BeginPacking, Asked
  <2>2. /\ call \in BackupCalls /\ call.op = old.op /\ call.by = old.by /\ call.name = old.name
        /\ call.rows = old.rows /\ call.undo = old.undo /\ call.packed = old.packed
        /\ call.stage = "packing" /\ old.undo = 0
    BY <1>0, <2>1 DEF BackupCalls, BackupCallSound
  <2> HIDE DEF call
  <2> QED
    BY <1>0, <1>1, <1>2, <2>1, <2>2, ServeStepInv DEF NewUndo, KeepsMutex, Restores
<1>4. CASE PackFile(s)
  <2> DEFINE f == CHOOSE g \in BackupFiles \ DOMAIN old.packed : TRUE
             more == [g \in DOMAIN old.packed \cup {f} |-> IF g = f THEN workFiles[f] ELSE old.packed[g]]
             call == [old EXCEPT !.packed = more]
  <2>1. old.stage = "packing" /\ DOMAIN old.packed # BackupFiles /\ Proceeds(s, call)
    BY <1>4 DEF PackFile
  <2>2. PICK F \in SUBSET BackupFiles : old.packed \in [F -> Versions]
    BY <1>0 DEF BackupCalls, PartialArchive
  <2>3. f \in BackupFiles
    BY <2>1, <2>2
  <2>4. more \in [F \cup {f} -> Versions]
    BY <1>0, <2>2, <2>3 DEF Archive
  <2>5. more \in PartialArchive
    <3>1. F \cup {f} \in SUBSET BackupFiles
      BY <2>2, <2>3
    <3> HIDE DEF f, more
    <3> QED
      BY <2>4, <3>1 DEF PartialArchive
  <2> HIDE DEF f, more
  <2>6. /\ call \in BackupCalls /\ call.op = old.op /\ call.by = old.by /\ call.name = old.name
        /\ call.rows = old.rows /\ call.undo = old.undo /\ call.stage = "packing" /\ old.undo = 0
        /\ old.op \in Restores \cup {"create"}
    BY <1>0, <2>1, <2>5 DEF BackupCalls, BackupCallSound
  <2> HIDE DEF call
  <2> QED
    BY <1>0, <1>1, <1>2, <2>1, <2>6, ServeStepInv DEF NewUndo, KeepsMutex
<1>5. CASE RestoreUnpacked(s)
  <2> DEFINE call == [old EXCEPT !.stage = "writing", !.packed = NoFiles]
  <2>1. /\ old.stage \in {"sent", "packing"} /\ old.op \in {"upload", "history"} /\ Proceeds(s, call)
    BY <1>5 DEF RestoreUnpacked
  <2>2. /\ call \in BackupCalls /\ call.op = old.op /\ call.by = old.by /\ call.name = old.name
        /\ call.rows = old.rows /\ call.undo = old.undo /\ call.stage = "writing" /\ old.undo = 0
    BY <1>0, <2>1 DEF BackupCalls, BackupCallSound
  <2> HIDE DEF call
  <2> QED
    BY <1>0, <1>1, <1>2, <2>1, <2>2, ServeStepInv DEF NewUndo, KeepsMutex
<1> QED
  BY <1>3, <1>4, <1>5

LEMMA EndPackingInv ==
    ASSUME BackupsInv, NEW s \in BackupSlots, EndPacking(s)
    PROVE  BackupsInv'
<1> DEFINE old == backupCalls[s]
           n == made + 1
<1>0. /\ old \in BackupCalls /\ BackupCallSound(old, made) /\ workFiles \in Archive /\ made \in Nat
      /\ old.name \in Nat /\ old.name <= made /\ old.rows \subseteq 1..made
      /\ old.packed \in PartialArchive
  <2>1. backupCalls[s].packed \in PartialArchive
    BY CallKnown DEF BackupCalls
  <2> QED
    BY <2>1, CallKnown
<1>1. PICK F \in SUBSET BackupFiles :
         LET kept == Restrict(old.packed, F)
             all == [m \in DOMAIN archives \cup {n} |-> IF m = n THEN kept ELSE archives[m]]
         IN  /\ archives' = Restrict(all, Retained(all))
             /\ Proceeds(s, IF old.op = "create"
                            THEN [old EXCEPT !.stage = "served", !.name = n]
                            ELSE [old EXCEPT !.stage = "writing", !.packed = kept, !.undo = n])
  BY DEF EndPacking
<1> DEFINE kept == Restrict(old.packed, F)
           all == [m \in DOMAIN archives \cup {n} |-> IF m = n THEN kept ELSE archives[m]]
<1>2. /\ old.stage = "packing" /\ DOMAIN old.packed = BackupFiles /\ made' = n
      /\ UNCHANGED <<workFiles, aged, discarded, backupView>>
  BY DEF EndPacking
<1>3. kept \in PartialArchive
  BY <1>0, <1>2, Partial
<1>4. made < MaxMade /\ old.undo = 0 /\ old.op \in Restores \cup {"create"}
  BY <1>0, <1>2 DEF BackupsInv, PackingAlone, BackupCallSound
<1>5. /\ ArchivesTyped /\ KeepsUndos
      /\ aged' < made' => made' \in DOMAIN archives' /\ archives'[made'] = kept
  <2>1. archives' = Restrict(all, Retained(all))
    BY <1>1
  <2> HIDE DEF kept
  <2> QED
    BY <1>2, <1>3, <1>4, <2>1, MakesKeeps
<1>6. n \in BackupNames /\ 1..made \subseteq 1..n /\ old.name <= n /\ n \in Nat
  BY <1>0, <1>4, BackupAssumption DEF BackupNames
<1>7. CASE old.op = "create"
  <2> DEFINE call == [old EXCEPT !.stage = "served", !.name = n]
  <2>1. Proceeds(s, call)
    BY <1>1, <1>7
  <2>2. /\ call \in BackupCalls /\ call.op = old.op /\ call.by = old.by /\ call.name = n
        /\ call.rows = old.rows /\ call.undo = 0 /\ call.stage = "served"
    BY <1>0, <1>4, <1>6 DEF BackupCalls
  <2> HIDE DEF call, n, all, kept
  <2> QED
    BY <1>0, <1>2, <1>5, <1>6, <2>1, <2>2, ServeStepInv DEF NewUndo, KeepsMutex
<1>8. CASE old.op # "create"
  <2> DEFINE call == [old EXCEPT !.stage = "writing", !.packed = kept, !.undo = n]
  <2>1. Proceeds(s, call)
    BY <1>1, <1>8
  <2>2. /\ call \in BackupCalls /\ call.op = old.op /\ call.by = old.by /\ call.name = old.name
        /\ call.rows = old.rows /\ call.undo = n /\ call.stage = "writing" /\ call.packed = kept
    BY <1>0, <1>3, <1>6 DEF BackupCalls
  <2> HIDE DEF call, n, all, kept
  <2> QED
    BY <1>0, <1>2, <1>4, <1>5, <1>6, <1>8, <2>1, <2>2, ServeStepInv DEF NewUndo, KeepsMutex
<1> QED
  BY <1>7, <1>8

(***************************************************************************)
(* A restore opens its archive and writes the files.                       *)
(***************************************************************************)
LEMMA RestoreInv ==
    ASSUME BackupsInv, NEW s \in BackupSlots, OpenArchive(s) \/ WriteFile(s)
    PROVE  BackupsInv'
<1> DEFINE old == backupCalls[s]
<1>0. /\ old \in BackupCalls /\ BackupCallSound(old, made) /\ workFiles \in Archive
      /\ made \in Nat /\ 0 <= made /\ old.name <= made /\ old.undo <= made /\ old.rows \subseteq 1..made
      /\ \A n \in DOMAIN archives : archives[n] \in PartialArchive
  BY CallKnown
<1>1. CASE OpenArchive(s)
  <2> DEFINE call == [old EXCEPT !.op = "upload", !.name = 0, !.contents = archives[old.name]]
  <2>1. /\ old.op = "history" /\ old.stage = "writing" /\ old.name \in DOMAIN archives /\ Proceeds(s, call)
        /\ UNCHANGED <<workFiles, archives, made, aged, discarded, backupView>>
    BY <1>1 DEF OpenArchive, backupStore
  <2>2. ArchivesTyped /\ KeepsUndos
    BY <2>1, NothingTaken
  <2>3. archives[old.name] \in PartialArchive
    BY <1>0, <2>1
  <2>4. /\ call \in BackupCalls /\ call.op = "upload" /\ call.by = old.by /\ call.name = 0
        /\ call.rows = old.rows /\ call.undo = old.undo /\ call.packed = old.packed
        /\ call.stage = "writing"
    BY <1>0, <2>1, <2>3 DEF BackupCalls
  <2> HIDE DEF call
  <2> QED
    BY <1>0, <2>1, <2>2, <2>4, ServeStepInv DEF NewUndo, KeepsMutex, Restores
<1>2. CASE WriteFile(s)
  <2>1. PICK f \in DOMAIN old.contents :
           /\ workFiles' = [workFiles EXCEPT ![f] = old.contents[f]]
           /\ Proceeds(s, [old EXCEPT !.contents = Restrict(@, DOMAIN @ \ {f})])
    BY <1>2 DEF WriteFile
  <2> DEFINE call == [old EXCEPT !.contents = Restrict(@, DOMAIN @ \ {f})]
  <2>2. /\ old.op = "upload" /\ old.stage = "writing"
        /\ UNCHANGED <<archives, made, aged, discarded, backupView>>
    BY <1>2 DEF WriteFile
  <2>3. ArchivesTyped /\ KeepsUndos
    BY <2>2, NothingTaken
  <2>4. old.contents \in PartialArchive
    BY <1>0 DEF BackupCalls
  <2>5. /\ Restrict(old.contents, DOMAIN old.contents \ {f}) \in PartialArchive
        /\ f \in BackupFiles /\ old.contents[f] \in Versions
    BY <2>4, Partial
  <2>6. workFiles' \in Archive
    BY <1>0, <2>1, <2>5 DEF Archive
  <2>7. /\ call \in BackupCalls /\ call.op = "upload" /\ call.by = old.by /\ call.name = old.name
        /\ call.rows = old.rows /\ call.undo = old.undo /\ call.packed = old.packed
        /\ call.stage = "writing"
    BY <1>0, <2>2, <2>5 DEF BackupCalls
  <2>8. Proceeds(s, call)
    BY <2>1
  <2> HIDE DEF call
  <2> QED
    BY <1>0, <2>2, <2>3, <2>6, <2>7, <2>8, ServeStepInv DEF NewUndo, KeepsMutex, Restores
<1> QED
  BY <1>1, <1>2

-----------------------------------------------------------------------------
(***************************************************************************)
(* Answers                                                                 *)
(***************************************************************************)
LEMMA AnsweredInv ==
    ASSUME BackupsInv, NEW s \in BackupSlots,
           NEW op \in {"none", "download", "list"}, NEW name \in {0} \cup BackupNames, name <= made,
           NEW by, by = IF op = "none" THEN "none" ELSE backupCalls[s].by,
           NEW call, SentAs(call, op, by, name), Proceeds(s, call),
           FlagsFollow(call, backupCalls[s]), FlagsTyped', ConfirmTyped',
           UNCHANGED backupStore, history' \subseteq 1..made
    PROVE  BackupsInv'
<1>1. UNCHANGED <<workFiles, archives, made, aged, discarded>> /\ made \in Nat /\ workFiles \in Archive
  BY ConfirmKept DEF backupStore
<1>2. ArchivesTyped /\ KeepsUndos
  BY <1>1, NothingTaken
<1>3. /\ call \in BackupCalls /\ BackupCallSound(call, made') /\ call.undo = 0 /\ call.stage = "sent"
      /\ call.op = op /\ call.by = by
  BY <1>1, FreshSound DEF Restores
<1> QED
  BY <1>1, <1>2, <1>3, BackupStep DEF NewUndo, KeepsMutex

LEMMA AnswersInv ==
    ASSUME BackupsInv, NEW s \in BackupSlots,
           BackupCreated(s) \/ BackupDone(s) \/ HistoryAnswered(s) \/ BackupCallFails(s)
    PROVE  BackupsInv'
<1> DEFINE old == backupCalls[s]
           Listing == [NoBackupCall EXCEPT !.op = "list", !.by = old.by, !.name = 0]
<1>0. /\ old \in BackupCalls /\ old.by \in Handlers /\ old.name \in {0} \cup BackupNames
      /\ old.name <= made /\ 0 <= made /\ FlagsTyped /\ ConfirmTyped /\ history \subseteq 1..made
      /\ made \in Nat /\ 0 \in {0} \cup BackupNames
  <2>1. old \in BackupCalls /\ BackupCallSound(old, made)
    BY DEF BackupsInv, BackupTypeOK, BackupCallsSound
  <2> QED
    BY <2>1, ConfirmKept DEF BackupCallSound, BackupCalls
<1>1. SentAs(NoBackupCall, "none", "none", 0)
  BY <1>0, FreshCalls DEF Handlers
<1>2. SentAs(Listing, "list", old.by, 0)
  BY <1>0, FreshCalls
<1>3. CASE BackupCreated(s)
  <2> DEFINE call == [NoBackupCall EXCEPT !.op = "download", !.by = old.by, !.name = old.name]
  <2>1. SentAs(call, "download", old.by, old.name)
    BY <1>0, FreshCalls
  <2>2. old.op = "create" /\ Proceeds(s, call) /\ UNCHANGED <<backupStore, backupView>>
    BY <1>3 DEF BackupCreated, Received, Continues
  <2> HIDE DEF call
  <2>3. UNCHANGED <<made, history, confirmMode, historyLoading, createLoading, restoreLoading, retentionLoading>>
    BY <2>2 DEF backupView, backupStore
  <2>4. FlagsTyped' /\ ConfirmTyped' /\ history' \subseteq 1..made
    BY <1>0, <2>3 DEF FlagsTyped, ConfirmTyped
  <2>5. FlagsFollow(call, old)
    BY <2>1, <2>2, <2>3 DEF FlagsFollow, SentAs
  <2> QED
    BY <1>0, <2>1, <2>2, <2>4, <2>5, AnsweredInv
<1>4. CASE BackupDone(s) /\ old.by = "history"
  <2>1. /\ old.op # "list" /\ Proceeds(s, NoBackupCall) /\ Finally("history")
        /\ UNCHANGED <<historyLoading, backupStore, history, made>>
    BY <1>4 DEF BackupDone, Received, backupStore
  <2>2. /\ createLoading' = createLoading /\ retentionLoading' = retentionLoading
        /\ restoreLoading' = FALSE /\ confirmMode' = NoConfirm
    <3>1. FlagsTyped
      BY <1>0
    <3> QED
      BY <2>1, <3>1 DEF Finally, FlagsTyped
  <2>3. FlagsTyped' /\ ConfirmTyped' /\ history' \subseteq 1..made
    BY <1>0, <2>1, <2>2, NoConfirmTyped DEF FlagsTyped
  <2>4. FlagsFollow(NoBackupCall, old)
    BY <1>1, <1>4, <2>1, <2>2 DEF FlagsFollow, SentAs, Restores
  <2> QED
    BY <1>0, <1>1, <2>1, <2>3, <2>4, AnsweredInv
<1>5. CASE BackupDone(s) /\ old.by # "history"
  <2>1. /\ Proceeds(s, Listing) /\ historyLoading' = TRUE
        /\ UNCHANGED <<confirmMode, createLoading, restoreLoading, retentionLoading, backupStore, history, made>>
    BY <1>5 DEF BackupDone, Continues, backupStore
  <2> HIDE DEF Listing
  <2>2. FlagsTyped' /\ ConfirmTyped' /\ history' \subseteq 1..made
    BY <1>0, <2>1 DEF FlagsTyped, ConfirmTyped
  <2>3. FlagsFollow(Listing, old)
    BY <1>2, <2>1 DEF FlagsFollow, SentAs
  <2> QED
    BY <1>0, <1>2, <2>1, <2>2, <2>3, AnsweredInv
<1>6. CASE HistoryAnswered(s) \/ BackupCallFails(s)
  <2>1. /\ Proceeds(s, NoBackupCall) /\ Finally(old.by) /\ UNCHANGED <<backupStore, made>>
        /\ historyLoading' = FALSE \/ (historyLoading' = historyLoading /\ old.op # "list")
        /\ history' = {} \/ history' = history \/ history' = old.rows
    BY <1>6 DEF HistoryAnswered, BackupCallFails, backupStore
  <2>2. history' \subseteq 1..made
    BY <1>0, <2>1 DEF BackupsInv, BackupCallsSound, BackupCallSound
  <2>3. ConfirmTyped'
    BY <1>0, <2>1, NoConfirmTyped DEF Finally, ConfirmTyped
  <2>4. FlagsTyped'
    <3>1. {createLoading', retentionLoading', restoreLoading'} \subseteq BOOLEAN
      BY <1>0, <2>1 DEF Finally
    <3>2. historyLoading' \in BOOLEAN
      BY <1>0, <2>1 DEF FlagsTyped
    <3> QED
      BY <3>1, <3>2 DEF FlagsTyped
  <2>5. FlagsFollow(NoBackupCall, old)
    <3>1. historyLoading' => historyLoading /\ old.op # "list"
      BY <1>0, <2>1
    <3>2. /\ createLoading' => createLoading /\ old.by # "create"
          /\ retentionLoading' => retentionLoading /\ old.by # "retention"
          /\ restoreLoading' <=> restoreLoading /\ old.by \notin Restores
      BY <2>1 DEF Finally, Restores
    <3>3. NoBackupCall.by \notin Restores
      BY <1>1 DEF SentAs, Restores
    <3> QED
      BY <3>1, <3>2, <3>3, Zenon DEF FlagsFollow
  <2> QED
    BY <1>0, <1>1, <2>1, <2>2, <2>3, <2>4, <2>5, AnsweredInv
<1> QED
  BY <1>3, <1>4, <1>5, <1>6

-----------------------------------------------------------------------------
LEMMA BackupsStart == BackupInit => BackupsInv
<1> SUFFICES ASSUME BackupInit PROVE BackupsInv
  OBVIOUS
<1>0. 1 \in BackupNames /\ 0 \in {0} \cup BackupNames /\ NoFiles \in PartialArchive
  BY BackupAssumption, Partial DEF BackupNames
<1>1. NoBackupCall \in BackupCalls /\ \A s \in BackupSlots : backupCalls[s] = NoBackupCall
  BY <1>0 DEF BackupInit, NoBackupCall, BackupCalls, Handlers
<1>2. /\ NoBackupCall.op = "none" /\ NoBackupCall.by = "none" /\ NoBackupCall.name = 0
      /\ NoBackupCall.undo = 0 /\ NoBackupCall.rows = {} /\ NoBackupCall.stage = "sent"
  BY DEF NoBackupCall
<1>3. BackupTypeOK
  <2>1. backupCalls \in [BackupSlots -> BackupCalls]
    BY <1>1 DEF BackupInit
  <2>2. confirmMode \in [mode : {"none", "upload", "history", "delete"}, name : {0} \cup BackupNames]
    BY <1>0 DEF BackupInit, NoConfirm
  <2>3. /\ made = 1 /\ aged = 0 /\ discarded = {} /\ history = {1} /\ workFiles \in Archive
        /\ archives \in [{1} -> PartialArchive]
    BY Partial DEF BackupInit
  <2>4. {historyLoading, createLoading, restoreLoading, retentionLoading} \subseteq BOOLEAN
    BY DEF BackupInit
  <2>5. /\ made \in {0} \cup BackupNames /\ aged \in 0..made /\ history \subseteq BackupNames
        /\ DOMAIN archives \subseteq 1..made /\ \A n \in DOMAIN archives : archives[n] \in PartialArchive
        /\ discarded \subseteq BackupNames
    BY <1>0, <2>3
  <2> QED
    BY <2>1, <2>2, <2>3, <2>4, <2>5 DEF BackupTypeOK
<1>4. NamesMade /\ BackupCallsSound
  BY <1>1, <1>2 DEF NamesMade, BackupInit, NoConfirm, BackupCallsSound, BackupCallSound, Restores
<1>5. PackingAlone /\ BackupFlagsHeld /\ RestoreCanBeUndone
  BY <1>1, <1>2 DEF PackingAlone, BackupFlagsHeld, RestoreCanBeUndone, BackupInit
<1> QED
  BY <1>3, <1>4, <1>5 DEF BackupsInv

LEMMA BackupsKept == BackupsInv /\ [BackupNext]_backupVars => BackupsInv'
<1> SUFFICES ASSUME BackupsInv, [BackupNext]_backupVars PROVE BackupsInv'
  OBVIOUS
<1>1. ASSUME \/ CancelConfirm \/ DaysPass \/ ElsewhereFiles \/ UNCHANGED backupVars
             \/ \E mode \in {"upload", "history", "delete"}, n \in {0} \cup BackupNames :
                   AskToConfirm(mode, n)
      PROVE  BackupsInv'
  BY <1>1, ConfirmInv
<1>2. ASSUME NEW s \in BackupSlots,
             \/ RefreshHistory(s) \/ HandleCreateBackup(s) \/ HandleApplyRetention(s)
             \/ \E upload \in Uploads \cup {NoFiles} : ConfirmRestore(s, upload)
             \/ ConfirmDeleteBackup(s)
      PROVE  BackupsInv'
  <2>1. ASSUME NEW upload \in Uploads \cup {NoFiles}, ConfirmRestore(s, upload) PROVE BackupsInv'
    BY <2>1, SendInv
  <2>2. ASSUME RefreshHistory(s) \/ HandleCreateBackup(s) \/ HandleApplyRetention(s) \/ ConfirmDeleteBackup(s)
        PROVE  BackupsInv'
    BY <2>2, SendInv
  <2> QED
    BY <1>2, <2>1, <2>2
<1>3. ASSUME NEW s \in BackupSlots,
             \/ ServeHistory(s) \/ ServeDownload(s) \/ ServeDeleteBackup(s) \/ ServeRetention(s) \/ EndWriting(s)
      PROVE  BackupsInv'
  BY <1>3, ServeInv
<1>4. ASSUME NEW s \in BackupSlots,
             \/ BeginPacking(s) \/ PackFile(s) \/ EndPacking(s) \/ RestoreUnpacked(s)
             \/ OpenArchive(s) \/ WriteFile(s)
      PROVE  BackupsInv'
  BY <1>4, PackInv, EndPackingInv, RestoreInv
<1>5. ASSUME NEW s \in BackupSlots,
             BackupCreated(s) \/ BackupDone(s) \/ HistoryAnswered(s) \/ BackupCallFails(s)
      PROVE  BackupsInv'
  BY <1>5, AnswersInv
<1> QED
  BY <1>1, <1>2, <1>3, <1>4, <1>5 DEF BackupNext

LEMMA BackupsRest == BackupsInv => BackupsComeToRest
<1> SUFFICES ASSUME BackupsInv, BackupsQuiet PROVE BackupsComeToRest
  BY DEF BackupsComeToRest
<1>1. \A s \in BackupSlots : backupCalls[s].op = "none" /\ backupCalls[s].by = "none"
  BY DEF BackupsQuiet, Vacant, BackupsInv, BackupCallsSound, BackupCallSound
<1> QED
  BY <1>1 DEF BackupsInv, BackupFlagsHeld, BackupsComeToRest, Restores

LEMMA BackupsInvariant == BackupSpec => []BackupsInv
BY BackupsStart, BackupsKept, PTL DEF BackupSpec

-----------------------------------------------------------------------------
(***************************************************************************)
(* Connections                                                             *)
(***************************************************************************)
USE ConnectionsAssumption DEF ConnectionsAssumption

(***************************************************************************)
(* What is shown as loading or held has a call under way that ends it.     *)
(***************************************************************************)
ConnCallSound(call) ==
    /\ call.op = "none" => call.conn = NoConn
    /\ call.op = "close" => call.conn # NoConn

ConnCallsSound == \A s \in ConnSlots : ConnCallSound(connCalls[s])

ConnFlagsHeld ==
    /\ loadingConns => \E s \in ConnSlots : connCalls[s].op = "init"
    /\ refreshingConns => \E s \in ConnSlots : connCalls[s].op = "refresh"
    /\ closing # NoConn => \E s \in ConnSlots : connCalls[s].conn # NoConn

ConnsInv == ConnectionsTypeOK /\ ConnCallsSound /\ ConnFlagsHeld

-----------------------------------------------------------------------------
LEMMA NoConnCallTyped ==
    NoConnCall \in ConnCalls /\ NoConnCall.op = "none" /\ NoConnCall.conn = NoConn /\ NoConnCall.list = {}
  BY DEF NoConnCall, ConnCalls, OptionalConn

LEMMA SentTyped ==
    ASSUME NEW op \in {"init", "refresh", "close"}, NEW c \in OptionalConn
    PROVE  LET call == [NoConnCall EXCEPT !.op = op, !.conn = c]
           IN  /\ call \in ConnCalls /\ call.op = op /\ call.conn = c
               /\ call.list = {} /\ ~call.served
  BY DEF NoConnCall, ConnCalls

LEMMA LoadTyped ==
    ASSUME NEW op \in {"init", "refresh"}
    PROVE  LET call == [NoConnCall EXCEPT !.op = op]
           IN  /\ call \in ConnCalls /\ call.op = op /\ call.conn = NoConn
               /\ call.list = {} /\ ~call.served
  BY DEF NoConnCall, ConnCalls, OptionalConn

LEMMA SlotHolds ==
    ASSUME ConnectionsTypeOK, NEW s \in ConnSlots, NEW call \in ConnCalls, ConnSend(s, call)
    PROVE  /\ connCalls' \in [ConnSlots -> ConnCalls] /\ connCalls'[s] = call
           /\ \A t \in ConnSlots : t # s => connCalls'[t] = connCalls[t]
  <1>1. connCalls \in [ConnSlots -> ConnCalls] /\ connCalls' = [connCalls EXCEPT ![s] = call]
    BY DEF ConnectionsTypeOK, ConnSend
  <1> HIDE DEF ConnCalls
  <1> QED BY <1>1

LEMMA ConnSlotStep ==
    ASSUME ConnsInv, NEW s \in ConnSlots, NEW call \in ConnCalls, ConnSend(s, call), ConnCallSound(call),
           loadingConns' => call.op = "init" \/ (loadingConns /\ connCalls[s].op # "init"),
           refreshingConns' => call.op = "refresh" \/ (refreshingConns /\ connCalls[s].op # "refresh"),
           closing' # NoConn => call.conn # NoConn \/ (closing # NoConn /\ connCalls[s].conn = NoConn),
           openConns' \subseteq Conns, gone' \subseteq Conns, openConns' \cap gone' = {},
           connRows' \subseteq Conns,
           snapshot' \in BOOLEAN, connError' \in BOOLEAN,
           loadingConns' \in BOOLEAN, refreshingConns' \in BOOLEAN,
           {selectedConn', closeTarget', closing'} \subseteq OptionalConn
    PROVE  ConnsInv'
  <1>1. /\ connCalls' \in [ConnSlots -> ConnCalls] /\ connCalls'[s] = call
        /\ \A t \in ConnSlots : t # s => connCalls'[t] = connCalls[t]
    BY SlotHolds DEF ConnsInv
  <1>2. ConnectionsTypeOK'
    BY <1>1 DEF ConnectionsTypeOK
  <1>3. ConnCallsSound' /\ ConnFlagsHeld'
    BY <1>1 DEF ConnsInv, ConnCallsSound, ConnFlagsHeld
  <1> QED BY <1>2, <1>3 DEF ConnsInv

LEMMA ConnViewStep ==
    ASSUME ConnsInv, \/ (\E c \in Conns : SelectConn(c) \/ AskClose(c)) \/ CancelClose \/ CoreConnections
                     \/ UNCHANGED connVars
    PROVE  ConnsInv'
  <1>1. UNCHANGED <<connRows, snapshot, connError, loadingConns, refreshingConns, closing, connCalls>>
    BY DEF SelectConn, AskClose, CancelClose, CoreConnections, connVars, connView
  <1>2. openConns' \subseteq Conns /\ gone' \subseteq Conns /\ openConns' \cap gone' = {}
    BY DEF SelectConn, AskClose, CancelClose, CoreConnections, connVars, ConnsInv, ConnectionsTypeOK
  <1>3. selectedConn' \in OptionalConn /\ closeTarget' \in OptionalConn
    BY DEF SelectConn, AskClose, CancelClose, CoreConnections, connVars, connView,
           ConnsInv, ConnectionsTypeOK, OptionalConn
  <1> QED BY <1>1, <1>2, <1>3 DEF ConnsInv, ConnectionsTypeOK, ConnCallsSound, ConnFlagsHeld

LEMMA ConnInputStep ==
    ASSUME ConnsInv, NEW s \in ConnSlots, RefreshConns(s) \/ ConfirmClose(s)
    PROVE  ConnsInv'
  <1>0. ConnectionsTypeOK /\ connCalls[s].conn = NoConn /\ connCalls[s].op = "none"
    BY DEF ConnsInv, ConnCallsSound, ConnCallSound, RefreshConns, ConfirmClose, ConnFree
  <1>1. CASE RefreshConns(s)
    <2> DEFINE call == [NoConnCall EXCEPT !.op = "refresh"]
    <2>1. /\ call \in ConnCalls /\ call.op = "refresh" /\ call.conn = NoConn
          /\ call.list = {} /\ ~call.served
      BY LoadTyped
    <2>2. /\ ConnSend(s, call) /\ refreshingConns' = TRUE
          /\ UNCHANGED <<openConns, gone, connRows, snapshot, connError, loadingConns, selectedConn,
                         closeTarget, closing>>
      BY <1>1 DEF RefreshConns
    <2> HIDE DEF call
    <2> QED BY <1>0, <2>1, <2>2, ConnSlotStep DEF ConnCallSound, ConnectionsTypeOK
  <1>2. CASE ConfirmClose(s)
    <2> DEFINE call == [NoConnCall EXCEPT !.op = "close", !.conn = closeTarget]
    <2>1. closeTarget \in OptionalConn /\ closeTarget # NoConn
      BY <1>0, <1>2 DEF ConfirmClose, ConnectionsTypeOK
    <2>2. /\ call \in ConnCalls /\ call.op = "close" /\ call.conn = closeTarget
          /\ call.list = {} /\ ~call.served
      BY <2>1, SentTyped
    <2>3. /\ ConnSend(s, call) /\ closing' = closeTarget
          /\ UNCHANGED <<openConns, gone, connRows, snapshot, connError, loadingConns,
                         refreshingConns, selectedConn, closeTarget>>
      BY <1>2 DEF ConfirmClose
    <2> HIDE DEF call
    <2> QED BY <1>0, <2>1, <2>2, <2>3, ConnSlotStep DEF ConnCallSound, ConnectionsTypeOK
  <1> QED BY <1>1, <1>2

LEMMA ConnServeStep ==
    ASSUME ConnsInv, NEW s \in ConnSlots, ServeConns(s)
    PROVE  ConnsInv'
  <1> DEFINE old == connCalls[s]
             list == IF old.op = "close" THEN {} ELSE openConns
             call == [old EXCEPT !.served = TRUE, !.list = list]
  <1>1. old \in ConnCalls /\ ConnCallSound(old) /\ ConnectionsTypeOK /\ list \subseteq Conns
    BY DEF ConnsInv, ConnectionsTypeOK, ConnCallsSound
  <1>2. ConnSend(s, call) /\ UNCHANGED connView
    BY DEF ServeConns
  <1>3. openConns' \subseteq Conns /\ gone' \subseteq Conns /\ openConns' \cap gone' = {}
    BY <1>1 DEF ServeConns, ConnectionsTypeOK
  <1>4. call \in ConnCalls /\ call.op = old.op /\ call.conn = old.conn
    BY <1>1 DEF ConnCalls
  <1> HIDE DEF call
  <1>5. UNCHANGED <<connRows, snapshot, connError, loadingConns, refreshingConns, selectedConn,
                    closeTarget, closing>>
    BY <1>2 DEF connView
  <1> QED BY <1>1, <1>2, <1>3, <1>4, <1>5, ConnSlotStep DEF ConnCallSound, ConnectionsTypeOK

LEMMA ConnAnswerStep ==
    ASSUME ConnsInv, NEW s \in ConnSlots,
           ConnsLoaded(s) \/ ConnsLoadFails(s) \/ ConnClosed(s) \/ ConnCloseFails(s)
    PROVE  ConnsInv'
  <1> DEFINE old == connCalls[s]
  <1>0. old \in ConnCalls /\ ConnCallSound(old) /\ ConnectionsTypeOK
    BY DEF ConnsInv, ConnectionsTypeOK, ConnCallsSound
  <1>1. CASE ConnsLoaded(s) \/ ConnsLoadFails(s)
    <2>1. /\ ConnSend(s, NoConnCall)
          /\ loadingConns' = (loadingConns /\ old.op # "init")
          /\ refreshingConns' = (refreshingConns /\ old.op # "refresh")
          /\ closing' = IF old.conn # NoConn THEN NoConn ELSE closing
          /\ UNCHANGED <<openConns, gone, selectedConn, closeTarget>>
      BY <1>1 DEF ConnsLoaded, ConnsLoadFails, LoadOver
    <2>2. connRows' \subseteq Conns /\ snapshot' \in BOOLEAN /\ connError' \in BOOLEAN
      BY <1>0, <1>1 DEF ConnsLoaded, ConnsLoadFails, ConnectionsTypeOK, ConnCalls
    <2> QED BY <1>0, <2>1, <2>2, NoConnCallTyped, ConnSlotStep DEF ConnCallSound, ConnectionsTypeOK, OptionalConn
  <1>2. CASE ConnClosed(s)
    <2> DEFINE c == old.conn
               call == [NoConnCall EXCEPT !.op = "refresh", !.conn = c]
    <2>1. old.op = "close" /\ c \in Conns
      BY <1>0, <1>2 DEF ConnClosed, ConnServed, ConnCallSound, ConnCalls, OptionalConn
    <2>2. /\ call \in ConnCalls /\ call.op = "refresh" /\ call.conn = c
          /\ call.list = {} /\ ~call.served
      BY <2>1, SentTyped DEF OptionalConn
    <2>3. /\ ConnSend(s, call) /\ closeTarget' = NoConn
          /\ selectedConn' = IF selectedConn = c THEN NoConn ELSE selectedConn
          /\ refreshingConns' = TRUE
          /\ UNCHANGED <<openConns, gone, connRows, snapshot, connError, loadingConns, closing>>
      BY <1>2 DEF ConnClosed
    <2> HIDE DEF call
    <2> QED BY <1>0, <2>1, <2>2, <2>3, ConnSlotStep DEF ConnCallSound, ConnectionsTypeOK, OptionalConn
  <1>3. CASE ConnCloseFails(s)
    BY <1>0, <1>3, NoConnCallTyped, ConnSlotStep
       DEF ConnCloseFails, ConnCallSound, ConnectionsTypeOK, OptionalConn
  <1> QED BY <1>1, <1>2, <1>3

LEMMA ConnectionsBegin ==
    ASSUME ConnectionsInit \/ ConnectionsAbsent
    PROVE  ConnsInv
  <1>1. PICK loading \in SUBSET ConnSlots :
           /\ ConnectionsStart(loading) /\ openConns \in SUBSET Conns
           /\ \A s, t \in loading : s = t
    <2>1. CASE ConnectionsAbsent
      <3>1. {} \in SUBSET ConnSlots /\ ConnectionsStart({}) /\ openConns \in SUBSET Conns
        BY <2>1 DEF ConnectionsAbsent
      <3> QED BY <3>1
    <2>2. CASE ConnectionsInit
      <3>1. PICK s \in ConnSlots : ConnectionsStart({s})
        BY <2>2 DEF ConnectionsInit
      <3>2. {s} \in SUBSET ConnSlots /\ openConns \in SUBSET Conns
        BY <2>2 DEF ConnectionsInit
      <3> QED BY <3>1, <3>2
    <2> QED BY <2>1, <2>2
  <1> DEFINE first == [NoConnCall EXCEPT !.op = "init"]
  <1>2. /\ first \in ConnCalls /\ first.conn = NoConn /\ first.list = {} /\ ~first.served
        /\ first.op = "init"
    BY LoadTyped
  <1>3. connCalls = [t \in ConnSlots |-> IF t \in loading THEN first ELSE NoConnCall]
    BY <1>1 DEF ConnectionsStart
  <1> HIDE DEF first
  <1>4. connCalls \in [ConnSlots -> ConnCalls]
    BY <1>2, <1>3, NoConnCallTyped
  <1>5. \A t \in ConnSlots : connCalls[t] = IF t \in loading THEN first ELSE NoConnCall
    BY <1>3
  <1>6. ConnectionsTypeOK
    BY <1>1, <1>4 DEF ConnectionsStart, ConnectionsTypeOK, OptionalConn
  <1>7. ConnCallsSound /\ ConnFlagsHeld
    BY <1>1, <1>2, <1>5, NoConnCallTyped DEF ConnCallsSound, ConnCallSound, ConnFlagsHeld, ConnectionsStart
  <1> QED BY <1>6, <1>7 DEF ConnsInv

LEMMA ConnectionsStep == ConnsInv /\ [ConnectionsNext]_connVars => ConnsInv'
  BY ConnViewStep, ConnInputStep, ConnServeStep, ConnAnswerStep DEF ConnectionsNext

LEMMA ConnectionsInvariant == ConnectionsSpec => []ConnsInv
  <1>1. ConnectionsInit => ConnsInv
    BY ConnectionsBegin
  <1> QED BY <1>1, ConnectionsStep, PTL DEF ConnectionsSpec

LEMMA ConnectionsRest == ConnsInv => ConnectionsComeToRest
  BY DEF ConnsInv, ConnCallsSound, ConnCallSound, ConnFlagsHeld, ConnectionsComeToRest,
         ConnsQuiet, ConnFree

-----------------------------------------------------------------------------
(***************************************************************************)
(* Theorems                                                                *)
(***************************************************************************)
(***************************************************************************)
(* Every variable of the Providers page (providers/page.tsx) has its type. *)
(***************************************************************************)
THEOREM ProvidersTypes == ProvidersSpec => []ProvidersTypeOK
<1>1. ProvidersInv => ProvidersTypeOK
  BY DEF ProvidersInv
<1> QED
  BY <1>1, ProvidersInvariant, PTL

(***************************************************************************)
(* All handlers of the Providers page share one busyAction; whatever fails *)
(* and in whatever order they end, it is clear when they have ended.       *)
(***************************************************************************)
THEOREM ProvidersAreReleased == ProvidersSpec => []ProvidersComeToRest
<1>1. ProvidersInv => ProvidersComeToRest
  BY ProvidersRest
<1> QED
  BY <1>1, ProvidersInvariant, PTL

LEMMA TestsInvariant == UnlockTestSpec => []TestsInv
<1>1. UnlockTestInit => TestsInv
  BY TestsStart
<1> QED
  BY <1>1, TestsStep, PTL DEF UnlockTestSpec

(***************************************************************************)
(* Every variable of the unlock test, page and service                     *)
(* (unlocktest/service.go), has its type.                                  *)
(***************************************************************************)
THEOREM UnlockTestTypes == UnlockTestSpec => []UnlockTestTypeOK
<1>1. TestsInv => UnlockTestTypeOK
  BY DEF TestsInv
<1> QED
  BY <1>1, TestsInvariant, PTL

\* No button of the unlock test stays held, and no target is shown as being
\* tested, once its calls are over (unlock-test/page.tsx).
THEOREM TestsAreReleased == UnlockTestSpec => []TestsComeToRest
<1>1. TestsInv => TestsComeToRest
  BY TestsRest
<1> QED
  BY <1>1, TestsInvariant, PTL

\* Every variable of the backups (service/backup/service.go) and of their page
\* has its type.
THEOREM BackupTypes == BackupSpec => []BackupTypeOK
<1>1. BackupsInv => BackupTypeOK
  BY DEF BackupsInv
<1> QED
  BY <1>1, BackupsInvariant, PTL

(***************************************************************************)
(* While a restore overwrites the files, what its own backup has packed is *)
(* among the backups: neither the retention that it ends with              *)
(* (applyRetentionLocked) nor a backup, a restore or a deletion of another *)
(* beside it takes it away, until it is too old or MaxBackups later ones   *)
(* push it out.                                                            *)
(***************************************************************************)
THEOREM RestoresCanBeUndone == BackupSpec => []RestoreCanBeUndone
<1>1. BackupsInv => RestoreCanBeUndone
  BY DEF BackupsInv
<1> QED
  BY <1>1, BackupsInvariant, PTL

\* Each handler's finally of backup/page.tsx ends what the handler began, though
\* a list or a dialog may have two handlers.
THEOREM BackupsAreReleased == BackupSpec => []BackupsComeToRest
<1>1. BackupsInv => BackupsComeToRest
  BY BackupsRest
<1> QED
  BY <1>1, BackupsInvariant, PTL

\* Every variable of the Connections page has its type.
THEOREM ConnectionsTypes == ConnectionsSpec => []ConnectionsTypeOK
<1>1. ConnsInv => ConnectionsTypeOK
  BY DEF ConnsInv
<1> QED
  BY <1>1, ConnectionsInvariant, PTL

\* Nothing of the Connections page stays held once its calls are over, though a
\* close goes on with a load and two loads may be under way.
THEOREM ConnectionsAreReleased == ConnectionsSpec => []ConnectionsComeToRest
<1>1. ConnsInv => ConnectionsComeToRest
  BY ConnectionsRest
<1> QED
  BY <1>1, ConnectionsInvariant, PTL

=============================================================================
