----------------------------- MODULE CoreStatus -----------------------------
(***************************************************************************)
(* What the web interface shows of the core and how it drives it: the hook *)
(* useMihomoStatus (src/web/src/hooks/use-mihomo-status.ts), which the     *)
(* frame around all pages (components/layout/shell.tsx) and a page         *)
(* (app/mihomo/page.tsx, app/page.tsx) use each for itself, and the        *)
(* buttons of the Mihomo page.  The core is what Lifecycle models; of it   *)
(* only whether it runs is kept.                                           *)
(***************************************************************************)
EXTENDS Naturals

CONSTANTS
    Hooks, ShellHook,   \* the uses of the hook; ShellHook is the frame's
    PollSlots,          \* polls of one hook under way at once
    MaxStatusInputs,    \* bound on the buttons pressed
    MaxStatusMishaps    \* bound on failures, exits of the core and other windows

ASSUME StatusAssumption ==
    ShellHook \in Hooks /\ MaxStatusInputs \in Nat /\ MaxStatusMishaps \in Nat

VARIABLES
    coreRuns,
    coreChanges,     \* how often it changed since the page was opened
    polling,         \* the hooks whose interval runs
    shown,           \* status.running, for each hook
    statusError, statusLoading,
    lastGoodStatus,  \* the frame's: none or the last one without error
    polls,
    actionLoading,   \* the button pressed
    actionStage,     \* of its call
    refetches,       \* timers that will fetch a second after an action
    statusInputs, statusMishaps

statusView == <<polling, shown, statusError, statusLoading, lastGoodStatus>>
actionVars == <<actionLoading, actionStage, refetches>>
coreVars == <<coreRuns, coreChanges>>
statusVars == <<coreVars, statusView, polls, actionVars, statusInputs, statusMishaps>>

NoPoll == [stage |-> "none", running |-> FALSE]

CoreActions == {"start", "stop", "restart"}

StatusTypeOK ==
    /\ coreRuns \in BOOLEAN /\ coreChanges \in Nat
    /\ polling \subseteq Hooks
    /\ shown \in [Hooks -> BOOLEAN]
    /\ statusError \in [Hooks -> BOOLEAN] /\ statusLoading \in [Hooks -> BOOLEAN]
    /\ lastGoodStatus \in {{}, {TRUE}, {FALSE}}
    /\ polls \in [Hooks \X PollSlots -> [stage : {"none", "sent", "served"}, running : BOOLEAN]]
    /\ actionLoading \in {"none"} \cup CoreActions
    /\ actionStage \in {"none", "sent", "stopped", "started", "done", "failed"}
    /\ refetches \in Nat

-----------------------------------------------------------------------------
StatusInput == /\ statusInputs < MaxStatusInputs /\ statusInputs' = statusInputs + 1
               /\ UNCHANGED statusMishaps

StatusMishap == /\ statusMishaps < MaxStatusMishaps /\ statusMishaps' = statusMishaps + 1
                /\ UNCHANGED statusInputs

NoStatusInput == UNCHANGED <<statusInputs, statusMishaps>>

CoreBecomes(runs) ==
    /\ coreRuns' = runs
    /\ coreChanges' = IF runs # coreRuns THEN coreChanges + 1 ELSE coreChanges

PollBecomes(h, k, poll) == polls' = [polls EXCEPT ![<<h, k>>] = poll]

-----------------------------------------------------------------------------
(***************************************************************************)
(* Polls                                                                   *)
(***************************************************************************)
\* The first fetch, the interval, refetch: whether another is under way or not.
Fetch(h, k) == /\ h \in polling /\ polls[<<h, k>>].stage = "none"
               /\ PollBecomes(h, k, [NoPoll EXCEPT !.stage = "sent"])

Tick(h, k) ==
    /\ Fetch(h, k)
    /\ NoStatusInput /\ UNCHANGED <<coreVars, statusView, actionVars>>

\* A second after an action the page that made it fetches.
Refetch(h, k) ==
    /\ refetches > 0 /\ refetches' = refetches - 1 /\ h # ShellHook
    /\ Fetch(h, k)
    /\ NoStatusInput /\ UNCHANGED <<coreVars, statusView, actionLoading, actionStage>>

ServePoll(h, k) ==
    /\ polls[<<h, k>>].stage = "sent"
    /\ PollBecomes(h, k, [stage |-> "served", running |-> coreRuns])
    /\ NoStatusInput /\ UNCHANGED <<coreVars, statusView, actionVars>>

\* What the hook sets, and the frame's effect on it; nothing of a page that is left.
Shows(h, running, error) ==
    IF h \in polling
    THEN /\ shown' = [shown EXCEPT ![h] = running]
         /\ statusError' = [statusError EXCEPT ![h] = error]
         /\ statusLoading' = [statusLoading EXCEPT ![h] = FALSE]
         /\ lastGoodStatus' = IF h = ShellHook /\ ~error THEN {running} ELSE lastGoodStatus
    ELSE UNCHANGED <<shown, statusError, statusLoading, lastGoodStatus>>

\* Mutant: an error once shown stays.
PollAnsweredKeepsError(h, k) ==
    /\ polls[<<h, k>>].stage = "served"
    /\ PollBecomes(h, k, NoPoll)
    /\ Shows(h, polls[<<h, k>>].running, statusError[h])
    /\ NoStatusInput /\ UNCHANGED <<coreVars, polling, actionVars>>

PollAnswered(h, k) ==
    /\ polls[<<h, k>>].stage = "served"
    /\ PollBecomes(h, k, NoPoll)
    /\ Shows(h, polls[<<h, k>>].running, FALSE)
    /\ NoStatusInput /\ UNCHANGED <<coreVars, polling, actionVars>>

\* Mutant: a failed poll is shown as an answer.
PollFailsUnseen(h, k) ==
    /\ StatusMishap /\ polls[<<h, k>>].stage # "none"
    /\ PollBecomes(h, k, NoPoll)
    /\ Shows(h, FALSE, FALSE)
    /\ UNCHANGED <<coreVars, polling, actionVars>>

\* A poll that fails shows a core that does not run, and an error.
PollFails(h, k) ==
    /\ StatusMishap /\ polls[<<h, k>>].stage # "none"
    /\ PollBecomes(h, k, NoPoll)
    /\ Shows(h, FALSE, TRUE)
    /\ UNCHANGED <<coreVars, polling, actionVars>>

\* The user leaves the page; the frame stays.
LeavePage(h) ==
    /\ NoStatusInput /\ h \in polling \ {ShellHook}
    /\ polling' = polling \ {h} /\ refetches' = 0
    /\ UNCHANGED <<coreVars, shown, statusError, statusLoading, lastGoodStatus, polls, actionLoading,
                   actionStage>>

-----------------------------------------------------------------------------
(***************************************************************************)
(* Actions                                                                 *)
(***************************************************************************)
\* One button at a time, as the page's own status allows it.
HandleAction(h, action) ==
    /\ StatusInput /\ h \in polling \ {ShellHook} /\ ~statusLoading[h] /\ actionLoading = "none"
    /\ shown[h] = (action # "start")
    /\ actionLoading' = action /\ actionStage' = "sent"
    /\ UNCHANGED <<coreVars, statusView, polls, refetches>>

\* A stop of a core that does not run is refused; one that fails leaves the
\* core alive, or dead with its pid file.
ServeStop ==
    /\ actionStage = "sent" /\ actionLoading = "stop"
    /\ \/ NoStatusInput /\ coreRuns /\ CoreBecomes(FALSE) /\ actionStage' = "done"
       \/ NoStatusInput /\ ~coreRuns /\ UNCHANGED coreVars /\ actionStage' = "failed"
       \/ StatusMishap /\ (CoreBecomes(FALSE) \/ UNCHANGED coreVars) /\ actionStage' = "failed"

\* A start kills the core that runs, a restart stops it, ...
ServeKill ==
    /\ actionStage = "sent" /\ actionLoading \in {"start", "restart"}
    /\ \/ NoStatusInput /\ CoreBecomes(FALSE) /\ actionStage' = "stopped"
       \/ /\ StatusMishap /\ actionLoading = "restart"
          /\ UNCHANGED coreVars /\ actionStage' = "failed"

\* ... then another one is started, waited for, and killed again if it does not
\* get ready: a restart tries once more, and answers an error in any case.
ServeStart ==
    /\ actionStage \in {"stopped", "started"}
    /\ \/ /\ NoStatusInput /\ actionStage = "stopped"
          /\ CoreBecomes(TRUE) /\ actionStage' = "started"
       \/ /\ NoStatusInput /\ actionStage = "started"
          /\ UNCHANGED coreVars /\ actionStage' = "done"
       \/ /\ StatusMishap /\ actionStage' = "failed"
          /\ (CoreBecomes(FALSE) \/ (actionLoading = "restart" /\ CoreBecomes(TRUE)))

ServeAction ==
    /\ ServeStop \/ ServeKill \/ ServeStart
    /\ UNCHANGED <<statusView, polls, actionLoading, refetches>>

\* Mutant: the button is not released after a failure.
ActionAnsweredOnSuccess ==
    /\ actionStage \in {"done", "failed"}
    /\ actionLoading' = IF actionStage = "done" THEN "none" ELSE actionLoading
    /\ actionStage' = "none"
    /\ refetches' = IF actionStage = "done" THEN refetches + 1 ELSE refetches
    /\ NoStatusInput /\ UNCHANGED <<coreVars, statusView, polls>>

ActionAnswered ==
    /\ actionStage \in {"done", "failed"}
    /\ actionLoading' = "none" /\ actionStage' = "none"
    /\ refetches' = IF actionStage = "done" THEN refetches + 1 ELSE refetches
    /\ NoStatusInput /\ UNCHANGED <<coreVars, statusView, polls>>

\* The core exits, or another window starts or stops it.
CoreElsewhere ==
    /\ StatusMishap /\ CoreBecomes(~coreRuns)
    /\ UNCHANGED <<statusView, polls, actionVars>>

-----------------------------------------------------------------------------
StatusStart(hooks) ==
    /\ coreChanges = 0 /\ polling = hooks
    /\ shown = [h \in Hooks |-> FALSE]
    /\ statusError = [h \in Hooks |-> FALSE] /\ statusLoading = [h \in Hooks |-> TRUE]
    /\ lastGoodStatus = {}
    /\ polls = [p \in Hooks \X PollSlots |-> NoPoll]
    /\ actionLoading = "none" /\ actionStage = "none" /\ refetches = 0
    /\ statusInputs = 0 /\ statusMishaps = 0

StatusInit == coreRuns \in BOOLEAN /\ StatusStart(Hooks)

\* Nothing of it is looked at.
StatusAbsent == coreRuns = FALSE /\ StatusStart({})

StatusNext ==
    \/ ServeAction \/ ActionAnswered \/ CoreElsewhere
    \/ \E h \in Hooks :
          \/ LeavePage(h)
          \/ \E action \in CoreActions : HandleAction(h, action)
          \/ \E k \in PollSlots :
                Tick(h, k) \/ Refetch(h, k) \/ ServePoll(h, k) \/ PollAnswered(h, k) \/ PollFails(h, k)

\* The interval runs; calls are served and answered in the end.
StatusFairness ==
    /\ WF_statusVars(ServeAction) /\ WF_statusVars(ActionAnswered)
    /\ \A h \in Hooks, k \in PollSlots :
          WF_statusVars(Tick(h, k)) /\ WF_statusVars(ServePoll(h, k)) /\ WF_statusVars(PollAnswered(h, k))

StatusSpec == StatusInit /\ [][StatusNext]_statusVars /\ StatusFairness

-----------------------------------------------------------------------------
(***************************************************************************)
(* Properties                                                              *)
(***************************************************************************)
\* statusForDisplay of the frame.
ShellShows ==
    IF statusError[ShellHook] /\ lastGoodStatus # {} THEN CHOOSE running \in lastGoodStatus : TRUE
    ELSE shown[ShellHook]

\* Sidebar: "Showing last known state".  Once the frame has read the status of
\* a core that does not change, no failed poll makes it show another.
ShellShowsTheCore ==
    (lastGoodStatus # {} /\ coreChanges = 0) => ShellShows = coreRuns

\* In the end every hook that still polls shows the core as it is, without an
\* error, and no button is held: stale answers and failures pass.
StatusCatchesUp ==
    /\ <>[](actionLoading = "none")
    /\ \A h \in Hooks :
          <>[](h \in polling) => <>[](shown[h] = coreRuns /\ ~statusError[h] /\ ~statusLoading[h])

=============================================================================
