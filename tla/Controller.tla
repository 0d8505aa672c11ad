----------------------------- MODULE Controller -----------------------------
(***************************************************************************)
(* The controller process around MihomoService: main of                    *)
(* src/backend/cmd/server/main.go from the routing cleanup at boot to the  *)
(* one at exit, and what a crash or an exit leaves for the next boot.      *)
(* The core processes, the pid file, the kernel's rules and the saved      *)
(* configuration outlive the controller; its goroutines do not.            *)
(***************************************************************************)
EXTENDS Lifecycle

CONSTANT Main       \* the caller that is main itself

ASSUME ControllerAssumption == Main \in Callers

VARIABLE phase      \* how far main has come

cvars == <<vars, phase>>

Requests == Callers \ {Main}

Down == {"crashed", "exited"}
Accepting == {"serving", "stopping", "cleaning"}     \* the listener is open
Phases == Down \cup Accepting \cup {"restore", "starting", "draining"}

CTypeOK == TypeOK /\ phase \in Phases

\* Mutant: the routing mode is taken from what the kernel holds.
LoseMemoryReadsKernel ==
    /\ pc' = [t \in Threads |-> "idle"]
    /\ frame' = [t \in Threads |-> IdleFrame]
    /\ isStopping' = FALSE
    /\ healthOn' = FALSE
    /\ undo' = {}
    /\ conf' = [disk EXCEPT !.routing = kernel]

\* The controller's memory is gone; the next boot loads the saved file.
LoseMemory ==
    /\ pc' = [t \in Threads |-> "idle"]
    /\ frame' = [t \in Threads |-> IdleFrame]
    /\ isStopping' = FALSE
    /\ healthOn' = FALSE
    /\ undo' = {}
    /\ conf' = disk

-----------------------------------------------------------------------------
\* The pre-startup CleanupAllRouting is that of a controller that has just
\* started, and remembers nothing; an error is only logged.
Boot ==
    /\ phase \in Down
    /\ phase' = "restore"
    /\ CleanupAllRouting
    /\ UNCHANGED <<proc, pidFile, isStopping, healthOn, conf, disk, pc, frame>>

\* Mutant: RestoreState waits for a core although auto_start is off.
RestoreNothingWaits ==
    /\ phase = "restore"
    /\ DropStalePid
    /\ conf.autoStart /\ PidFileRunning
    /\ healthOn' = conf.autoStart
    /\ phase' = "serving"
    /\ UNCHANGED <<proc, isStopping, kernel, undo, conf, disk, pc, frame>>

\* RestoreState, when there is no core to start.
RestoreNothing ==
    /\ phase = "restore"
    /\ DropStalePid
    /\ ~conf.autoStart \/ PidFileRunning
    /\ healthOn' = conf.autoStart
    /\ phase' = "serving"
    /\ UNCHANGED <<proc, isStopping, kernel, undo, conf, disk, pc, frame>>

\* RestoreState starts the core before main listens.
RestoreStart ==
    /\ phase = "restore"
    /\ conf.autoStart /\ ~PidFileRunning
    /\ CallStart(Main)
    /\ phase' = "starting"

\* The Start or Stop main called has returned; main only logs an error.
MainReturns ==
    /\ Answer(Main)
    /\ \/ phase = "starting" /\ phase' = "serving"
       \/ phase = "stopping" /\ phase' = "cleaning"

\* SIGTERM or SIGINT: Stop(false) if the core runs.
Sigterm ==
    /\ phase = "serving"
    /\ IF PidFileRunning
       THEN CallStop(Main, FALSE) /\ phase' = "stopping"
       ELSE /\ phase' = "cleaning"
            /\ DropStalePid
            /\ UNCHANGED <<proc, isStopping, healthOn, kernel, undo, conf, disk, pc, frame>>

\* Mutant: main relies on the cleanup of its Stop.
CleanAndDrainNot ==
    /\ phase = "cleaning"
    /\ phase' = "draining"
    /\ UNCHANGED <<proc, pidFile, isStopping, healthOn, kernel, undo, conf, disk, pc, frame>>

\* The last CleanupAllRouting; only then does server.Shutdown close the listener.
CleanAndDrain ==
    /\ phase = "cleaning"
    /\ CleanupAllRouting
    /\ phase' = "draining"
    /\ UNCHANGED <<proc, pidFile, isStopping, healthOn, conf, disk, pc, frame>>

\* Shutdown returns when the requests have ended, or after five seconds.
Exit ==
    /\ phase = "draining"
    /\ phase' = "exited"
    /\ LoseMemory
    /\ UNCHANGED <<proc, pidFile, kernel, disk>>

Crash ==
    /\ phase \notin Down
    /\ phase' = "crashed"
    /\ LoseMemory
    /\ UNCHANGED <<proc, pidFile, kernel, disk>>

\* A core that survived its controller is a child of init, which reaps it.
ReapOrphan(p) ==
    /\ proc[p] = "zombie" /\ pc[p] = "idle"
    /\ \A t \in Threads : frame[t].own # p
    /\ proc' = [proc EXCEPT ![p] = "gone"]
    /\ UNCHANGED <<pidFile, isStopping, healthOn, kernel, undo, conf, disk, pc, frame, phase>>

-----------------------------------------------------------------------------
CInit == Init /\ phase = "crashed"

MainStep == Boot \/ RestoreNothing \/ RestoreStart \/ MainReturns \/ CleanAndDrain \/ Exit

ServiceStep(t) == Step(t) /\ ~(t = Main /\ pc[t] = "answer") /\ UNCHANGED phase

CNext ==
    \/ MainStep \/ Sigterm \/ Crash
    \/ phase \in Accepting /\ (\E c \in Requests : Call(c)) /\ UNCHANGED phase
    \/ \E t \in Threads : ServiceStep(t)
    \/ \E p \in Procs : (Waiter(p) \/ CoreDies(p)) /\ UNCHANGED phase
    \/ \E p \in Procs : ReapOrphan(p)

CSpec == CInit /\ [][CNext]_cvars

CFairness ==
    /\ WF_cvars(MainStep)
    /\ \A t \in Threads : WF_cvars(ServiceStep(t))
    /\ \A p \in Procs : WF_cvars(Waiter(p) /\ UNCHANGED phase)

CFairSpec == CSpec /\ CFairness

-----------------------------------------------------------------------------
\* Whatever orphan of an earlier controller runs, cores never run together as
\* long as Starts do not overlap: killall reaches those no pid file names.
SerialStartsKeepOneCore == []SerialStarts => [](AtMostOneCore /\ PidFileNamesCore)

\* README.md:46, on the controller's exit: "explicit garbage collection steps
\* on exit to guarantee routing tables are clean".
CleanExit == phase = "exited" => kernel = {}

\* No Start is under way once main has cleaned up for the last time.
QuietDrain == phase = "draining" => \A t \in Threads : ~InStart(t)

\* When no Start is under way after the last cleanup and the cleanup finds the
\* kernel, an exit leaves none of the tables; what can stay is what a process
\* changed outside them and did not live to undo, or forgot.
ForgottenExit == phase = "exited" /\ "nft" \notin Faults => kernel \subseteq Platform
QuietExitIsClean == []QuietDrain => []ForgottenExit

\* A boot comes to serve whatever the restored core does, unless main dies.
BootServes == phase = "restore" ~> phase \in {"serving", "crashed"}

=============================================================================
