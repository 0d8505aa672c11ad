------------------------------ MODULE Lifecycle ------------------------------
(***************************************************************************)
(* The life of the mihomo core under MihomoService                         *)
(* (src/backend/internal/service/mihomo_service.go).                       *)
(*                                                                         *)
(* Start, Stop and Restart hold no lock while they run: the service's      *)
(* mutex guards single assignments only.  So each operation is a thread    *)
(* that takes one step per file, process or kernel operation, and steps    *)
(* of different threads interleave.  The threads are the goroutines of     *)
(* the callers (HTTP handlers, scheduled restarts, main) and, for every    *)
(* core that was spawned, the goroutine that waits for it.                 *)
(***************************************************************************)
EXTENDS Naturals, FiniteSets

CONSTANTS
    Callers,    \* goroutines that call the service, at most one call each
    Procs,      \* names of core processes; a name is reused once it is free
    NoProc,     \* "no process"
    Modes,      \* routing settings: the set of mechanisms each one uses
    OnCrash,    \* mihomo.auto_restart and auto_restart_opts.on_crash
    Platform,   \* what the router has: OpenWrt's "fw4", the bridge "sysctl"s
    Faults      \* the calls of the system that may fail: see Kill, Remove, Save
                \* and CleanupAllRouting

ASSUME LifecycleAssumption ==
    /\ NoProc \notin Procs
    /\ Callers \cap Procs = {}
    /\ {} \in Modes
    /\ Modes \subseteq SUBSET {"tproxy", "tun", "redirect"}
    /\ OnCrash \in BOOLEAN
    /\ Platform \subseteq {"fw4", "sysctl"}
    /\ Faults \subseteq {"kill", "remove", "save", "nft"}
    /\ IsFiniteSet(Callers) /\ IsFiniteSet(Procs)

VARIABLES
    proc,        \* the operating system's view of each core
    pidFile,     \* the process named by mihomo.pid
    isStopping,  \* MihomoService.isStopping
    healthOn,    \* MihomoService.routingCheckStop # nil
    kernel,      \* what the kernel holds of the routing: see KernelStates
    undo,        \* what the service remembers to undo beyond its own tables
    conf,        \* appConfig.Mihomo in memory
    disk,        \* ... and as last saved
    pc,          \* where each thread is
    frame        \* its local variables

vars == <<proc, pidFile, isStopping, healthOn, kernel, undo, conf, disk, pc, frame>>

Threads == Callers \cup Procs

\* shouldSetupRoutingFor: any mode but "disable" for TCP or UDP.  The two
\* modes of a configuration stand here as the set of mechanisms they name.
Active(mode) == mode # {}

(***************************************************************************)
(* Types                                                                   *)
(***************************************************************************)
Configs == [routing : Modes, autoStart : BOOLEAN]

\* A mechanism stands for its own table; "policy" for the policy routing TPROXY
\* needs, "fw4" for the rules TUN puts into OpenWrt's table, "sysctl" for the
\* bridge settings TPROXY overwrites, "partial" for the ip rule of a TUN setup
\* that failed midway.
KernelStates == SUBSET {"tproxy", "tun", "redirect", "policy", "fw4", "sysctl", "partial"}

StopLabels == {"mark", "stopStatus", "stopKill", "stopUnlink", "stopRoute", "stopSave"}

StartLabels == {"killPid", "killAll", "spawn", "register", "writePid",
                "ready", "route", "startSave", "health"}

Labels == {"idle", "status", "change", "recheck", "rollback", "answer",
           "wait", "exited", "unlinkPid", "backoff"}
              \cup StopLabels \cup StartLabels

\* stage: "only" for a plain Start or Stop; a Restart runs stop1 start1 and,
\* when start1 fails, stop2 start2.
Frames == [op : {"none", "Status", "Start", "Stop", "Restart", "Change"},
           stage : {"only", "stop1", "start1", "stop2", "start2"},
           own : Procs \cup {NoProc},   \* cmd of the Start in progress
           setup : BOOLEAN,             \* shouldSetupRouting, read before spawning
           saves : BOOLEAN,             \* saveState of Stop
           prev : Modes,                \* previousRouting
           new : Modes,                 \* newRouting
           ret : {"none", "ok", "notRunning", "err"}]

IdleFrame == [op |-> "none", stage |-> "only", own |-> NoProc, setup |-> FALSE,
              saves |-> FALSE, prev |-> {}, new |-> {}, ret |-> "none"]

TypeOK ==
    /\ proc \in [Procs -> {"gone", "alive", "zombie"}]
    /\ pidFile \in Procs \cup {NoProc}
    /\ isStopping \in BOOLEAN
    /\ healthOn \in BOOLEAN
    /\ kernel \in KernelStates
    /\ undo \subseteq {"fw4", "sysctl"}
    /\ conf \in Configs
    /\ disk \in Configs
    /\ pc \in [Threads -> Labels]
    /\ frame \in [Threads -> Frames]

(***************************************************************************)
(* Processes.  A killed or crashed core is a zombie until the goroutine    *)
(* that waits for it reaps it; signal 0 still reaches a zombie.            *)
(***************************************************************************)
Alive == {p \in Procs : proc[p] = "alive"}

Signalable(p) == p \in Procs /\ proc[p] # "gone"

Killed(P) == [p \in Procs |-> IF p \in P /\ proc[p] = "alive" THEN "zombie" ELSE proc[p]]

\* A name nothing refers to any more: pid reuse by the system is not modelled.
Free(p) == /\ proc[p] = "gone"
           /\ pc[p] = "idle"
           /\ pidFile # p
           /\ \A t \in Threads : frame[t].own # p

\* Mutant: SIGTERM, which a core may take its time to obey.
KillTerm(P) == proc' \in {proc, Killed(P)}

\* Process.Kill and killall: only Stop looks at the error.
Kill(P) == proc' = Killed(P) \/ ("kill" \in Faults /\ UNCHANGED proc)

\* os.Remove of mihomo.pid: only Stop looks at the error.
Remove == pidFile' = NoProc \/ ("remove" \in Faults /\ UNCHANGED pidFile)

\* GetStatus: a pid file whose process is gone is removed on the way.
PidFileRunning == Signalable(pidFile)
DropStalePid == IF PidFileRunning THEN UNCHANGED pidFile ELSE Remove

\* Config.Save: the file gets the configuration in memory, or the write fails.
SaveFails == "save" \in Faults /\ disk' = disk
Save == disk' = conf' \/ SaveFails

(***************************************************************************)
(* NftablesService.  It forgets with its process what it did outside its   *)
(* own tables: useOpenWrtFw, and the sysctls' values before it.            *)
(***************************************************************************)
\* The rules in fw4 go in one transaction with TUN's own table, so they go only
\* if that is there, and if this process installed some.
StuckFw4 == IF "fw4" \in undo /\ "tun" \in kernel THEN {} ELSE {"fw4"}

\* CleanupAllRouting.  "nft": no connection after the sysctls were restored;
\* nobody acts on the error.
CleanupAllRouting ==
    /\ undo' = undo \ {"sysctl"}
    /\ \/ kernel' = kernel \cap (StuckFw4 \cup ({"sysctl"} \ undo))
       \/ "nft" \in Faults /\ kernel' = kernel \ (undo \cap {"sysctl"})

\* What SetupRouting's own cleanup leaves: its redirectService.Cleanup(nil)
\* deletes nothing, and it restores no sysctl.
NotCleaned == kernel \cap (StuckFw4 \cup {"redirect", "sysctl"})

\* What the mechanisms in r change outside their own tables.
Touched(r) == {e \in Platform : \/ e = "fw4" /\ "tun" \in r
                                \/ e = "sysctl" /\ "tproxy" \in r}

\* The value applyBridgeSysctl saves is its own if it ran before.
Remembered(r) == (undo \cup Touched(r)) \ (Touched(r) \cap kernel \cap {"sysctl"})

\* What the mechanisms in r install.  That addPolicyRouting failed, or one of
\* the calls it makes, SetupRouting does not notice.
RulesOf(r) == {r \cup Touched(r) \cup p : p \in SUBSET {e \in {"policy"} : "tproxy" \in r}}

\* SetupRouting takes the mechanisms in the order TPROXY, TUN, REDIRECT.
Before(m) == CASE m = "tproxy" -> {} [] m = "tun" -> {"tproxy"} [] OTHER -> {"tproxy", "tun"}

\* What one that fails leaves: its tables are transactions, the rest is not.
Remains(m) == CASE m = "tproxy" -> {Touched({m})} [] m = "tun" -> {{}, {"partial"}} [] OTHER -> {{}}

(***************************************************************************)
(* Control: where a thread goes when Stop or Start returns r               *)
(***************************************************************************)
Goto(t, label) == pc' = [pc EXCEPT ![t] = label]

StopReturns(t, r) ==
    LET s == frame[t].stage
        next == CASE s = "only" -> "answer"
                  [] s = "stop1" /\ r # "ok" -> "recheck"
                  [] OTHER -> "killPid"
    IN  /\ Goto(t, next)
        /\ frame' = [frame EXCEPT ![t].ret = IF next = "answer" THEN r ELSE "none",
                                  ![t].stage = IF next # "killPid" THEN s
                                               ELSE IF s = "stop1" THEN "start1" ELSE "start2"]

StartReturns(t, r) ==
    LET s == frame[t].stage
        next == IF s = "start1" /\ r = "err" THEN "rollback" ELSE "answer"
    IN  /\ Goto(t, next)
        /\ frame' = [frame EXCEPT ![t].own = NoProc,
                                  ![t].setup = FALSE,
                                  ![t].ret = IF next = "rollback" THEN "none"
                                             ELSE IF s = "start2" THEN "err" ELSE r]

-----------------------------------------------------------------------------
(***************************************************************************)
(* Calls                                                                   *)
(***************************************************************************)
Begin(t, label, f) ==
    /\ pc[t] = "idle"
    /\ Goto(t, label)
    /\ frame' = [frame EXCEPT ![t] = f]
    /\ UNCHANGED <<proc, pidFile, isStopping, healthOn, kernel, undo, conf, disk>>

RestartFrame(op, previous) ==
    [IdleFrame EXCEPT !.op = op, !.stage = "stop1", !.prev = previous, !.new = conf.routing]

CallStatus(c) == Begin(c, "status", [IdleFrame EXCEPT !.op = "Status"])

CallStart(c) == Begin(c, "killPid", [IdleFrame EXCEPT !.op = "Start"])

CallStop(c, save) ==
    Begin(c, "mark", [IdleFrame EXCEPT !.op = "Stop", !.saves = save, !.prev = conf.routing])

CallRestart(c) == Begin(c, "mark", RestartFrame("Restart", conf.routing))

\* PUT /app/config.
CallChange(c, mode) == Begin(c, "change", [IdleFrame EXCEPT !.op = "Change", !.new = mode])

\* A status poll, as every page of the web interface makes.
Status(t) ==
    /\ pc[t] = "status"
    /\ DropStalePid
    /\ Goto(t, "answer")
    /\ frame' = [frame EXCEPT ![t].ret = "ok"]
    /\ UNCHANGED <<proc, isStopping, healthOn, kernel, undo, conf, disk>>

\* AppHandler.UpdateConfig: remember the routing, look at the status, assign,
\* save, and restart a running core if the routing changed or another setting
\* that a core reads as it starts.
Change(t) ==
    /\ pc[t] = "change"
    /\ DropStalePid
    /\ \E auto \in BOOLEAN : conf' = [routing |-> frame[t].new, autoStart |-> auto]
    /\ \/ /\ SaveFails
          /\ Goto(t, "answer")
          /\ frame' = [frame EXCEPT ![t].ret = "err"]
       \/ /\ disk' = conf'
          /\ PidFileRunning
          /\ Goto(t, "mark")
          /\ frame' = [frame EXCEPT ![t].stage = "stop1", ![t].prev = conf.routing]
       \/ /\ disk' = conf'
          /\ ~(PidFileRunning /\ frame[t].new # conf.routing)
          /\ Goto(t, "answer")
          /\ frame' = [frame EXCEPT ![t].ret = "ok"]
    /\ UNCHANGED <<proc, isStopping, healthOn, kernel, undo>>

Answer(t) ==
    /\ pc[t] = "answer"
    /\ Goto(t, "idle")
    /\ frame' = [frame EXCEPT ![t] = IdleFrame]
    /\ UNCHANGED <<proc, pidFile, isStopping, healthOn, kernel, undo, conf, disk>>

-----------------------------------------------------------------------------
(***************************************************************************)
(* stopWithRoutingCleanup                                                  *)
(***************************************************************************)
\* isStopping = true; stopRoutingHealthCheck().
Mark(t) ==
    /\ pc[t] = "mark"
    /\ isStopping' = TRUE
    /\ healthOn' = FALSE
    /\ Goto(t, "stopStatus")
    /\ UNCHANGED <<proc, pidFile, kernel, undo, conf, disk, frame>>

\* Mutant: Stop passes the status on as its answer.
StopStatusStopped(t) ==
    /\ pc[t] = "stopStatus"
    /\ DropStalePid
    /\ IF PidFileRunning
       THEN Goto(t, "stopKill") /\ UNCHANGED frame
       ELSE StopReturns(t, "stopped")
    /\ UNCHANGED <<proc, isStopping, healthOn, kernel, undo, conf, disk>>

StopStatus(t) ==
    /\ pc[t] = "stopStatus"
    /\ DropStalePid
    /\ IF PidFileRunning
       THEN Goto(t, "stopKill") /\ UNCHANGED frame
       ELSE StopReturns(t, "notRunning")
    /\ UNCHANGED <<proc, isStopping, healthOn, kernel, undo, conf, disk>>

\* The pid file is read again; killing a finished process is no error.
StopKill(t) ==
    /\ pc[t] = "stopKill"
    /\ \/ /\ pidFile # NoProc
          /\ proc' = Killed({pidFile})
          /\ Goto(t, "stopUnlink") /\ UNCHANGED frame
       \/ /\ pidFile = NoProc \/ "kill" \in Faults
          /\ StopReturns(t, "err") /\ UNCHANGED proc
    /\ UNCHANGED <<pidFile, isStopping, healthOn, kernel, undo, conf, disk>>

\* A pid file that cannot be removed, or that somebody else removed, ends the
\* Stop with an error, its process killed.
StopUnlink(t) ==
    /\ pc[t] = "stopUnlink"
    /\ \/ /\ pidFile # NoProc /\ pidFile' = NoProc
          /\ Goto(t, "stopRoute") /\ UNCHANGED frame
       \/ /\ pidFile = NoProc \/ "remove" \in Faults
          /\ StopReturns(t, "err") /\ UNCHANGED pidFile
    /\ UNCHANGED <<proc, isStopping, healthOn, kernel, undo, conf, disk>>

\* Mutant: the two routings of a restart are confused.
CleanupRoutingSwapped(t) == IF frame[t].stage = "stop2" THEN frame[t].prev ELSE frame[t].new

\* cleanupRouting: the routing the caller believes to be in the kernel.
CleanupRouting(t) == IF frame[t].stage = "stop2" THEN frame[t].new ELSE frame[t].prev

StopRoute(t) ==
    /\ pc[t] = "stopRoute"
    /\ IF Active(CleanupRouting(t)) THEN CleanupAllRouting ELSE UNCHANGED <<kernel, undo>>
    /\ IF frame[t].saves
       THEN Goto(t, "stopSave") /\ UNCHANGED frame
       ELSE StopReturns(t, "ok")
    /\ UNCHANGED <<proc, pidFile, isStopping, healthOn, conf, disk>>

StopSave(t) ==
    /\ pc[t] = "stopSave"
    /\ conf' = [conf EXCEPT !.autoStart = FALSE]
    /\ Save
    /\ StopReturns(t, "ok")
    /\ UNCHANGED <<proc, pidFile, isStopping, healthOn, kernel, undo>>

-----------------------------------------------------------------------------
(***************************************************************************)
(* Start                                                                   *)
(***************************************************************************)
\* killExistingMihomo, first half: the core the pid file names.
KillPid(t) ==
    /\ pc[t] = "killPid"
    /\ Kill({pidFile})
    /\ Remove
    /\ Goto(t, "killAll")
    /\ UNCHANGED <<isStopping, healthOn, kernel, undo, conf, disk, frame>>

\* Mutant: no killall, as before the "double-kill fallback".
KillAllNot(t) ==
    /\ pc[t] = "killAll"
    /\ Goto(t, "spawn")
    /\ UNCHANGED <<proc, pidFile, isStopping, healthOn, kernel, undo, conf, disk, frame>>

\* ... second half: killall -9 mihomo, for the cores no pid file names.
KillAll(t) ==
    /\ pc[t] = "killAll"
    /\ Kill(Procs)
    /\ Goto(t, "spawn")
    /\ UNCHANGED <<pidFile, isStopping, healthOn, kernel, undo, conf, disk, frame>>

\* The configuration cannot be read or rewritten, the log cannot be cleared
\* or opened, or the core cannot be executed.
SpawnFails(t) ==
    /\ pc[t] = "spawn"
    /\ StartReturns(t, "err")
    /\ UNCHANGED <<proc, pidFile, isStopping, healthOn, kernel, undo, conf, disk>>

Spawn(t) ==
    /\ pc[t] = "spawn"
    /\ \E p \in Procs :
          /\ Free(p)
          /\ proc' = [proc EXCEPT ![p] = "alive"]
          /\ frame' = [frame EXCEPT ![t].own = p, ![t].setup = Active(conf.routing)]
    /\ Goto(t, "register")
    /\ UNCHANGED <<pidFile, isStopping, healthOn, kernel, undo, conf, disk>>

\* Mutant: nobody calls cmd.Wait.
RegisterNoWaiter(t) ==
    /\ pc[t] = "register"
    /\ isStopping' = FALSE
    /\ Goto(t, "writePid")
    /\ UNCHANGED <<proc, pidFile, healthOn, kernel, undo, conf, disk, frame>>

\* isStopping = false, and a goroutine is left waiting for the process.
Register(t) ==
    /\ pc[t] = "register"
    /\ isStopping' = FALSE
    /\ pc' = [pc EXCEPT ![t] = "writePid", ![frame[t].own] = "wait"]
    /\ UNCHANGED <<proc, pidFile, healthOn, kernel, undo, conf, disk, frame>>

\* Mutant: the pid file is created, as if the last one were always gone.
WritePidCreates(t) ==
    /\ pc[t] = "writePid"
    /\ pidFile' = IF pidFile = NoProc THEN frame[t].own ELSE pidFile
    /\ Goto(t, IF frame[t].setup THEN "ready" ELSE "startSave")
    /\ UNCHANGED <<proc, isStopping, healthOn, kernel, undo, conf, disk, frame>>

WritePid(t) ==
    /\ pc[t] = "writePid"
    /\ pidFile' = frame[t].own
    /\ Goto(t, IF frame[t].setup THEN "ready" ELSE "startSave")
    /\ UNCHANGED <<proc, isStopping, healthOn, kernel, undo, conf, disk, frame>>

WritePidFails(t) ==
    /\ pc[t] = "writePid"
    /\ Kill({frame[t].own})
    /\ StartReturns(t, "err")
    /\ UNCHANGED <<pidFile, isStopping, healthOn, kernel, undo, conf, disk>>

\* waitForMihomoReady: the pid file's process is alive and, for TUN, its
\* interface has appeared.
Ready(t) ==
    /\ pc[t] = "ready"
    /\ PidFileRunning
    /\ Goto(t, "route")
    /\ UNCHANGED <<proc, pidFile, isStopping, healthOn, kernel, undo, conf, disk, frame>>

\* A Start that fails after writing the pid file undoes its own process and
\* removes the file; the rules SetupRouting may have installed stay.
UndoStart(t) ==
    /\ Kill({frame[t].own})
    /\ Remove
    /\ StartReturns(t, "err")

\* The process died, no pid file for 10 s, or no TUN interface for 10 s.
NotReady(t) ==
    /\ pc[t] = "ready"
    /\ ~PidFileRunning \/ "tun" \in conf.routing
    /\ UndoStart(t)
    /\ UNCHANGED <<isStopping, healthOn, kernel, undo, conf, disk>>

\* SetupRouting cleans, then installs the routing configured at this moment.
Route(t) ==
    /\ pc[t] = "route"
    /\ \E rules \in RulesOf(conf.routing) : kernel' = NotCleaned \cup rules
    /\ undo' = Remembered(conf.routing)
    /\ Goto(t, "startSave")
    /\ UNCHANGED <<proc, pidFile, isStopping, healthOn, conf, disk, frame>>

\* SetupRouting stops at its first error and undoes nothing.
RouteFails(t) ==
    /\ pc[t] = "route"
    /\ \E m \in conf.routing :
          LET done == conf.routing \cap Before(m)
          IN  /\ \E rules \in RulesOf(done), rest \in Remains(m) : kernel' = NotCleaned \cup rules \cup rest
              /\ undo' = Remembered(done \cup {m})
    /\ UndoStart(t)
    /\ UNCHANGED <<isStopping, healthOn, conf, disk>>

StartSave(t) ==
    /\ pc[t] = "startSave"
    /\ conf' = [conf EXCEPT !.autoStart = TRUE]
    /\ Save
    /\ Goto(t, "health")
    /\ UNCHANGED <<proc, pidFile, isStopping, healthOn, kernel, undo, frame>>

Health(t) ==
    /\ pc[t] = "health"
    /\ healthOn' = TRUE
    /\ StartReturns(t, "ok")
    /\ UNCHANGED <<proc, pidFile, isStopping, kernel, undo, conf, disk>>

-----------------------------------------------------------------------------
(***************************************************************************)
(* RestartWithPreviousRouting, between its calls of Stop and Start         *)
(***************************************************************************)
\* Stop failed: go on only if the status is "stopped".
Recheck(t) ==
    /\ pc[t] = "recheck"
    /\ DropStalePid
    /\ IF PidFileRunning
       THEN Goto(t, "answer") /\ frame' = [frame EXCEPT ![t].ret = "err"]
       ELSE Goto(t, "killPid") /\ frame' = [frame EXCEPT ![t].stage = "start1"]
    /\ UNCHANGED <<proc, isStopping, healthOn, kernel, undo, conf, disk>>

\* Mutant: the rollback saves the routing that failed.
RollbackForgotten(t) ==
    /\ pc[t] = "rollback"
    /\ conf' = conf
    /\ Save
    /\ Goto(t, "mark")
    /\ frame' = [frame EXCEPT ![t].stage = "stop2"]
    /\ UNCHANGED <<proc, pidFile, isStopping, healthOn, kernel, undo>>

\* Start failed: put the previous routing back and save it.
Rollback(t) ==
    /\ pc[t] = "rollback"
    /\ conf' = [conf EXCEPT !.routing = frame[t].prev]
    /\ Save
    /\ Goto(t, "mark")
    /\ frame' = [frame EXCEPT ![t].stage = "stop2"]
    /\ UNCHANGED <<proc, pidFile, isStopping, healthOn, kernel, undo>>

-----------------------------------------------------------------------------
(***************************************************************************)
(* The goroutine waiting for core p, and handleUnexpectedExit              *)
(***************************************************************************)
CoreDies(p) ==
    /\ proc[p] = "alive"
    /\ proc' = [proc EXCEPT ![p] = "zombie"]
    /\ UNCHANGED <<pidFile, isStopping, healthOn, kernel, undo, conf, disk, pc, frame>>

Reap(p) ==
    /\ pc[p] = "wait" /\ proc[p] = "zombie"
    /\ proc' = [proc EXCEPT ![p] = "gone"]
    /\ Goto(p, "exited")
    /\ UNCHANGED <<pidFile, isStopping, healthOn, kernel, undo, conf, disk, frame>>

Exited(p) ==
    /\ pc[p] = "exited"
    /\ Goto(p, IF isStopping THEN "idle" ELSE "unlinkPid")
    /\ UNCHANGED <<proc, pidFile, isStopping, healthOn, kernel, undo, conf, disk, frame>>

\* The file is removed whichever process it names.
UnlinkPid(p) ==
    /\ pc[p] = "unlinkPid"
    /\ Remove
    /\ Goto(p, IF OnCrash THEN "backoff" ELSE "idle")
    /\ UNCHANGED <<proc, isStopping, healthOn, kernel, undo, conf, disk, frame>>

\* Five seconds later: give up if a Stop came, or restart.
GiveUp(p) ==
    /\ pc[p] = "backoff" /\ isStopping
    /\ Goto(p, "idle")
    /\ UNCHANGED <<proc, pidFile, isStopping, healthOn, kernel, undo, conf, disk, frame>>

CrashRestart(p) ==
    /\ pc[p] = "backoff" /\ ~isStopping
    /\ Goto(p, "mark")
    /\ frame' = [frame EXCEPT ![p] = RestartFrame("Restart", conf.routing)]
    /\ UNCHANGED <<proc, pidFile, isStopping, healthOn, kernel, undo, conf, disk>>

-----------------------------------------------------------------------------
Init ==
    /\ proc = [p \in Procs |-> "gone"]
    /\ pidFile = NoProc
    /\ isStopping = FALSE
    /\ healthOn = FALSE
    /\ kernel = {}
    /\ undo = {}
    /\ conf \in [routing : Modes, autoStart : {FALSE}]
    /\ disk = conf
    /\ pc = [t \in Threads |-> "idle"]
    /\ frame = [t \in Threads |-> IdleFrame]

Call(c) ==
    \/ CallStatus(c) \/ CallStart(c) \/ CallStop(c, TRUE) \/ CallRestart(c)
    \/ \E mode \in Modes : CallChange(c, mode)

StopStep(t) ==
    Mark(t) \/ StopStatus(t) \/ StopKill(t) \/ StopUnlink(t) \/ StopRoute(t) \/ StopSave(t)

StartStep(t) ==
    \/ KillPid(t) \/ KillAll(t) \/ SpawnFails(t) \/ Spawn(t) \/ Register(t)
    \/ WritePid(t) \/ WritePidFails(t) \/ Ready(t) \/ NotReady(t)
    \/ Route(t) \/ RouteFails(t) \/ StartSave(t) \/ Health(t)

Step(t) ==
    \/ StopStep(t) \/ StartStep(t)
    \/ Status(t) \/ Change(t) \/ Recheck(t) \/ Rollback(t) \/ Answer(t)

Waiter(p) == Reap(p) \/ Exited(p) \/ UnlinkPid(p) \/ GiveUp(p) \/ CrashRestart(p)

Next ==
    \/ \E c \in Callers : Call(c)
    \/ \E t \in Threads : Step(t)
    \/ \E p \in Procs : Waiter(p) \/ CoreDies(p)

Spec == Init /\ [][Next]_vars

\* A goroutine that can run does; callers may stay away and cores may live.
Fairness ==
    /\ \A t \in Threads : WF_vars(Step(t))
    /\ \A p \in Procs : WF_vars(Waiter(p))

FairSpec == Spec /\ Fairness

-----------------------------------------------------------------------------
(***************************************************************************)
(* Properties                                                              *)
(***************************************************************************)
\* Starts that are anywhere between their first step and their last.
InStart(t) == pc[t] \in StartLabels

SerialStarts == \A s, t \in Threads : InStart(s) /\ InStart(t) => s = t

\* Starts that have called killall and not yet spawned their core.
Spawning == {t \in Threads : pc[t] = "spawn"}

\* At most one core runs: mihomo_service.go:98-99 has killall "to prevent
\* socket/port 9090 binding conflicts".
AtMostOneCore == \A p, q \in Alive : p = q

\* No lock keeps Starts apart, so two cores may run. But one core more takes one
\* Start more between its killall and its spawn: however many operations overlap,
\* there are never more cores than there have been Starts at once in that one
\* window. With as many as there are names for processes it says nothing.
CoresNeedOpenWindows ==
    \A n \in 1 .. Cardinality(Procs) - 1 :
        [](Cardinality(Spawning) <= n) => [](Cardinality(Alive) <= n)

\* mihomo.pid never names anything but the core that runs: a Stop that finds a
\* process to kill has found the core, although old waiters remove the file.
\* Only where a file could not be removed it names a dead core until the Start
\* of the new one overwrites it.
PidFileNamesCore ==
    \A p \in Alive :
        \/ pidFile \in {p, NoProc}
        \/ /\ "remove" \in Faults
           /\ \E t \in Threads : pc[t] \in {"register", "writePid"} /\ frame[t].own = p

PidFileFollowsCore == []SerialStarts => []PidFileNamesCore

\* Every core has a goroutine that waits for it, or the Start that spawned it is
\* about to leave one: no core is ever abandoned, however operations overlap.
EveryCoreIsWatched ==
    \A p \in Procs : proc[p] # "gone" =>
        \/ pc[p] = "wait"
        \/ \E t \in Threads : pc[t] = "register" /\ frame[t].own = p

\* A Stop that answers "ok" has ended every core, and has taken the configured
\* routing out of the kernel. Sysctls may stay: of two Starts without a Stop the
\* second saves what the first has set.
StopEndsTheCore ==
    \A c \in Callers :
        pc[c] = "answer" /\ frame[c].op = "Stop" /\ frame[c].ret = "ok"
            => /\ "kill" \notin Faults => Alive = {}
               /\ Active(conf.routing) /\ "nft" \notin Faults => kernel \subseteq {"sysctl"}

\* A routing change after which no core could be started leaves the routing that
\* was configured before it, in memory and on disk. One whose core could not be
\* stopped (stage "stop1") answers an error as well, and keeps the new routing.
FailedChangeIsRolledBack ==
    \A c \in Callers :
        /\ pc[c] = "answer" /\ frame[c].op = "Change"
        /\ frame[c].stage \notin {"only", "stop1"} /\ frame[c].ret = "err"
        => /\ conf.routing = frame[c].prev
           /\ "save" \notin Faults => disk.routing = frame[c].prev

\* CHANGELOG.md:117, "transactional routing orchestration ... post-failure
\* rollbacks": a routing change that failed and was rolled back to no routing has
\* left no rules in the kernel.
FailedChangeLeavesNoRules ==
    \A c \in Callers :
        /\ pc[c] = "answer" /\ frame[c].op = "Change"
        /\ frame[c].stage = "start2" /\ ~Active(conf.routing)
        => kernel = {}

\* No dead core stays a zombie: whichever path killed it, someone waits for it.
ZombiesAreReaped == \A p \in Procs : proc[p] = "zombie" ~> proc[p] # "zombie"

=============================================================================
