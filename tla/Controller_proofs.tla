-------------------------- MODULE Controller_proofs --------------------------
(***************************************************************************)
(* What TLAPS proves of the controller process (Controller): types, one    *)
(* core at a time across boots and crashes, and the clean exit that the    *)
(* order of main's shutdown gives when no Start is under way at its end.   *)
(*                                                                         *)
(* Most steps of the controller are steps of the service, to which the     *)
(* lemmas of Lifecycle_proofs apply.  The others either lose the memory of *)
(* the process or leave every thread where it is.                          *)
(***************************************************************************)
EXTENDS MCController, Lifecycle_proofs

\* A step of main, or of the system, that moves no thread.
ThreadsStay == UNCHANGED <<pc, frame, isStopping, conf, disk>>

\* Main's Stop at shutdown, which saves nothing.
MainStops == phase = "serving" /\ CallStop(Main, FALSE) /\ phase' = "stopping"

\* What the step does to the pid file, the cores and the kernel.
SystemStays ==
    /\ pidFile' \in {pidFile, NoProc}
    /\ proc' = proc \/ \E p \in Procs : proc[p] = "zombie" /\ proc' = [proc EXCEPT ![p] = "gone"]
    /\ UNCHANGED <<kernel, undo>> \/ CleanupAllRouting
    /\ healthOn' \in {healthOn, conf.autoStart}

\* The steps of the controller, as the proofs below take them.
LEMMA ControllerSteps ==
    ASSUME [CNext]_cvars
    PROVE  \/ [Next]_vars
           \/ MainStops
           \/ LoseMemory /\ UNCHANGED <<proc, pidFile, kernel, disk>>
           \/ ThreadsStay /\ SystemStays
  <1> USE ControllerAssumption
  <1>1. CASE UNCHANGED cvars
    BY <1>1 DEF cvars
  <1>2. CASE Boot \/ RestoreNothing \/ CleanAndDrain
    BY <1>2 DEF Boot, RestoreNothing, CleanAndDrain, DropStalePid, Remove, ThreadsStay, SystemStays
  <1>3. CASE RestoreStart
    BY <1>3 DEF RestoreStart, Next, Call
  <1>4. CASE MainReturns
    BY <1>4 DEF MainReturns, Next, Step, Threads
  <1>5. CASE Sigterm
    BY <1>5 DEF Sigterm, MainStops, DropStalePid, Remove, ThreadsStay, SystemStays
  <1>6. CASE Exit \/ Crash
    BY <1>6 DEF Exit, Crash
  <1>7. CASE \E c \in Requests : Call(c)
    BY <1>7 DEF Requests, Next
  <1>8. CASE \E t \in Threads : ServiceStep(t)
    BY <1>8 DEF ServiceStep, Next
  <1>9. CASE \E p \in Procs : Waiter(p) \/ CoreDies(p)
    BY <1>9 DEF Next
  <1>10. CASE \E p \in Procs : ReapOrphan(p)
    BY <1>10 DEF ReapOrphan, ThreadsStay, SystemStays
  <1> QED
    BY <1>1, <1>2, <1>3, <1>4, <1>5, <1>6, <1>7, <1>8, <1>9, <1>10 DEF CNext, MainStep

LEMMA MainStopsFacts ==
    ASSUME TypeOK, MainStops
    PROVE  /\ pc' = [pc EXCEPT ![Main] = "mark"]
           /\ \E f \in Frames : f.own = NoProc /\ frame' = [frame EXCEPT ![Main] = f]
           /\ UNCHANGED <<proc, pidFile, isStopping, healthOn, kernel, undo, conf, disk>>
  <1> DEFINE f == [IdleFrame EXCEPT !.op = "Stop", !.saves = FALSE, !.prev = conf.routing]
  <1>1. Begin(Main, "mark", f)
    BY DEF MainStops, CallStop
  <1>2. f \in Frames /\ f.own = NoProc
    BY IdleFrameType DEF TypeOK, Configs, Frames, IdleFrame
  <1> QED
    BY <1>1, <1>2 DEF Begin, Goto

-----------------------------------------------------------------------------
(***************************************************************************)
(* Types                                                                   *)
(***************************************************************************)
LEMMA ControllerTypeStep == TypeOK /\ [CNext]_cvars => TypeOK'
  <1> SUFFICES ASSUME TypeOK, [CNext]_cvars
               PROVE  TypeOK'
    OBVIOUS
  <1> USE ControllerAssumption
  <1>1. CASE [Next]_vars
    BY <1>1, TypeStep
  <1>2. CASE MainStops
    BY <1>2, MainStopsFacts DEF TypeOK, Labels, StopLabels, Threads
  <1>3. CASE LoseMemory /\ UNCHANGED <<proc, pidFile, kernel, disk>>
    BY <1>3, IdleFrameType DEF LoseMemory, TypeOK, Labels
  <1>4. CASE ThreadsStay /\ SystemStays
    <2>1. kernel' \in KernelStates /\ undo' \subseteq {"fw4", "sysctl"}
      BY <1>4, CleanupFacts DEF SystemStays, TypeOK, KernelStates
    <2> QED BY <1>4, <2>1 DEF ThreadsStay, SystemStays, TypeOK, Configs
  <1> QED
    BY <1>1, <1>2, <1>3, <1>4, ControllerSteps

LEMMA PhaseStep == phase \in Phases /\ [CNext]_cvars => phase' \in Phases
  BY DEF CNext, cvars, MainStep, Boot, RestoreNothing, RestoreStart, MainReturns, CleanAndDrain,
         Exit, Sigterm, Crash, ServiceStep, ReapOrphan, Phases, Down, Accepting

\* Boots, crashes and exits of the controller leave every variable in its type,
\* the saved configuration a boot reads included.
THEOREM ControllerTypes == CSpec => []CTypeOK
  <1>1. CInit => CTypeOK
    BY TypeInit DEF CInit, CTypeOK, Phases, Down
  <1>2. CTypeOK /\ [CNext]_cvars => CTypeOK'
    BY ControllerTypeStep, PhaseStep DEF CTypeOK
  <1> QED
    BY <1>1, <1>2, PTL DEF CSpec

\* What is proved of the controller holds of it under a bounded environment.
THEOREM BoundedIsController == MCSpec => CSpec
  <1>1. MCInit => CInit
    BY DEF MCInit
  <1>2. [MCNext]_mcvars => [CNext]_cvars
    BY DEF MCNext, Environment, Program, CNext, mcvars, ServiceStep
  <1> QED
    BY <1>1, <1>2, PTL DEF MCSpec, CSpec

-----------------------------------------------------------------------------
(***************************************************************************)
(* One core                                                                *)
(***************************************************************************)
\* With the threads of a dead controller goes the excuse of a Start that could
\* not remove the pid file of the last core and was about to overwrite it.
LEMMA OneCoreForgets ==
    ASSUME IOneCore, "remove" \notin Faults, Alive' = Alive, pidFile' = pidFile,
           \A s \in Threads : pc'[s] \notin Committed
    PROVE  IOneCore'
  BY DEF IOneCore, AtMostOneCore, PidFileNamesCore, Committed

LEMMA ControllerOneCoreStep ==
    ASSUME TypeOK, IOneCore, SerialStarts, "kill" \notin Faults, "remove" \notin Faults, [CNext]_cvars
    PROVE  IOneCore'
  <1> USE ControllerAssumption
  <1>1. CASE [Next]_vars
    BY <1>1, OneCoreStep
  <1>2. CASE MainStops
    <2>1. /\ \A s \in Threads : pc'[s] \in Committed => pc'[s] = pc[s] /\ frame'[s].own = frame[s].own
          /\ \A s \in Threads : pc[s] \in {"register", "writePid"} =>
                pc'[s] = pc[s] /\ frame'[s].own = frame[s].own
          /\ Alive' = Alive /\ pidFile' = pidFile
      BY <1>2, MainStopsFacts DEF TypeOK, Committed, Alive, MainStops, CallStop, Begin
    <2> QED BY <2>1, OneCoreNeutral
  <1>3. CASE LoseMemory /\ UNCHANGED <<proc, pidFile, kernel, disk>>
    <2>1. \A s \in Threads : pc'[s] \notin Committed
      BY <1>3 DEF LoseMemory, Committed
    <2>2. Alive' = Alive /\ pidFile' = pidFile
      BY <1>3 DEF Alive
    <2> QED BY <2>1, <2>2, OneCoreForgets
  <1>4. CASE ThreadsStay /\ SystemStays
    <2>1. UNCHANGED <<pc, frame>> /\ pidFile' \in {pidFile, NoProc}
      BY <1>4 DEF ThreadsStay, SystemStays
    <2>2. Alive' \subseteq Alive
      BY <1>4 DEF SystemStays, Alive, TypeOK
    <2> QED BY <2>1, <2>2, OneCoreNeutral
  <1> QED
    BY <1>1, <1>2, <1>3, <1>4, ControllerSteps

\* A core may outlive its controller, with or without the pid file, and the next
\* controller starts another: as long as Starts do not overlap no two cores run
\* at once and the pid file names no other process than the one that runs, where
\* kills and removals of the pid file succeed.
THEOREM OneCoreAcrossBoots ==
    ASSUME "kill" \notin Faults, "remove" \notin Faults
    PROVE  CSpec => SerialStartsKeepOneCore
  <1>1. CInit => TypeOK /\ IOneCore
    BY TypeInit, OneCoreInit DEF CInit
  <1>2. IOneCore => AtMostOneCore /\ PidFileNamesCore
    BY DEF IOneCore
  <1>3. TypeOK /\ IOneCore /\ SerialStarts /\ [CNext]_cvars => IOneCore'
    BY ControllerOneCoreStep
  <1> QED
    BY <1>1, <1>2, <1>3, ControllerTypeStep, PTL DEF CSpec, SerialStartsKeepOneCore

-----------------------------------------------------------------------------
(***************************************************************************)
(* The exit.  What is in the kernel outside the service's own tables is of *)
(* the platform.  Once main has cleaned up for the last time only a Start  *)
(* can add to the kernel again, and after the exit nothing runs.           *)
(***************************************************************************)
OfPlatform == kernel \cap {"fw4", "sysctl"} \subseteq Platform

IExit ==
    /\ OfPlatform
    /\ phase \in {"draining", "exited"} /\ "nft" \notin Faults => kernel \subseteq Platform
    /\ phase = "exited" => \A t \in Threads : pc[t] = "idle"

\* The steps of a thread that is not in a Start add no rule.
LEMMA OnlyStartsInstall ==
    ASSUME NEW t \in Threads, Step(t), ~InStart(t)
    PROVE  kernel' \subseteq kernel
  BY CleanupFacts DEF Step, StopStep, Mark, StopStatus, StopKill, StopUnlink, StopRoute, StopSave, StartStep,
     KillPid, KillAll, SpawnFails, Spawn, Register, WritePid, WritePidFails, Ready, NotReady,
     Route, RouteFails, StartSave, Health, Status, Change, Recheck, Rollback, Answer,
     InStart, StartLabels

\* Those of a Start add, outside the tables, what the platform has.
LEMMA StepOfPlatform ==
    ASSUME TypeOK, OfPlatform, NEW t \in Threads, Step(t)
    PROVE  OfPlatform'
  <1>1. CASE ~InStart(t)
    BY <1>1, OnlyStartsInstall DEF OfPlatform
  <1>2. CASE Route(t) \/ RouteFails(t)
    <2>1. conf.routing \in SUBSET {"tproxy", "tun", "redirect"}
      BY LifecycleAssumption DEF TypeOK, Configs
    <2>2. \/ Installs(conf.routing, kernel', undo')
          \/ \E m \in conf.routing : FailsAt(m, conf.routing, kernel', undo')
      BY <1>2 DEF Route, RouteFails, Installs, FailsAt
    <2>3. kernel' \cap {"fw4", "sysctl"} \subseteq kernel \cup Platform
      BY <2>1, <2>2, SetupFacts
    <2> QED BY <2>3 DEF OfPlatform
  <1>3. CASE InStart(t) /\ ~(Route(t) \/ RouteFails(t))
    <2>1. UNCHANGED kernel
      BY <1>3 DEF Step, StopStep, Mark, StopStatus, StopKill, StopUnlink, StopRoute, StopSave, StartStep,
         KillPid, KillAll, SpawnFails, Spawn, Register, WritePid, WritePidFails, Ready, NotReady,
         StartSave, Health, Status, Change, Recheck, Rollback, Answer, InStart, StartLabels
    <2> QED BY <2>1 DEF OfPlatform
  <1> QED
    BY <1>1, <1>2, <1>3

\* An idle thread takes no step of its own.
LEMMA IdleThreads ==
    /\ \A t \in Threads : pc[t] = "idle" => ~Step(t)
    /\ \A p \in Procs : pc[p] = "idle" => ~Waiter(p)
  <1>1. ASSUME NEW t \in Threads, pc[t] = "idle"
        PROVE  ~Step(t)
    BY <1>1 DEF Step, StopStep, Mark, StopStatus, StopKill, StopUnlink, StopRoute, StopSave, StartStep,
         KillPid, KillAll, SpawnFails, Spawn, Register, WritePid, WritePidFails, Ready, NotReady,
         Route, RouteFails, StartSave, Health, Status, Change, Recheck, Rollback, Answer
  <1>2. ASSUME NEW p \in Procs, pc[p] = "idle"
        PROVE  ~Waiter(p)
    BY <1>2 DEF Waiter, Reap, Exited, UnlinkPid, GiveUp, CrashRestart
  <1> QED
    BY <1>1, <1>2

LEMMA ExitStep == TypeOK /\ IExit /\ QuietDrain /\ [CNext]_cvars => IExit'
  <1> SUFFICES ASSUME TypeOK, IExit, QuietDrain, [CNext]_cvars
               PROVE  IExit'
    OBVIOUS
  <1> USE ControllerAssumption
  <1>1. CASE UNCHANGED cvars
    BY <1>1 DEF IExit, OfPlatform, cvars, vars
  <1>2. CASE Boot
    BY <1>2, CleanupFacts DEF IExit, OfPlatform, Boot
  <1>3. CASE RestoreNothing \/ RestoreStart \/ Crash
    BY <1>3 DEF IExit, OfPlatform, RestoreNothing, RestoreStart, CallStart, Begin, Crash
  <1>4. CASE MainReturns
    BY <1>4 DEF IExit, OfPlatform, MainReturns, Answer
  <1>5. CASE Sigterm
    BY <1>5 DEF IExit, OfPlatform, Sigterm, CallStop, Begin
  <1>6. CASE CleanAndDrain
    <2>1. kernel' \subseteq kernel /\ ("nft" \notin Faults => kernel' \subseteq {"fw4", "sysctl"})
      BY <1>6, CleanupFacts DEF CleanAndDrain
    <2> QED BY <1>6, <2>1 DEF IExit, OfPlatform, CleanAndDrain
  <1>7. CASE Exit
    BY <1>7 DEF IExit, OfPlatform, Exit, LoseMemory
  <1>8. ASSUME NEW c \in Requests, phase \in Accepting, Call(c), UNCHANGED phase
        PROVE  IExit'
    <2>1. UNCHANGED kernel
      BY <1>8, CallBegins DEF Begin, Requests
    <2> QED BY <1>8, <2>1 DEF IExit, OfPlatform, Accepting
  <1>9. ASSUME NEW t \in Threads, ServiceStep(t)
        PROVE  IExit'
    <2>1. Step(t) /\ phase' = phase
      BY <1>9 DEF ServiceStep
    <2>2. phase # "exited"
      BY <2>1, IdleThreads DEF IExit
    <2>3. phase = "draining" => kernel' \subseteq kernel
      BY <2>1, OnlyStartsInstall DEF QuietDrain
    <2>4. OfPlatform'
      BY <2>1, StepOfPlatform DEF IExit
    <2> QED BY <2>1, <2>2, <2>3, <2>4 DEF IExit
  <1>10. ASSUME NEW p \in Procs, Waiter(p), UNCHANGED phase
        PROVE  IExit'
    <2>1. phase # "exited"
      BY <1>10, IdleThreads DEF IExit, Threads
    <2>2. UNCHANGED kernel
      BY <1>10 DEF Waiter, Reap, Exited, UnlinkPid, GiveUp, CrashRestart
    <2> QED BY <1>10, <2>1, <2>2 DEF IExit, OfPlatform
  <1>11. ASSUME NEW p \in Procs, CoreDies(p), UNCHANGED phase
        PROVE  IExit'
    BY <1>11 DEF IExit, OfPlatform, CoreDies
  <1>12. ASSUME NEW p \in Procs, ReapOrphan(p)
        PROVE  IExit'
    BY <1>12 DEF IExit, OfPlatform, ReapOrphan
  <1> QED
    BY <1>1, <1>2, <1>3, <1>4, <1>5, <1>6, <1>7, <1>8, <1>9, <1>10, <1>11, <1>12 DEF CNext, MainStep

\* When no Start is under way after main's last cleanup, and that cleanup finds
\* the kernel, the service's tables are gone once the controller has exited,
\* whatever else was still running and however often it crashed before. What can
\* stay is what the platform has outside them.
THEOREM QuietExitsAreClean == CSpec => QuietExitIsClean
  <1>1. CInit => TypeOK /\ IExit
    BY TypeInit DEF CInit, Init, IExit, OfPlatform
  <1>2. IExit => ForgottenExit
    BY DEF IExit, ForgottenExit
  <1> QED
    BY <1>1, <1>2, ControllerTypeStep, ExitStep, PTL DEF CSpec, QuietExitIsClean

=============================================================================
