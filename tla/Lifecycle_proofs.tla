-------------------------- MODULE Lifecycle_proofs --------------------------
(***************************************************************************)
(* Proofs about Lifecycle, for any callers, processes and modes, with the  *)
(* watchdog on or off:                                                     *)
(*   - TypeCorrect: the types;                                             *)
(*   - CoresAreWatched: every core has a goroutine waiting for it;         *)
(*   - CoresAreBounded: however Starts overlap, there are never more cores *)
(*     than Starts have been at once between killall and spawn;            *)
(*   - PidFileIsTheCore: as long as Starts do not overlap, the pid file    *)
(*     names no other process than the core that runs;                     *)
(*   - StopsEndTheCore and FailedChangesAreRolledBack: as long as          *)
(*     operations do not overlap, answers mean what they say.              *)
(* What a failing kill, removal, save or cleanup costs is in the           *)
(* statements: each says which of Faults it does without.                  *)
(***************************************************************************)
EXTENDS Lifecycle, FiniteSetTheorems, TLAPS

USE DEF Threads

(***************************************************************************)
(* Killing only ever turns cores that are alive into zombies.              *)
(***************************************************************************)
LEMMA KilledFacts ==
    ASSUME proc \in [Procs -> {"gone", "alive", "zombie"}], NEW P
    PROVE  /\ Killed(P) \in [Procs -> {"gone", "alive", "zombie"}]
           /\ \A p \in Procs : Killed(P)[p] = "gone" <=> proc[p] = "gone"
           /\ \A p \in Procs : Killed(P)[p] = "alive" <=> proc[p] = "alive" /\ p \notin P
  BY DEF Killed

LEMMA KillFacts ==
    ASSUME proc \in [Procs -> {"gone", "alive", "zombie"}], NEW P, Kill(P)
    PROVE  /\ proc' \in [Procs -> {"gone", "alive", "zombie"}]
           /\ \A p \in Procs : proc'[p] = "gone" <=> proc[p] = "gone"
           /\ Alive' \subseteq Alive
           /\ "kill" \notin Faults => Alive' = Alive \ P
  BY KilledFacts DEF Kill, Alive

(***************************************************************************)
(* The kernel.  Cleanups take rules out of it, and what a setup puts there *)
(* is of the mechanisms it was asked for.                                  *)
(***************************************************************************)
LEMMA CleanupFacts ==
    ASSUME CleanupAllRouting
    PROVE  /\ kernel' \subseteq kernel /\ undo' \subseteq undo
           /\ "fw4" \in undo => "fw4" \in undo'
           /\ "fw4" \in kernel' /\ "tun" \in kernel /\ "fw4" \in undo => "tun" \in kernel'
           /\ "nft" \notin Faults => kernel' \subseteq {"fw4", "sysctl"}
           /\ "nft" \notin Faults /\ "fw4" \in undo /\ "tun" \in kernel => "fw4" \notin kernel'
  BY DEF CleanupAllRouting, StuckFw4

\* The rules a SetupRouting that has come to its end, or to mechanism m, leaves.
Installs(r, k, u) ==
    /\ \E rules \in RulesOf(r) : k = NotCleaned \cup rules
    /\ u = Remembered(r)

FailsAt(m, r, k, u) ==
    LET done == r \cap Before(m)
    IN  /\ \E rules \in RulesOf(done), rest \in Remains(m) : k = NotCleaned \cup rules \cup rest
        /\ u = Remembered(done \cup {m})

LEMMA SetupFacts ==
    ASSUME TypeOK, NEW r \in SUBSET {"tproxy", "tun", "redirect"}, NEW k, NEW u,
           Installs(r, k, u) \/ (\E m \in r : FailsAt(m, r, k, u))
    PROVE  /\ k \in KernelStates /\ u \subseteq {"fw4", "sysctl"}
           /\ "fw4" \in undo => "fw4" \in u
           /\ k \cap {"fw4", "sysctl"} \subseteq kernel \cup Platform
           /\ ("fw4" \in kernel => "fw4" \in undo /\ "tun" \in kernel)
                 => ("fw4" \in k => "fw4" \in u /\ "tun" \in k)
  <1> USE LifecycleAssumption
  <1>1. /\ NotCleaned \in KernelStates /\ NotCleaned \subseteq kernel /\ "tun" \notin NotCleaned
        /\ ("fw4" \in kernel => "fw4" \in undo /\ "tun" \in kernel) => "fw4" \notin NotCleaned
    BY DEF TypeOK, NotCleaned, StuckFw4, KernelStates
  <1>2. ASSUME NEW q \in SUBSET {"tproxy", "tun", "redirect"}
        PROVE  /\ Remembered(q) \subseteq {"fw4", "sysctl"}
               /\ "fw4" \in undo \/ "fw4" \in Touched(q) => "fw4" \in Remembered(q)
               /\ Touched(q) \subseteq Platform
               /\ "fw4" \in Touched(q) => "tun" \in q
    BY DEF TypeOK, Remembered, Touched
  <1>3. ASSUME NEW q \in SUBSET {"tproxy", "tun", "redirect"}, NEW rules \in RulesOf(q)
        PROVE  /\ rules \in KernelStates /\ q \subseteq rules
               /\ rules \cap {"fw4", "sysctl"} \subseteq Touched(q)
    <2>1. PICK p \in SUBSET {e \in {"policy"} : "tproxy" \in q} : rules = q \cup Touched(q) \cup p
      BY <1>3 DEF RulesOf
    <2> QED BY <1>2, <2>1 DEF KernelStates
  <1>4. CASE Installs(r, k, u)
    <2>1. PICK rules \in RulesOf(r) : k = NotCleaned \cup rules
      BY <1>4 DEF Installs
    <2>2. u = Remembered(r)
      BY <1>4 DEF Installs
    <2>3. rules \in KernelStates /\ rules \cap {"fw4", "sysctl"} \subseteq Touched(r)
      BY <1>3
    <2>4. /\ u \subseteq {"fw4", "sysctl"}
          /\ "fw4" \in undo \/ "fw4" \in Touched(r) => "fw4" \in u
          /\ Touched(r) \subseteq Platform
          /\ "fw4" \in Touched(r) => "tun" \in r
      BY <1>2, <2>2
    <2>5. r \subseteq k
      BY <1>3, <2>1
    <2>6. k \cap {"fw4", "sysctl"} \subseteq kernel \cup Platform
      BY <1>1, <2>1, <2>3, <2>4
    <2>7. ASSUME "fw4" \in kernel => "fw4" \in undo /\ "tun" \in kernel, "fw4" \in k
          PROVE  "fw4" \in u /\ "tun" \in k
      <3>1. "fw4" \in Touched(r)
        BY <1>1, <2>1, <2>3, <2>7
      <3> QED BY <2>4, <2>5, <3>1
    <2> QED BY <1>1, <2>1, <2>3, <2>4, <2>6, <2>7 DEF KernelStates
  <1>5. ASSUME NEW m \in r, FailsAt(m, r, k, u)
        PROVE  /\ k \in KernelStates /\ u \subseteq {"fw4", "sysctl"}
               /\ "fw4" \in undo => "fw4" \in u
               /\ k \cap {"fw4", "sysctl"} \subseteq kernel \cup Platform
               /\ ("fw4" \in kernel => "fw4" \in undo /\ "tun" \in kernel)
                     => ("fw4" \in k => "fw4" \in u /\ "tun" \in k)
    <2> DEFINE done == r \cap Before(m)
    <2>1. PICK rules \in RulesOf(done), rest \in Remains(m) : k = NotCleaned \cup rules \cup rest
      BY <1>5 DEF FailsAt
    <2>2. u = Remembered(done \cup {m})
      BY <1>5 DEF FailsAt
    <2>3. rest \subseteq {"sysctl", "partial"} /\ rest \cap {"sysctl"} \subseteq Platform
      BY <2>1 DEF Remains, Touched
    <2>4. "fw4" \in Touched(done) => "fw4" \in Touched(done \cup {m})
      BY DEF Touched
    <2>5. /\ done \in SUBSET {"tproxy", "tun", "redirect"}
          /\ done \cup {m} \in SUBSET {"tproxy", "tun", "redirect"}
      OBVIOUS
    <2> HIDE DEF done
    <2>6. /\ rules \in KernelStates /\ done \subseteq rules
          /\ rules \cap {"fw4", "sysctl"} \subseteq Touched(done)
      BY <1>3, <2>5
    <2>7. Touched(done) \subseteq Platform /\ ("fw4" \in Touched(done) => "tun" \in done)
      BY <1>2, <2>5
    <2>8. /\ u \subseteq {"fw4", "sysctl"}
          /\ "fw4" \in undo \/ "fw4" \in Touched(done \cup {m}) => "fw4" \in u
      BY <1>2, <2>2, <2>5
    <2> QED BY <1>1, <2>1, <2>3, <2>4, <2>6, <2>7, <2>8 DEF KernelStates
  <1> QED
    BY <1>4, <1>5

LEMMA IdleFrameType == IdleFrame \in Frames
  BY LifecycleAssumption DEF IdleFrame, Frames

LEMMA RestartFrameType ==
    ASSUME TypeOK
    PROVE  /\ RestartFrame("Restart", conf.routing) \in Frames
           /\ RestartFrame("Restart", conf.routing).own = NoProc
  <1>1. conf.routing \in Modes
    BY DEF TypeOK, Configs
  <1> QED
    BY <1>1, LifecycleAssumption DEF RestartFrame, IdleFrame, Frames

(***************************************************************************)
(* A call puts its thread at the first label of an operation, owning no    *)
(* core.                                                                   *)
(***************************************************************************)
LEMMA CallBegins ==
    ASSUME TypeOK, NEW c \in Callers, Call(c)
    PROVE  \E l \in {"status", "killPid", "mark", "change"}, f \in Frames :
              Begin(c, l, f) /\ f.own = NoProc
  <1> USE LifecycleAssumption
  <1>1. conf.routing \in Modes
    BY DEF TypeOK, Configs
  <1>2. CASE CallStatus(c)
    <2> DEFINE f == [IdleFrame EXCEPT !.op = "Status"]
    <2>1. f \in Frames /\ f.own = NoProc
      BY DEF IdleFrame, Frames
    <2> QED BY <1>2, <2>1 DEF CallStatus
  <1>3. CASE CallStart(c)
    <2> DEFINE f == [IdleFrame EXCEPT !.op = "Start"]
    <2>1. f \in Frames /\ f.own = NoProc
      BY DEF IdleFrame, Frames
    <2> QED BY <1>3, <2>1 DEF CallStart
  <1>4. CASE CallStop(c, TRUE)
    <2> DEFINE f == [IdleFrame EXCEPT !.op = "Stop", !.saves = TRUE, !.prev = conf.routing]
    <2>1. f \in Frames /\ f.own = NoProc
      BY <1>1 DEF IdleFrame, Frames
    <2> QED BY <1>4, <2>1 DEF CallStop
  <1>5. CASE CallRestart(c)
    BY <1>5, RestartFrameType DEF CallRestart
  <1>6. ASSUME NEW mode \in Modes, CallChange(c, mode)
        PROVE  \E l \in {"status", "killPid", "mark", "change"}, f \in Frames :
                  Begin(c, l, f) /\ f.own = NoProc
    <2> DEFINE f == [IdleFrame EXCEPT !.op = "Change", !.new = mode]
    <2>1. f \in Frames /\ f.own = NoProc
      BY DEF IdleFrame, Frames
    <2> QED BY <1>6, <2>1 DEF CallChange
  <1> QED
    BY <1>2, <1>3, <1>4, <1>5, <1>6 DEF Call

(***************************************************************************)
(* Where Stop and Start return to, as facts about pc and frame alone.      *)
(***************************************************************************)
LEMMA StopReturnsFacts ==
    ASSUME TypeOK, NEW t \in Threads, NEW r \in {"ok", "notRunning", "err"}, StopReturns(t, r)
    PROVE  /\ pc' \in [Threads -> Labels]
           /\ frame' \in [Threads -> Frames]
           /\ \E l \in {"answer", "recheck", "killPid"} : pc' = [pc EXCEPT ![t] = l]
           /\ \A s \in Threads : frame'[s].own = frame[s].own
  <1> DEFINE s0 == frame[t].stage
             next == CASE s0 = "only" -> "answer"
                       [] s0 = "stop1" /\ r # "ok" -> "recheck"
                       [] OTHER -> "killPid"
             st == IF next # "killPid" THEN s0
                   ELSE IF s0 = "stop1" THEN "start1" ELSE "start2"
             rt == IF next = "answer" THEN r ELSE "none"
  <1>1. next \in {"answer", "recheck", "killPid"}
    OBVIOUS
  <1>2. /\ pc' = [pc EXCEPT ![t] = next]
        /\ frame' = [frame EXCEPT ![t].ret = rt, ![t].stage = st]
    BY DEF StopReturns, Goto
  <1>3. frame[t] \in Frames
    BY DEF TypeOK
  <1>4. st \in {"only", "stop1", "start1", "stop2", "start2"}
    BY <1>3 DEF Frames
  <1>5. rt \in {"none", "ok", "notRunning", "err"}
    OBVIOUS
  <1> HIDE DEF next, st, rt
  <1>6. frame' \in [Threads -> Frames]
    BY <1>2, <1>3, <1>4, <1>5 DEF TypeOK, Frames
  <1>7. pc' \in [Threads -> Labels]
    BY <1>1, <1>2 DEF TypeOK, Labels, StopLabels, StartLabels
  <1>8. \A s \in Threads : frame'[s].own = frame[s].own
    BY <1>2, <1>3 DEF TypeOK, Frames
  <1> QED
    BY <1>1, <1>2, <1>6, <1>7, <1>8

LEMMA StartReturnsFacts ==
    ASSUME TypeOK, NEW t \in Threads, NEW r \in {"ok", "err"}, StartReturns(t, r)
    PROVE  /\ pc' \in [Threads -> Labels]
           /\ frame' \in [Threads -> Frames]
           /\ \E l \in {"answer", "rollback"} : pc' = [pc EXCEPT ![t] = l]
           /\ frame'[t].own = NoProc
           /\ \A s \in Threads \ {t} : frame'[s] = frame[s]
  <1> DEFINE s0 == frame[t].stage
             next == IF s0 = "start1" /\ r = "err" THEN "rollback" ELSE "answer"
             rt == IF next = "rollback" THEN "none" ELSE IF s0 = "start2" THEN "err" ELSE r
  <1>1. next \in {"answer", "rollback"}
    OBVIOUS
  <1>2. /\ pc' = [pc EXCEPT ![t] = next]
        /\ frame' = [frame EXCEPT ![t].own = NoProc, ![t].setup = FALSE, ![t].ret = rt]
    BY DEF StartReturns, Goto
  <1>3. frame[t] \in Frames
    BY DEF TypeOK
  <1>4. rt \in {"none", "ok", "notRunning", "err"}
    OBVIOUS
  <1> HIDE DEF next, rt
  <1>5. frame' \in [Threads -> Frames]
    BY <1>2, <1>3, <1>4 DEF TypeOK, Frames
  <1>6. pc' \in [Threads -> Labels]
    BY <1>1, <1>2 DEF TypeOK, Labels, StopLabels, StartLabels
  <1>7. /\ frame'[t].own = NoProc
        /\ \A s \in Threads \ {t} : frame'[s] = frame[s]
    BY <1>2, <1>3 DEF TypeOK, Frames
  <1> QED
    BY <1>1, <1>2, <1>5, <1>6, <1>7

-----------------------------------------------------------------------------
(***************************************************************************)
(* Types                                                                   *)
(***************************************************************************)
LEMMA TypeInit == Init => TypeOK
  <1> SUFFICES ASSUME Init PROVE TypeOK
    OBVIOUS
  <1>1. conf \in Configs /\ disk \in Configs
    BY DEF Init, Configs
  <1>2. pc \in [Threads -> Labels] /\ frame \in [Threads -> Frames]
    BY IdleFrameType DEF Init, Labels
  <1> QED
    BY <1>1, <1>2 DEF Init, TypeOK, KernelStates

LEMMA TypeCall ==
    ASSUME TypeOK, NEW c \in Callers, Call(c)
    PROVE  TypeOK'
  <1>1. PICK l \in Labels, f \in Frames : Begin(c, l, f)
    BY CallBegins DEF Labels, StopLabels, StartLabels
  <1> QED
    BY <1>1 DEF Begin, Goto, TypeOK

LEMMA TypeStop ==
    ASSUME TypeOK, NEW t \in Threads, StopStep(t)
    PROVE  TypeOK'
  <1> USE LifecycleAssumption
  <1>1. CASE Mark(t)
    BY <1>1 DEF Mark, Goto, TypeOK, Labels, StopLabels
  <1>2. CASE StopStatus(t)
    <2>1. pidFile' \in Procs \cup {NoProc}
      BY <1>2 DEF StopStatus, DropStalePid, Remove, TypeOK
    <2>2. pc' \in [Threads -> Labels] /\ frame' \in [Threads -> Frames]
      BY <1>2, StopReturnsFacts DEF StopStatus, Goto, TypeOK, Labels, StopLabels
    <2> QED BY <1>2, <2>1, <2>2 DEF StopStatus, TypeOK
  <1>3. CASE StopKill(t)
    <2>1. proc' \in [Procs -> {"gone", "alive", "zombie"}]
      BY <1>3, KilledFacts DEF StopKill, TypeOK
    <2>2. pc' \in [Threads -> Labels] /\ frame' \in [Threads -> Frames]
      BY <1>3, StopReturnsFacts DEF StopKill, Goto, TypeOK, Labels, StopLabels
    <2> QED BY <1>3, <2>1, <2>2 DEF StopKill, TypeOK
  <1>4. CASE StopUnlink(t)
    <2>1. pc' \in [Threads -> Labels] /\ frame' \in [Threads -> Frames]
      BY <1>4, StopReturnsFacts DEF StopUnlink, Goto, TypeOK, Labels, StopLabels
    <2>2. pidFile' \in Procs \cup {NoProc}
      BY <1>4 DEF StopUnlink, TypeOK
    <2> QED BY <1>4, <2>1, <2>2 DEF StopUnlink, TypeOK
  <1>5. CASE StopRoute(t)
    <2>1. pc' \in [Threads -> Labels] /\ frame' \in [Threads -> Frames]
      BY <1>5, StopReturnsFacts DEF StopRoute, Goto, TypeOK, Labels, StopLabels
    <2>2. kernel' \in KernelStates /\ undo' \subseteq {"fw4", "sysctl"}
      BY <1>5, CleanupFacts DEF StopRoute, TypeOK, KernelStates
    <2> QED BY <1>5, <2>1, <2>2 DEF StopRoute, TypeOK
  <1>6. CASE StopSave(t)
    <2>1. pc' \in [Threads -> Labels] /\ frame' \in [Threads -> Frames]
      BY <1>6, StopReturnsFacts DEF StopSave
    <2>2. conf' \in Configs
      BY <1>6 DEF StopSave, TypeOK, Configs
    <2>3. disk' \in Configs
      BY <1>6, <2>2 DEF StopSave, Save, SaveFails, TypeOK
    <2> QED BY <1>6, <2>1, <2>2, <2>3 DEF StopSave, TypeOK
  <1> QED
    BY <1>1, <1>2, <1>3, <1>4, <1>5, <1>6 DEF StopStep

LEMMA TypeStart ==
    ASSUME TypeOK, NEW t \in Threads, StartStep(t)
    PROVE  TypeOK'
  <1>f. ASSUME NEW r \in {"ok", "err"}, StartReturns(t, r)
        PROVE  pc' \in [Threads -> Labels] /\ frame' \in [Threads -> Frames]
    BY <1>f, StartReturnsFacts
  <1>g. ASSUME NEW l \in Labels, Goto(t, l)
        PROVE  pc' \in [Threads -> Labels]
    BY <1>g DEF Goto, TypeOK
  <1>l. StartLabels \subseteq Labels
    BY DEF Labels
  <1>k. ASSUME NEW P, Kill(P)
        PROVE  proc' \in [Procs -> {"gone", "alive", "zombie"}]
    BY <1>k, KillFacts DEF TypeOK
  <1>o. /\ frame[t] \in Frames
        /\ frame[t].own \in Procs \cup {NoProc}
    BY DEF TypeOK, Frames
  <1>c. conf.routing \in SUBSET {"tproxy", "tun", "redirect"}
    BY LifecycleAssumption DEF TypeOK, Configs
  <1>1. CASE KillPid(t)
    BY <1>1, <1>g, <1>k, <1>l DEF KillPid, Remove, TypeOK, StartLabels
  <1>2. CASE KillAll(t)
    BY <1>2, <1>g, <1>k, <1>l DEF KillAll, TypeOK, StartLabels
  <1>3. CASE SpawnFails(t)
    BY <1>3, <1>f DEF SpawnFails, TypeOK
  <1>4. CASE Spawn(t)
    <2>1. PICK p \in Procs :
             /\ Free(p)
             /\ proc' = [proc EXCEPT ![p] = "alive"]
             /\ frame' = [frame EXCEPT ![t].own = p, ![t].setup = Active(conf.routing)]
      BY <1>4 DEF Spawn
    <2>2. Active(conf.routing) \in BOOLEAN
      BY DEF Active
    <2>3. frame' \in [Threads -> Frames]
      BY <1>o, <2>1, <2>2 DEF TypeOK, Frames
    <2>4. proc' \in [Procs -> {"gone", "alive", "zombie"}]
      BY <2>1 DEF TypeOK
    <2> QED BY <1>4, <1>g, <1>l, <2>3, <2>4 DEF Spawn, TypeOK, StartLabels
  <1>5. CASE Register(t)
    <2>1. pc' \in [Threads -> Labels]
      BY <1>5 DEF Register, TypeOK, Labels, StartLabels
    <2> QED BY <1>5, <2>1 DEF Register, TypeOK
  <1>6. CASE WritePid(t)
    <2>1. pc' \in [Threads -> Labels]
      BY <1>6, <1>g, <1>l DEF WritePid, StartLabels
    <2> QED BY <1>6, <1>o, <2>1 DEF WritePid, TypeOK
  <1>7. CASE WritePidFails(t)
    BY <1>7, <1>f, <1>k DEF WritePidFails, TypeOK
  <1>8. CASE Ready(t)
    BY <1>8, <1>g, <1>l DEF Ready, TypeOK, StartLabels
  <1>9. CASE NotReady(t)
    BY <1>9, <1>f, <1>k DEF NotReady, UndoStart, Remove, TypeOK
  <1>10. CASE Route(t)
    <2>1. Installs(conf.routing, kernel', undo')
      BY <1>10 DEF Route, Installs
    <2>2. kernel' \in KernelStates /\ undo' \subseteq {"fw4", "sysctl"}
      BY <1>c, <2>1, SetupFacts
    <2> QED BY <1>10, <1>g, <1>l, <2>2 DEF Route, TypeOK, StartLabels
  <1>11. CASE RouteFails(t)
    <2>1. \E m \in conf.routing : FailsAt(m, conf.routing, kernel', undo')
      BY <1>11 DEF RouteFails, FailsAt
    <2>2. kernel' \in KernelStates /\ undo' \subseteq {"fw4", "sysctl"}
      BY <1>c, <2>1, SetupFacts
    <2>3. /\ UndoStart(t)
          /\ UNCHANGED <<isStopping, healthOn, conf, disk>>
      BY <1>11 DEF RouteFails
    <2> QED BY <1>f, <1>k, <2>2, <2>3 DEF UndoStart, Remove, TypeOK
  <1>12. CASE StartSave(t)
    <2>1. conf' \in Configs /\ disk' \in Configs
      BY <1>12 DEF StartSave, Save, SaveFails, TypeOK, Configs
    <2> QED BY <1>12, <1>g, <1>l, <2>1 DEF StartSave, TypeOK, StartLabels
  <1>13. CASE Health(t)
    BY <1>13, <1>f DEF Health, TypeOK
  <1> QED
    BY <1>1, <1>2, <1>3, <1>4, <1>5, <1>6, <1>7, <1>8, <1>9, <1>10, <1>11, <1>12, <1>13
    DEF StartStep

LEMMA TypeOther ==
    ASSUME TypeOK, NEW t \in Threads,
           Status(t) \/ Change(t) \/ Recheck(t) \/ Rollback(t) \/ Answer(t)
    PROVE  TypeOK'
  <1> USE LifecycleAssumption
  <1>g. ASSUME NEW l \in Labels, Goto(t, l)
        PROVE  pc' \in [Threads -> Labels]
    BY <1>g DEF Goto, TypeOK
  <1>o. /\ frame[t] \in Frames
        /\ frame[t].new \in Modes
        /\ frame[t].prev \in Modes
        /\ conf.routing \in Modes
    BY DEF TypeOK, Frames, Configs
  <1>p. DropStalePid => pidFile' \in Procs \cup {NoProc}
    BY DEF DropStalePid, Remove, TypeOK
  <1>1. CASE Status(t)
    <2>1. frame' \in [Threads -> Frames]
      BY <1>1, <1>o DEF Status, TypeOK, Frames
    <2> QED BY <1>1, <1>g, <1>p, <2>1 DEF Status, TypeOK, Labels
  <1>2. CASE Change(t)
    <2>1. conf' \in Configs /\ disk' \in Configs
      BY <1>2, <1>o DEF Change, SaveFails, TypeOK, Configs
    <2>2. frame' \in [Threads -> Frames]
      BY <1>2, <1>o DEF Change, TypeOK, Frames
    <2>3. pc' \in [Threads -> Labels]
      BY <1>2, <1>g DEF Change, Labels, StopLabels
    <2> QED BY <1>2, <1>p, <2>1, <2>2, <2>3 DEF Change, TypeOK
  <1>3. CASE Recheck(t)
    <2>1. frame' \in [Threads -> Frames]
      BY <1>3, <1>o DEF Recheck, TypeOK, Frames
    <2>2. pc' \in [Threads -> Labels]
      BY <1>3, <1>g DEF Recheck, Labels, StartLabels
    <2> QED BY <1>3, <1>p, <2>1, <2>2 DEF Recheck, TypeOK
  <1>4. CASE Rollback(t)
    <2>1. frame' \in [Threads -> Frames]
      BY <1>4, <1>o DEF Rollback, TypeOK, Frames
    <2>2. conf' \in Configs /\ disk' \in Configs
      BY <1>4, <1>o DEF Rollback, Save, SaveFails, TypeOK, Configs
    <2> QED BY <1>4, <1>g, <2>1, <2>2 DEF Rollback, TypeOK, Labels, StopLabels
  <1>5. CASE Answer(t)
    <2>1. frame' \in [Threads -> Frames]
      BY <1>5, IdleFrameType DEF Answer, TypeOK
    <2> QED BY <1>5, <1>g, <2>1 DEF Answer, TypeOK, Labels
  <1> QED
    BY <1>1, <1>2, <1>3, <1>4, <1>5

LEMMA TypeWaiter ==
    ASSUME TypeOK, NEW p \in Procs, Waiter(p) \/ CoreDies(p)
    PROVE  TypeOK'
  <1> USE LifecycleAssumption
  <1>g. ASSUME NEW l \in Labels, Goto(p, l)
        PROVE  pc' \in [Threads -> Labels]
    BY <1>g DEF Goto, TypeOK
  <1>1. CASE Reap(p)
    BY <1>1, <1>g DEF Reap, TypeOK, Labels
  <1>2. CASE Exited(p)
    <2>1. pc' \in [Threads -> Labels]
      BY <1>2, <1>g DEF Exited, Labels
    <2> QED BY <1>2, <2>1 DEF Exited, TypeOK
  <1>3. CASE UnlinkPid(p)
    <2>1. pc' \in [Threads -> Labels]
      BY <1>3, <1>g DEF UnlinkPid, Labels
    <2> QED BY <1>3, <2>1 DEF UnlinkPid, Remove, TypeOK
  <1>4. CASE GiveUp(p)
    BY <1>4, <1>g DEF GiveUp, TypeOK, Labels
  <1>5. CASE CrashRestart(p)
    <2>1. frame' \in [Threads -> Frames]
      BY <1>5, RestartFrameType DEF CrashRestart, TypeOK
    <2> QED BY <1>5, <1>g, <2>1 DEF CrashRestart, TypeOK, Labels, StopLabels
  <1>6. CASE CoreDies(p)
    BY <1>6 DEF CoreDies, TypeOK
  <1> QED
    BY <1>1, <1>2, <1>3, <1>4, <1>5, <1>6 DEF Waiter

LEMMA TypeStep == TypeOK /\ [Next]_vars => TypeOK'
  <1>1. TypeOK /\ UNCHANGED vars => TypeOK'
    BY DEF TypeOK, vars
  <1> QED
    BY <1>1, TypeCall, TypeStop, TypeStart, TypeOther, TypeWaiter DEF Next, Step

\* Every variable keeps its type, whatever the callers do.
THEOREM TypeCorrect == Spec => []TypeOK
  BY TypeInit, TypeStep, PTL DEF Spec

-----------------------------------------------------------------------------
(***************************************************************************)
(* Every core is watched.  The strengthening says that the core a Start is *)
(* about to leave to a goroutine is its own alone, and that the goroutine  *)
(* of that name is not in use for anything else.                           *)
(***************************************************************************)
IWatched ==
    /\ \A t \in Threads : pc[t] = "register" =>
          frame[t].own \in Procs /\ pc[frame[t].own] = "idle"
    /\ \A s, t \in Threads : pc[s] = "register" /\ frame[t].own = frame[s].own => s = t
    /\ EveryCoreIsWatched

LEMMA WatchedInit == Init => IWatched
  BY DEF Init, IWatched, EveryCoreIsWatched

\* A step that moves one thread, neither to nor from "register", and neither
\* creates nor reaps a core, keeps the invariant.
LEMMA WatchedNeutral ==
    ASSUME TypeOK, IWatched,
           NEW t \in Threads, NEW l \in Labels \ {"register"},
           pc' = [pc EXCEPT ![t] = l],
           pc[t] \notin {"wait", "register"},
           pc[t] = "idle" => t \notin Procs,
           \A p \in Procs : proc'[p] = "gone" <=> proc[p] = "gone",
           \A s \in Threads \ {t} : frame'[s].own = frame[s].own,
           frame'[t].own \in {frame[t].own, NoProc}
    PROVE  IWatched'
  <1>1. \A s \in Threads : pc'[s] = IF s = t THEN l ELSE pc[s]
    BY DEF TypeOK
  <1>2. ASSUME NEW s \in Threads, pc'[s] = "register"
        PROVE  /\ s # t /\ pc[s] = "register" /\ frame'[s].own = frame[s].own
               /\ frame[s].own \in Procs /\ pc[frame[s].own] = "idle"
    BY <1>1, <1>2 DEF IWatched
  <1>3. \A s \in Threads : pc'[s] = "register" =>
           frame'[s].own \in Procs /\ pc'[frame'[s].own] = "idle"
    BY <1>1, <1>2
  <1>4. ASSUME NEW s \in Threads, NEW u \in Threads,
               pc'[s] = "register", frame'[u].own = frame'[s].own
        PROVE  s = u
    <2>1. frame[u].own = frame[s].own
      BY <1>2, <1>4, LifecycleAssumption
    <2> QED BY <1>2, <1>4, <2>1 DEF IWatched
  <1>5. EveryCoreIsWatched'
    <2> SUFFICES ASSUME NEW p \in Procs, proc'[p] # "gone", pc'[p] # "wait"
                 PROVE  \E s \in Threads : pc'[s] = "register" /\ frame'[s].own = p
      BY DEF EveryCoreIsWatched
    <2>1. PICK s \in Threads : pc[s] = "register" /\ frame[s].own = p
      BY <1>1 DEF IWatched, EveryCoreIsWatched
    <2>2. s # t
      BY <2>1
    <2> QED BY <1>1, <2>1, <2>2
  <1> QED
    BY <1>3, <1>4, <1>5 DEF IWatched

\* The steps that are not neutral: a Start spawns its core, hands it over to
\* its goroutine, and the goroutine reaps it.
LEMMA WatchedSpawn ==
    ASSUME TypeOK, IWatched, NEW t \in Threads, Spawn(t)
    PROVE  IWatched'
  <1>1. PICK p \in Procs :
           /\ Free(p)
           /\ proc' = [proc EXCEPT ![p] = "alive"]
           /\ frame' = [frame EXCEPT ![t].own = p, ![t].setup = Active(conf.routing)]
    BY DEF Spawn
  <1>2. pc[t] = "spawn" /\ pc' = [pc EXCEPT ![t] = "register"]
    BY DEF Spawn, Goto
  <1>3. /\ \A s \in Threads : frame'[s].own = IF s = t THEN p ELSE frame[s].own
        /\ \A s \in Threads : pc'[s] = IF s = t THEN "register" ELSE pc[s]
        /\ \A q \in Procs : proc'[q] = IF q = p THEN "alive" ELSE proc[q]
    BY <1>1, <1>2 DEF TypeOK, Frames
  <1>4. /\ pc[p] = "idle" /\ p # t
        /\ \A s \in Threads : frame[s].own # p
    BY <1>1, <1>2 DEF Free
  <1>5. \A s \in Threads : pc'[s] = "register" =>
           frame'[s].own \in Procs /\ pc'[frame'[s].own] = "idle"
    BY <1>2, <1>3, <1>4 DEF IWatched
  <1>6. \A s, u \in Threads : pc'[s] = "register" /\ frame'[u].own = frame'[s].own => s = u
    BY <1>3, <1>4 DEF IWatched
  <1>7. EveryCoreIsWatched'
    BY <1>2, <1>3, <1>4 DEF IWatched, EveryCoreIsWatched
  <1> QED
    BY <1>5, <1>6, <1>7 DEF IWatched

LEMMA WatchedRegister ==
    ASSUME TypeOK, IWatched, NEW t \in Threads, Register(t)
    PROVE  IWatched'
  <1> DEFINE p == frame[t].own
  <1>1. /\ pc[t] = "register" /\ p \in Procs /\ pc[p] = "idle" /\ p # t
        /\ UNCHANGED <<proc, frame>>
    BY DEF Register, IWatched
  <1>2. \A s \in Threads : pc'[s] = IF s = p THEN "wait"
                                    ELSE IF s = t THEN "writePid" ELSE pc[s]
    BY <1>1 DEF Register, TypeOK
  <1> HIDE DEF p
  <1>3. \A s \in Threads : pc'[s] = "register" =>
           frame'[s].own \in Procs /\ pc'[frame'[s].own] = "idle"
    <2> SUFFICES ASSUME NEW s \in Threads, pc'[s] = "register"
                 PROVE  frame'[s].own \in Procs /\ pc'[frame'[s].own] = "idle"
      OBVIOUS
    <2>1. pc[s] = "register" /\ s # t
      BY <1>2
    <2>2. frame[s].own \in Procs /\ pc[frame[s].own] = "idle" /\ frame[s].own # p
      BY <1>1, <2>1 DEF IWatched, p
    <2> QED BY <1>1, <1>2, <2>2
  <1>4. \A s, u \in Threads : pc'[s] = "register" /\ frame'[u].own = frame'[s].own => s = u
    BY <1>1, <1>2 DEF IWatched
  <1>5. EveryCoreIsWatched'
    BY <1>1, <1>2 DEF IWatched, EveryCoreIsWatched, p
  <1> QED
    BY <1>3, <1>4, <1>5 DEF IWatched

LEMMA WatchedReap ==
    ASSUME TypeOK, IWatched, NEW p \in Procs, Reap(p)
    PROVE  IWatched'
  <1>1. /\ pc[p] = "wait"
        /\ \A s \in Threads : pc'[s] = IF s = p THEN "exited" ELSE pc[s]
        /\ \A q \in Procs : proc'[q] = IF q = p THEN "gone" ELSE proc[q]
        /\ frame' = frame
    BY DEF Reap, Goto, TypeOK
  <1> QED
    BY <1>1 DEF IWatched, EveryCoreIsWatched

LEMMA WatchedStep == TypeOK /\ IWatched /\ [Next]_vars => IWatched'
  <1> SUFFICES ASSUME TypeOK, IWatched, [Next]_vars
               PROVE  IWatched'
    OBVIOUS
  <1> USE LifecycleAssumption
  <1>1. CASE UNCHANGED vars
    BY <1>1 DEF vars, IWatched, EveryCoreIsWatched
  <1>2. ASSUME NEW c \in Callers, Call(c)
        PROVE  IWatched'
    <2>1. PICK l \in {"status", "killPid", "mark", "change"}, f \in Frames :
             Begin(c, l, f) /\ f.own = NoProc
      BY <1>2, CallBegins
    <2>2. /\ c \notin Procs /\ pc[c] = "idle"
          /\ pc' = [pc EXCEPT ![c] = l] /\ l \in Labels \ {"register"}
          /\ frame'[c].own = NoProc
          /\ \A s \in Threads \ {c} : frame'[s] = frame[s]
          /\ proc' = proc
      BY <2>1 DEF Begin, Goto, TypeOK, Labels, StopLabels, StartLabels
    <2> QED BY <2>2, WatchedNeutral
  <1>3. ASSUME NEW t \in Threads, Step(t)
        PROVE  IWatched'
    <2> DEFINE NeutralStep == \E l \in Labels \ {"register"} :
                  /\ pc' = [pc EXCEPT ![t] = l]
                  /\ pc[t] \notin {"wait", "register", "idle"}
                  /\ \A p \in Procs : proc'[p] = "gone" <=> proc[p] = "gone"
                  /\ \A s \in Threads \ {t} : frame'[s].own = frame[s].own
                  /\ frame'[t].own \in {frame[t].own, NoProc}
    <2>n. NeutralStep => IWatched'
      BY WatchedNeutral
    <2>k. ASSUME NEW P
          PROVE  /\ Kill(P) => \A p \in Procs : proc'[p] = "gone" <=> proc[p] = "gone"
                 /\ \A p \in Procs : Killed(P)[p] = "gone" <=> proc[p] = "gone"
      BY KillFacts, KilledFacts DEF TypeOK
    <2>o. frame[t] \in Frames
      BY DEF TypeOK
    <2>1. CASE StopStep(t)
      <3>1. ASSUME NEW r \in {"ok", "notRunning", "err"}, StopReturns(t, r)
            PROVE  /\ \E l \in Labels \ {"register"} : pc' = [pc EXCEPT ![t] = l]
                   /\ \A s \in Threads : frame'[s].own = frame[s].own
        BY <3>1, StopReturnsFacts DEF Labels, StartLabels
      <3>2. /\ \E l \in Labels \ {"register"} : pc' = [pc EXCEPT ![t] = l]
            /\ \A s \in Threads : frame'[s].own = frame[s].own
        BY <2>1, <3>1 DEF StopStep, Mark, StopStatus, StopKill, StopUnlink, StopRoute,
           StopSave, Goto, Labels, StopLabels
      <3>3. /\ pc[t] \in StopLabels
            /\ \A p \in Procs : proc'[p] = "gone" <=> proc[p] = "gone"
        BY <2>1, <2>k DEF StopStep, Mark, StopStatus, StopKill, StopUnlink, StopRoute,
           StopSave, StopLabels
      <3> QED BY <2>n, <3>2, <3>3 DEF StopLabels
    <2>2. CASE StartStep(t) /\ ~Spawn(t) /\ ~Register(t)
      <3>1. ASSUME NEW r \in {"ok", "err"}, StartReturns(t, r)
            PROVE  /\ \E l \in Labels \ {"register"} : pc' = [pc EXCEPT ![t] = l]
                   /\ \A s \in Threads \ {t} : frame'[s].own = frame[s].own
                   /\ frame'[t].own \in {frame[t].own, NoProc}
        BY <3>1, StartReturnsFacts DEF Labels
      <3>2. /\ \E l \in Labels \ {"register"} : pc' = [pc EXCEPT ![t] = l]
            /\ \A s \in Threads \ {t} : frame'[s].own = frame[s].own
            /\ frame'[t].own \in {frame[t].own, NoProc}
        BY <2>2, <3>1 DEF StartStep, KillPid, KillAll, SpawnFails, WritePid, WritePidFails,
           Ready, NotReady, UndoStart, Route, RouteFails, StartSave, Health, Goto,
           Labels, StartLabels
      <3>3. /\ pc[t] \in StartLabels \ {"register"}
            /\ \A p \in Procs : proc'[p] = "gone" <=> proc[p] = "gone"
        BY <2>2, <2>k DEF StartStep, KillPid, KillAll, SpawnFails, WritePid, WritePidFails,
           Ready, NotReady, UndoStart, Route, RouteFails, StartSave, Health, StartLabels
      <3> QED BY <2>n, <3>2, <3>3 DEF StartLabels
    <2>3. CASE Status(t) \/ Change(t) \/ Recheck(t) \/ Rollback(t) \/ Answer(t)
      <3>1. \E l \in Labels \ {"register"} : pc' = [pc EXCEPT ![t] = l]
        BY <2>3 DEF Status, Change, Recheck, Rollback, Answer, Goto, Labels, StopLabels,
           StartLabels
      <3>2. /\ \A s \in Threads \ {t} : frame'[s].own = frame[s].own
            /\ frame'[t].own \in {frame[t].own, NoProc}
        BY <2>3, <2>o DEF Status, Change, Recheck, Rollback, Answer, TypeOK, Frames, IdleFrame
      <3>3. pc[t] \in {"status", "change", "recheck", "rollback", "answer"} /\ proc' = proc
        BY <2>3 DEF Status, Change, Recheck, Rollback, Answer
      <3> QED BY <2>n, <3>1, <3>2, <3>3
    <2> QED
      BY <1>3, <2>1, <2>2, <2>3, WatchedSpawn, WatchedRegister DEF Step
  <1>4. ASSUME NEW p \in Procs, Waiter(p)
        PROVE  IWatched'
    <2>1. CASE Exited(p) \/ UnlinkPid(p) \/ GiveUp(p) \/ CrashRestart(p)
      <3>1. \E l \in Labels \ {"register"} : pc' = [pc EXCEPT ![p] = l]
        BY <2>1 DEF Exited, UnlinkPid, GiveUp, CrashRestart, Goto, Labels, StopLabels
      <3>2. /\ \A s \in Threads \ {p} : frame'[s].own = frame[s].own
            /\ frame'[p].own \in {frame[p].own, NoProc}
        BY <2>1, RestartFrameType DEF Exited, UnlinkPid, GiveUp, CrashRestart, TypeOK
      <3>3. pc[p] \in {"exited", "unlinkPid", "backoff"} /\ proc' = proc
        BY <2>1 DEF Exited, UnlinkPid, GiveUp, CrashRestart
      <3> QED BY <3>1, <3>2, <3>3, WatchedNeutral
    <2> QED BY <1>4, <2>1, WatchedReap DEF Waiter
  <1>5. ASSUME NEW p \in Procs, CoreDies(p)
        PROVE  IWatched'
    BY <1>5 DEF CoreDies, TypeOK, IWatched, EveryCoreIsWatched
  <1> QED
    BY <1>1, <1>2, <1>3, <1>4, <1>5 DEF Next

\* However Starts, Stops and restarts overlap, every core has a goroutine that
\* will reap it and report its exit.
THEOREM CoresAreWatched == Spec => []EveryCoreIsWatched
  <1>1. IWatched => EveryCoreIsWatched
    BY DEF IWatched
  <1> QED
    BY <1>1, TypeInit, TypeStep, WatchedInit, WatchedStep, PTL DEF Spec

-----------------------------------------------------------------------------
(***************************************************************************)
(* How many cores.  A core more is a Start that leaves its window between  *)
(* killall and spawn, and a Start that enters it leaves no core alive: the *)
(* cores and the Starts in the window together are never more than there   *)
(* have been in the window at once.                                        *)
(***************************************************************************)
LEMMA AliveIsFinite == IsFiniteSet(Alive) /\ IsFiniteSet(Spawning)
  <1>1. IsFiniteSet(Callers \cup Procs) /\ IsFiniteSet(Procs)
    BY LifecycleAssumption, FS_Union
  <1>2. Alive \subseteq Procs /\ Spawning \subseteq Callers \cup Procs
    BY DEF Alive, Spawning
  <1> QED
    BY <1>1, <1>2, FS_Subset

LEMMA KilledAlive ==
    ASSUME TypeOK, NEW P, proc' = Killed(P)
    PROVE  Alive' = Alive \ P
  BY KilledFacts DEF TypeOK, Alive

LEMMA KillAlive ==
    ASSUME TypeOK, NEW P, Kill(P), "kill" \notin Faults
    PROVE  Alive' = Alive \ P
  BY KillFacts DEF TypeOK

Bounded(n) == Cardinality(Alive) + Cardinality(Spawning) <= n

\* The three ways in which a step changes the cores and the Starts in the window.
WindowStays == Alive' \subseteq Alive /\ Spawning' \subseteq Spawning
WindowOpens == Alive' = {}
WindowCloses == \E p \in Procs, t \in Spawning : Alive' = Alive \cup {p} /\ Spawning' \subseteq Spawning \ {t}

LEMMA WindowStep ==
    ASSUME TypeOK, "kill" \notin Faults, [Next]_vars
    PROVE  WindowStays \/ WindowOpens \/ WindowCloses
  <1> USE LifecycleAssumption
  <1>n. ASSUME NEW t \in Threads, NEW l \in Labels \ {"spawn"}, pc' = [pc EXCEPT ![t] = l],
               Alive' \subseteq Alive
        PROVE  WindowStays
    BY <1>n DEF WindowStays, Spawning, TypeOK
  <1>p. UNCHANGED proc => Alive' = Alive
    BY DEF Alive
  <1>1. CASE UNCHANGED vars
    BY <1>1 DEF vars, WindowStays, Alive, Spawning
  <1>2. ASSUME NEW c \in Callers, Call(c)
        PROVE  WindowStays
    <2>1. PICK l \in {"status", "killPid", "mark", "change"}, f \in Frames : Begin(c, l, f)
      BY <1>2, CallBegins
    <2>2. l \in Labels \ {"spawn"} /\ pc' = [pc EXCEPT ![c] = l] /\ Alive' = Alive
      BY <1>p, <2>1 DEF Begin, Goto, Labels, StopLabels, StartLabels
    <2> QED BY <1>n, <2>2
  <1>3. ASSUME NEW t \in Threads, StopStep(t)
        PROVE  WindowStays
    <2>1. ASSUME NEW r \in {"ok", "notRunning", "err"}, StopReturns(t, r)
          PROVE  \E l \in Labels \ {"spawn"} : pc' = [pc EXCEPT ![t] = l]
      BY <2>1, StopReturnsFacts DEF Labels, StartLabels
    <2>2. \E l \in Labels \ {"spawn"} : pc' = [pc EXCEPT ![t] = l]
      BY <1>3, <2>1 DEF StopStep, Mark, StopStatus, StopKill, StopUnlink, StopRoute,
         StopSave, Goto, Labels, StopLabels
    <2>3. proc' = proc \/ proc' = Killed({pidFile})
      BY <1>3 DEF StopStep, Mark, StopStatus, StopKill, StopUnlink, StopRoute, StopSave
    <2>4. Alive' \subseteq Alive
      BY <1>p, <2>3, KilledAlive
    <2> QED BY <1>n, <2>2, <2>4
  <1>4. ASSUME NEW t \in Threads, StartStep(t)
        PROVE  WindowStays \/ WindowOpens \/ WindowCloses
    <2>1. CASE KillAll(t)
      <3>1. Alive' = Alive \ Procs
        BY <2>1, KillAlive DEF KillAll
      <3> QED BY <3>1 DEF WindowOpens, Alive
    <2>2. CASE Spawn(t)
      <3>1. PICK p \in Procs : proc' = [proc EXCEPT ![p] = "alive"]
        BY <2>2 DEF Spawn
      <3>2. Alive' = Alive \cup {p}
        BY <3>1 DEF Alive, TypeOK
      <3>3. t \in Spawning /\ Spawning' \subseteq Spawning \ {t}
        BY <2>2 DEF Spawn, Goto, Spawning, TypeOK
      <3> QED BY <3>2, <3>3 DEF WindowCloses
    <2>3. CASE Register(t)
      <3>1. Spawning' \subseteq Spawning
        BY <2>3 DEF Register, Spawning, TypeOK
      <3> QED BY <1>p, <2>3, <3>1 DEF Register, WindowStays
    <2>4. CASE KillPid(t) \/ SpawnFails(t) \/ WritePid(t) \/ WritePidFails(t) \/ Ready(t) \/ NotReady(t)
               \/ Route(t) \/ RouteFails(t) \/ StartSave(t) \/ Health(t)
      <3>1. ASSUME NEW r \in {"ok", "err"}, StartReturns(t, r)
            PROVE  \E l \in Labels \ {"spawn"} : pc' = [pc EXCEPT ![t] = l]
        BY <3>1, StartReturnsFacts DEF Labels
      <3>2. \E l \in Labels \ {"spawn"} : pc' = [pc EXCEPT ![t] = l]
        BY <2>4, <3>1 DEF KillPid, SpawnFails, WritePid, WritePidFails, Ready, NotReady, UndoStart,
           Route, RouteFails, StartSave, Health, Goto, Labels, StartLabels
      <3>3. UNCHANGED proc \/ \E P : Kill(P)
        BY <2>4 DEF KillPid, SpawnFails, WritePid, WritePidFails, Ready, NotReady, UndoStart,
           Route, RouteFails, StartSave, Health
      <3>4. Alive' \subseteq Alive
        BY <1>p, <3>3, KillFacts DEF TypeOK
      <3> QED BY <1>n, <3>2, <3>4
    <2> QED BY <1>4, <2>1, <2>2, <2>3, <2>4 DEF StartStep
  <1>5. ASSUME NEW t \in Threads, Status(t) \/ Change(t) \/ Recheck(t) \/ Rollback(t) \/ Answer(t)
        PROVE  WindowStays
    <2>1. \E l \in Labels \ {"spawn"} : pc' = [pc EXCEPT ![t] = l]
      BY <1>5 DEF Status, Change, Recheck, Rollback, Answer, Goto, Labels, StopLabels, StartLabels
    <2>2. Alive' = Alive
      BY <1>p, <1>5 DEF Status, Change, Recheck, Rollback, Answer
    <2> QED BY <1>n, <2>1, <2>2
  <1>6. ASSUME NEW p \in Procs, Waiter(p)
        PROVE  WindowStays
    <2>1. \E l \in Labels \ {"spawn"} : pc' = [pc EXCEPT ![p] = l]
      BY <1>6 DEF Waiter, Reap, Exited, UnlinkPid, GiveUp, CrashRestart, Goto, Labels, StopLabels
    <2>2. Alive' \subseteq Alive
      BY <1>6 DEF Waiter, Reap, Exited, UnlinkPid, GiveUp, CrashRestart, Alive, TypeOK
    <2> QED BY <1>n, <2>1, <2>2
  <1>7. ASSUME NEW p \in Procs, CoreDies(p)
        PROVE  WindowStays
    BY <1>7 DEF CoreDies, Alive, Spawning, WindowStays, TypeOK
  <1> QED
    BY <1>1, <1>2, <1>3, <1>4, <1>5, <1>6, <1>7 DEF Next, Step

LEMMA OneMore ==
    ASSUME NEW S, NEW x, IsFiniteSet(S)
    PROVE  Cardinality(S \cup {x}) <= Cardinality(S) + 1
  <1>1. Cardinality(S) \in Nat
    BY FS_CardinalityType
  <1>2. CASE x \in S
    <2>1. S \cup {x} = S
      BY <1>2
    <2> QED BY <1>1, <2>1
  <1>3. CASE x \notin S
    <2>1. Cardinality(S \cup {x}) = IF x \in S THEN Cardinality(S) ELSE Cardinality(S) + 1
      BY FS_AddElement, Zenon
    <2> QED BY <1>1, <1>3, <2>1
  <1> QED
    BY <1>2, <1>3

LEMMA BoundedStep ==
    ASSUME TypeOK, "kill" \notin Faults, NEW n \in Nat, Bounded(n), [Next]_vars,
           (Cardinality(Spawning) <= n)'
    PROVE  Bounded(n)'
  <1>1. /\ IsFiniteSet(Alive) /\ IsFiniteSet(Spawning)
        /\ Cardinality(Alive) \in Nat /\ Cardinality(Spawning) \in Nat
    BY AliveIsFinite, FS_CardinalityType
  <1>2. IsFiniteSet(Alive') /\ IsFiniteSet(Spawning')
    <2>1. IsFiniteSet(Callers \cup Procs) /\ IsFiniteSet(Procs)
      BY LifecycleAssumption, FS_Union
    <2>2. Alive' \subseteq Procs /\ Spawning' \subseteq Callers \cup Procs
      BY DEF Alive, Spawning
    <2> QED BY <2>1, <2>2, FS_Subset
  <1>3. Cardinality(Alive') \in Nat /\ Cardinality(Spawning') \in Nat
    BY <1>2, FS_CardinalityType
  <1>4. CASE WindowStays
    <2>1. Cardinality(Alive') <= Cardinality(Alive) /\ Cardinality(Spawning') <= Cardinality(Spawning)
      BY <1>1, <1>4, FS_Subset DEF WindowStays
    <2> QED BY <1>1, <1>3, <2>1 DEF Bounded
  <1>5. CASE WindowOpens
    <2>1. Cardinality(Alive') = 0
      BY <1>5, FS_EmptySet DEF WindowOpens
    <2> QED BY <1>3, <2>1 DEF Bounded
  <1>6. CASE WindowCloses
    <2>1. PICK p \in Procs, t \in Spawning : Alive' = Alive \cup {p} /\ Spawning' \subseteq Spawning \ {t}
      BY <1>6 DEF WindowCloses
    <2>2. Cardinality(Alive') <= Cardinality(Alive) + 1
      <3>1. Cardinality(Alive \cup {p}) <= Cardinality(Alive) + 1
        BY <1>1, OneMore
      <3> QED BY <2>1, <3>1
    <2>3. /\ IsFiniteSet(Spawning \ {t})
          /\ Cardinality(Spawning \ {t}) = Cardinality(Spawning) - 1
      BY <1>1, <2>1, FS_RemoveElement
    <2>4. Cardinality(Spawning') <= Cardinality(Spawning \ {t})
      BY <2>1, <2>3, FS_Subset
    <2> QED BY <1>1, <1>3, <2>2, <2>3, <2>4 DEF Bounded
  <1> QED
    BY <1>4, <1>5, <1>6, WindowStep

LEMMA BoundedInit ==
    ASSUME Init, NEW n \in Nat
    PROVE  Bounded(n)
  <1>1. Alive = {} /\ Spawning = {}
    BY DEF Init, Alive, Spawning
  <1> QED
    BY <1>1, FS_EmptySet DEF Bounded

LEMMA BoundedAlive ==
    ASSUME NEW n \in Nat, Bounded(n)
    PROVE  Cardinality(Alive) <= n
  BY AliveIsFinite, FS_CardinalityType DEF Bounded

\* However Starts overlap, whatever fails except a kill: there are never more
\* cores than there have been Starts at once between killall and spawn.
THEOREM CoresAreBounded ==
    ASSUME "kill" \notin Faults
    PROVE  Spec => CoresNeedOpenWindows
  <1> SUFFICES ASSUME NEW n \in 1 .. Cardinality(Procs) - 1
               PROVE  Spec /\ [](Cardinality(Spawning) <= n) => [](Cardinality(Alive) <= n)
    BY DEF CoresNeedOpenWindows
  <1>0. n \in Nat
    BY LifecycleAssumption, FS_CardinalityType
  <1>1. Init => Bounded(n)
    BY <1>0, BoundedInit
  <1>2. TypeOK /\ Bounded(n) /\ [Next]_vars /\ (Cardinality(Spawning) <= n)' => Bounded(n)'
    BY <1>0, BoundedStep
  <1>3. Bounded(n) => Cardinality(Alive) <= n
    BY <1>0, BoundedAlive
  <1> QED
    BY <1>1, <1>2, <1>3, TypeInit, TypeStep, PTL DEF Spec

-----------------------------------------------------------------------------
(***************************************************************************)
(* One core.  While a Start is between its killall and the pid file it     *)
(* writes, no core but its own is alive, and no pid file exists unless it  *)
(* could not be removed; this is stable as long as no other Start is under *)
(* way.                                                                    *)
(***************************************************************************)
Committed == {"killAll", "spawn", "register", "writePid"}

IOneCore ==
    /\ AtMostOneCore
    /\ PidFileNamesCore
    /\ "remove" \notin Faults => \A t \in Threads : pc[t] \in Committed => pidFile = NoProc
    /\ \A t \in Threads : pc[t] = "spawn" => Alive = {}
    /\ \A t \in Threads : pc[t] \in {"register", "writePid"} => Alive \subseteq {frame[t].own}
    /\ \A t \in Threads : pc[t] = "killAll" => \A p \in Alive : pidFile \in {p, NoProc}
    /\ \A t \in Threads : pc[t] = "register" => frame[t].own # t

LEMMA OneCoreInit == Init => IOneCore
  BY DEF Init, IOneCore, AtMostOneCore, PidFileNamesCore, Alive, Committed

\* A step that makes no core alive, names no core in the pid file, and neither
\* takes a thread into Committed nor one out of register or writePid.
LEMMA OneCoreNeutral ==
    ASSUME IOneCore, Alive' \subseteq Alive, pidFile' \in {pidFile, NoProc},
           \A s \in Threads : pc'[s] \in Committed =>
              pc'[s] = pc[s] /\ frame'[s].own = frame[s].own,
           \A s \in Threads : pc[s] \in {"register", "writePid"} =>
              pc'[s] = pc[s] /\ frame'[s].own = frame[s].own
    PROVE  IOneCore'
  <1>1. AtMostOneCore'
    BY DEF IOneCore, AtMostOneCore
  <1>2. PidFileNamesCore'
    BY DEF IOneCore, PidFileNamesCore
  <1> QED
    BY <1>1, <1>2 DEF IOneCore, Committed

LEMMA OneCoreStart ==
    ASSUME TypeOK, IOneCore, SerialStarts, "kill" \notin Faults, NEW t \in Threads, StartStep(t)
    PROVE  IOneCore'
  <1> USE LifecycleAssumption
  <1>i. ASSUME pc[t] \in StartLabels, NEW s \in Threads, pc[s] \in Committed
        PROVE  s = t
    BY <1>i DEF SerialStarts, InStart, StartLabels, Committed
  <1>k. ASSUME NEW P, Kill(P)
        PROVE  Alive' = Alive \ P
    BY <1>k, KillAlive
  <1>n. ASSUME pc[t] \in StartLabels \ {"register", "writePid"},
               Alive' \subseteq Alive, pidFile' \in {pidFile, NoProc},
               NEW l \in Labels \ Committed, pc' = [pc EXCEPT ![t] = l],
               \A s \in Threads \ {t} : frame'[s].own = frame[s].own
        PROVE  IOneCore'
    <2>1. \A s \in Threads : pc'[s] = IF s = t THEN l ELSE pc[s]
      BY <1>n DEF TypeOK
    <2> QED BY <1>n, <2>1, OneCoreNeutral
  <1>1. CASE KillPid(t)
    <2>1. /\ Remove /\ Alive' = Alive \ {pidFile}
          /\ pc[t] = "killPid"
          /\ \A s \in Threads : pc'[s] = IF s = t THEN "killAll" ELSE pc[s]
          /\ frame' = frame
      BY <1>1, <1>k DEF KillPid, Goto, TypeOK
    <2>2. \A s \in Threads : pc[s] \notin Committed
      BY <1>i, <2>1 DEF StartLabels, Committed
    <2>3. \A p \in Alive' : pidFile = NoProc
      BY <2>1, <2>2 DEF IOneCore, PidFileNamesCore, Committed
    <2>4. \A p \in Alive' : pidFile' \in {p, NoProc}
      BY <2>1, <2>3 DEF Remove
    <2>5. "remove" \notin Faults => pidFile' = NoProc
      BY <2>1 DEF Remove
    <2>6. AtMostOneCore' /\ PidFileNamesCore'
      BY <2>1, <2>4 DEF IOneCore, AtMostOneCore, PidFileNamesCore
    <2> QED BY <2>1, <2>2, <2>4, <2>5, <2>6 DEF IOneCore, Committed
  <1>2. CASE KillAll(t)
    <2>1. /\ pidFile' = pidFile /\ Alive' = {} /\ pc[t] = "killAll"
          /\ \A s \in Threads : pc'[s] = IF s = t THEN "spawn" ELSE pc[s]
          /\ frame' = frame
      BY <1>2, <1>k DEF KillAll, Goto, TypeOK, Alive
    <2> QED BY <2>1 DEF IOneCore, AtMostOneCore, PidFileNamesCore, Committed
  <1>3. CASE SpawnFails(t)
    <2>1. \E l \in Labels \ Committed : pc' = [pc EXCEPT ![t] = l]
      BY <1>3, StartReturnsFacts DEF SpawnFails, Labels, Committed
    <2>2. \A s \in Threads \ {t} : frame'[s].own = frame[s].own
      BY <1>3, StartReturnsFacts DEF SpawnFails
    <2>3. /\ pc[t] \in StartLabels \ {"register", "writePid"}
          /\ Alive' \subseteq Alive /\ pidFile' = pidFile
      BY <1>3 DEF SpawnFails, StartLabels, Alive
    <2> QED BY <1>n, <2>1, <2>2, <2>3
  <1>4. CASE Spawn(t)
    <2>1. PICK p \in Procs :
             /\ Free(p)
             /\ proc' = [proc EXCEPT ![p] = "alive"]
             /\ frame' = [frame EXCEPT ![t].own = p, ![t].setup = Active(conf.routing)]
      BY <1>4 DEF Spawn
    <2>2. /\ pc[t] = "spawn" /\ Alive = {}
          /\ "remove" \notin Faults => pidFile = NoProc
          /\ pidFile' = pidFile
          /\ \A s \in Threads : pc'[s] = IF s = t THEN "register" ELSE pc[s]
      BY <1>4 DEF Spawn, Goto, TypeOK, IOneCore, Committed
    <2>3. Alive' = {p}
      BY <2>1, <2>2 DEF TypeOK, Alive
    <2>4. frame'[t].own = p /\ p # t
      BY <2>1, <2>2 DEF TypeOK, Frames, Free
    <2>5. \A s \in Threads : pc'[s] \in Committed => s = t
      BY <1>i, <2>2 DEF StartLabels
    <2>6. AtMostOneCore' /\ PidFileNamesCore'
      BY <2>2, <2>3, <2>4 DEF AtMostOneCore, PidFileNamesCore
    <2> QED
      BY <2>2, <2>3, <2>4, <2>5, <2>6 DEF IOneCore, Committed
  <1>5. CASE Register(t)
    <2>1. /\ pc[t] = "register" /\ UNCHANGED <<proc, pidFile, frame>>
          /\ \A s \in Threads : pc'[s] \in {pc[s], "wait", "writePid"}
          /\ \A s \in Threads : pc'[s] = "writePid" => s = t \/ pc[s] = "writePid"
      BY <1>5 DEF Register, TypeOK
    <2>2. Alive' = Alive
      BY <2>1 DEF Alive
    <2>3. \A s \in Threads : pc[s] \in {"register", "writePid"} => s = t
      BY <1>i, <2>1 DEF StartLabels, Committed
    <2>4. pc'[t] = "writePid"
      BY <1>5, <2>1 DEF Register, TypeOK, IOneCore
    <2>5. PidFileNamesCore'
      BY <2>1, <2>2, <2>3, <2>4 DEF IOneCore, PidFileNamesCore
    <2> QED
      BY <2>1, <2>2, <2>5 DEF IOneCore, AtMostOneCore, Committed
  <1>6. CASE WritePid(t)
    <2>1. /\ pc[t] = "writePid" /\ pidFile' = frame[t].own /\ Alive' = Alive
          /\ Alive \subseteq {frame[t].own}
      BY <1>6 DEF WritePid, Alive, IOneCore
    <2>2. \A s \in Threads : pc'[s] \notin Committed
      BY <1>6, <1>i DEF WritePid, Goto, TypeOK, Committed, StartLabels
    <2> QED
      BY <2>1, <2>2 DEF IOneCore, AtMostOneCore, PidFileNamesCore, Committed
  <1>7. CASE WritePidFails(t)
    <2>1. /\ pc[t] = "writePid" /\ StartReturns(t, "err") /\ pidFile' = pidFile
          /\ Alive' = Alive \ {frame[t].own}
      BY <1>7, <1>k DEF WritePidFails
    <2>2. Alive' = {}
      BY <2>1 DEF IOneCore
    <2>3. \E l \in Labels \ Committed : pc' = [pc EXCEPT ![t] = l]
      BY <2>1, StartReturnsFacts DEF Labels, Committed
    <2>4. \A s \in Threads : pc'[s] \notin Committed
      BY <1>i, <2>1, <2>3 DEF TypeOK, StartLabels
    <2> QED BY <2>2, <2>4 DEF IOneCore, AtMostOneCore, PidFileNamesCore, Committed
  <1>8. CASE NotReady(t) \/ RouteFails(t)
    <2>1. UndoStart(t) /\ pc[t] \in StartLabels \ {"register", "writePid"}
      BY <1>8 DEF NotReady, RouteFails, StartLabels
    <2>2. StartReturns(t, "err") /\ Alive' \subseteq Alive /\ pidFile' \in {pidFile, NoProc}
      BY <1>k, <2>1 DEF UndoStart, Remove
    <2>3. /\ \E l \in Labels \ Committed : pc' = [pc EXCEPT ![t] = l]
          /\ \A s \in Threads \ {t} : frame'[s].own = frame[s].own
      BY <2>2, StartReturnsFacts DEF Labels, Committed
    <2> QED BY <1>n, <2>1, <2>2, <2>3
  <1>9. CASE Ready(t) \/ Route(t) \/ StartSave(t)
    <2>1. /\ pc[t] \in StartLabels \ {"register", "writePid"} /\ pidFile' = pidFile /\ Alive' = Alive
          /\ frame' = frame
          /\ \E l \in Labels \ Committed : pc' = [pc EXCEPT ![t] = l]
      BY <1>9 DEF Ready, Route, StartSave, Goto, Labels, StartLabels, Committed, Alive
    <2> QED BY <1>n, <2>1
  <1>10. CASE Health(t)
    <2>1. /\ \E l \in Labels \ Committed : pc' = [pc EXCEPT ![t] = l]
          /\ \A s \in Threads \ {t} : frame'[s].own = frame[s].own
      BY <1>10, StartReturnsFacts DEF Health, Labels, Committed
    <2>2. /\ pc[t] \in StartLabels \ {"register", "writePid"}
          /\ Alive' \subseteq Alive /\ pidFile' = pidFile
      BY <1>10 DEF Health, StartLabels, Alive
    <2> QED BY <1>n, <2>1, <2>2
  <1> QED
    BY <1>1, <1>2, <1>3, <1>4, <1>5, <1>6, <1>7, <1>8, <1>9, <1>10 DEF StartStep

LEMMA OneCoreStep ==
    TypeOK /\ IOneCore /\ SerialStarts /\ "kill" \notin Faults /\ [Next]_vars => IOneCore'
  <1> SUFFICES ASSUME TypeOK, IOneCore, SerialStarts, "kill" \notin Faults, [Next]_vars
               PROVE  IOneCore'
    OBVIOUS
  <1> USE LifecycleAssumption
  <1> DEFINE Neutral(t) == \E l \in Labels \ Committed :
                /\ pc[t] \notin {"register", "writePid"}
                /\ pc' = [pc EXCEPT ![t] = l]
                /\ \A s \in Threads \ {t} : frame'[s].own = frame[s].own
                /\ Alive' \subseteq Alive
                /\ pidFile' \in {pidFile, NoProc}
  <1>n. ASSUME NEW t \in Threads, Neutral(t)
        PROVE  IOneCore'
    <2>1. PICK l \in Labels \ Committed : pc' = [pc EXCEPT ![t] = l]
      BY <1>n
    <2>2. \A s \in Threads : pc'[s] = IF s = t THEN l ELSE pc[s]
      BY <2>1 DEF TypeOK
    <2> QED BY <1>n, <2>1, <2>2, OneCoreNeutral
  <1>1. CASE UNCHANGED vars
    BY <1>1, OneCoreNeutral DEF vars, Alive
  <1>2. ASSUME NEW c \in Callers, Call(c)
        PROVE  IOneCore'
    <2>1. PICK l \in {"status", "killPid", "mark", "change"}, f \in Frames : Begin(c, l, f)
      BY <1>2, CallBegins
    <2>2. Neutral(c)
      BY <2>1 DEF Begin, Goto, TypeOK, Alive, Labels, StopLabels, StartLabels, Committed
    <2> QED BY <1>n, <2>2
  <1>3. ASSUME NEW t \in Threads, Step(t)
        PROVE  IOneCore'
    <2>1. CASE StopStep(t)
      <3>1. ASSUME NEW r \in {"ok", "notRunning", "err"}, StopReturns(t, r)
            PROVE  /\ \E l \in Labels \ Committed : pc' = [pc EXCEPT ![t] = l]
                   /\ \A s \in Threads \ {t} : frame'[s].own = frame[s].own
        BY <3>1, StopReturnsFacts DEF Labels, StartLabels, Committed
      <3>2. /\ \E l \in Labels \ Committed : pc' = [pc EXCEPT ![t] = l]
            /\ \A s \in Threads \ {t} : frame'[s].own = frame[s].own
        BY <2>1, <3>1 DEF StopStep, Mark, StopStatus, StopKill, StopUnlink, StopRoute,
           StopSave, Goto, Labels, StopLabels, Committed
      <3>3. /\ proc' = proc \/ proc' = Killed({pidFile})
            /\ pc[t] \in StopLabels
        BY <2>1 DEF StopStep, Mark, StopStatus, StopKill, StopUnlink, StopRoute, StopSave, StopLabels
      <3>4. Alive' \subseteq Alive
        BY <3>3, KilledAlive DEF Alive
      <3>5. pidFile' \in {pidFile, NoProc}
        BY <2>1 DEF StopStep, Mark, StopStatus, StopKill, StopUnlink, StopRoute, StopSave,
           DropStalePid, Remove
      <3> QED BY <1>n, <3>2, <3>3, <3>4, <3>5 DEF StopLabels
    <2>2. CASE StartStep(t)
      BY <2>2, OneCoreStart
    <2>3. CASE Status(t) \/ Change(t) \/ Recheck(t) \/ Rollback(t) \/ Answer(t)
      <3>1. \E l \in Labels \ Committed : pc' = [pc EXCEPT ![t] = l]
        BY <2>3 DEF Status, Change, Recheck, Rollback, Answer, Goto, Labels, StopLabels,
           StartLabels, Committed
      <3>2. /\ \A s \in Threads \ {t} : frame'[s].own = frame[s].own
            /\ pc[t] \notin {"register", "writePid"}
        BY <2>3 DEF Status, Change, Recheck, Rollback, Answer, TypeOK
      <3>3. Alive' \subseteq Alive /\ pidFile' \in {pidFile, NoProc}
        BY <2>3 DEF Status, Change, Recheck, Rollback, Answer, DropStalePid, Remove, Alive
      <3> QED BY <1>n, <3>1, <3>2, <3>3
    <2> QED BY <1>3, <2>1, <2>2, <2>3 DEF Step
  <1>4. ASSUME NEW p \in Procs, Waiter(p)
        PROVE  IOneCore'
    <2>1. /\ \E l \in Labels \ Committed : pc' = [pc EXCEPT ![p] = l]
          /\ pc[p] \notin {"register", "writePid"}
      BY <1>4 DEF Waiter, Reap, Exited, UnlinkPid, GiveUp, CrashRestart, Goto, Labels,
         StopLabels, Committed
    <2>2. \A s \in Threads \ {p} : frame'[s].own = frame[s].own
      BY <1>4 DEF Waiter, Reap, Exited, UnlinkPid, GiveUp, CrashRestart, TypeOK
    <2>3. Alive' \subseteq Alive /\ pidFile' \in {pidFile, NoProc}
      BY <1>4 DEF Waiter, Reap, Exited, UnlinkPid, Remove, GiveUp, CrashRestart, Alive, TypeOK
    <2> QED BY <1>n, <2>1, <2>2, <2>3
  <1>5. ASSUME NEW p \in Procs, CoreDies(p)
        PROVE  IOneCore'
    <2>1. Alive' \subseteq Alive
      BY <1>5 DEF CoreDies, Alive, TypeOK
    <2> QED BY <1>5, <2>1, OneCoreNeutral DEF CoreDies
  <1> QED
    BY <1>1, <1>2, <1>3, <1>4, <1>5 DEF Next

\* As long as Starts have not overlapped, mihomo.pid names no other process than
\* the core that is alive: what Stop kills is the core, although old waiters and
\* status polls may remove the file at any time. Only where the removal of the
\* file can fail it may name a dead core until the new core's is written.
THEOREM PidFileIsTheCore ==
    ASSUME "kill" \notin Faults
    PROVE  Spec => PidFileFollowsCore
  <1>1. IOneCore => PidFileNamesCore
    BY DEF IOneCore
  <1> QED
    BY <1>1, TypeInit, TypeStep, OneCoreInit, OneCoreStep, PTL
    DEF Spec, PidFileFollowsCore

-----------------------------------------------------------------------------
(***************************************************************************)
(* Answers.  While an operation is under way and no other is (status polls *)
(* and waiters aside), its thread knows what it has done so far.  The      *)
(* predicates are of a label l and a frame f, of the routing r configured, *)
(* the one d saved, the rules k of the kernel and the cores a alive.       *)
(***************************************************************************)
Operating(t) ==
    \/ pc[t] \in StopLabels \cup StartLabels \cup {"change", "recheck", "rollback"}
    \/ pc[t] = "answer" /\ frame[t].op # "Status"

\* The hypothesis of what follows: clients, and the watchdog's restart, wait
\* for each other's operations.
SerialOperations == \A s, t \in Threads : Operating(s) /\ Operating(t) => s = t

Cleared(r, k) == Active(r) /\ "nft" \notin Faults => k \subseteq {"sysctl"}

Ended(a) == "kill" \notin Faults => a = {}

\* Stop: the cores are dead once the process of the pid file is killed, and the
\* rules it removes are those of the routing that is configured.
StopKnows(l, f, r, k, a) ==
    /\ f.op = "Stop" => l \in StopLabels \cup {"answer"} /\ f.stage = "only"
    /\ f.op = "Stop" /\ l \in StopLabels => f.prev = r
    /\ l \in {"stopUnlink", "stopRoute", "stopSave"} => Ended(a)
    /\ f.op = "Stop" /\ (l = "stopSave" \/ (l = "answer" /\ f.ret = "ok")) => Ended(a) /\ Cleared(r, k)

StartKnows(l, f) == f.op = "Start" => l \in StartLabels \cup {"answer"} /\ f.stage = "only"

\* Restart and Change: what comes after the rollback has the previous routing,
\* and saved it; a Change is answered where Stop failed, or after its last Start.
ChangeKnows(l, f, r, d) ==
    /\ l \in StopLabels => f.stage \in {"only", "stop1", "stop2"}
    /\ l \in StartLabels => f.stage \in {"only", "start1", "start2"}
    /\ l = "change" => f.op = "Change" /\ f.stage = "only"
    /\ l = "recheck" => f.stage = "stop1"
    /\ l = "rollback" => f.stage = "start1"
    /\ f.op = "Change" /\ f.stage \in {"stop2", "start2"} =>
          r = f.prev /\ ("save" \notin Faults => d = f.prev)
    /\ f.op = "Change" /\ l = "answer" =>
          f.stage \in {"only", "stop1", "start2"} \/ (f.stage = "start1" /\ f.ret = "ok")

Knows(l, f, r, d, k, a) ==
    /\ l # "status" /\ f.op # "Status"
    /\ StopKnows(l, f, r, k, a)
    /\ StartKnows(l, f)
    /\ ChangeKnows(l, f, r, d)

Known(t) == Knows(pc[t], frame[t], conf.routing, disk.routing, kernel, Alive)

\* A status poll is nothing else.
Polls(l, f) == l = "status" \/ f.op = "Status" => f.op = "Status" /\ f.stage = "only"

ISerial ==
    \A t \in Threads :
        /\ Polls(pc[t], frame[t])
        /\ Operating(t) => Known(t)

\* The rules in fw4 are there with TUN's table, and remembered.
IKernel == "fw4" \in kernel => "fw4" \in undo /\ "tun" \in kernel

LEMMA KernelInit == Init => IKernel
  BY DEF Init, IKernel

LEMMA KernelStep == TypeOK /\ IKernel /\ [Next]_vars => IKernel'
  <1> SUFFICES ASSUME TypeOK, IKernel, [Next]_vars
               PROVE  IKernel'
    OBVIOUS
  <1>c. conf.routing \in SUBSET {"tproxy", "tun", "redirect"}
    BY LifecycleAssumption DEF TypeOK, Configs
  <1>1. CASE UNCHANGED <<kernel, undo>>
    BY <1>1 DEF IKernel
  <1>2. CASE CleanupAllRouting
    BY <1>2, CleanupFacts DEF IKernel
  <1>3. ASSUME NEW t \in Threads, Route(t)
        PROVE  IKernel'
    <2>1. Installs(conf.routing, kernel', undo')
      BY <1>3 DEF Route, Installs
    <2> QED BY <1>c, <2>1, SetupFacts DEF IKernel
  <1>4. ASSUME NEW t \in Threads, RouteFails(t)
        PROVE  IKernel'
    <2>1. \E m \in conf.routing : FailsAt(m, conf.routing, kernel', undo')
      BY <1>4 DEF RouteFails, FailsAt
    <2> QED BY <1>c, <2>1, SetupFacts DEF IKernel
  <1>5. ASSUME NEW t \in Threads, Step(t), ~Route(t), ~RouteFails(t)
        PROVE  CleanupAllRouting \/ UNCHANGED <<kernel, undo>>
    BY <1>5 DEF Step, StopStep, Mark, StopStatus, StopKill, StopUnlink, StopRoute, StopSave,
       StartStep, KillPid, KillAll, SpawnFails, Spawn, Register, WritePid, WritePidFails, Ready,
       NotReady, StartSave, Health, Status, Change, Recheck, Rollback, Answer
  <1>6. ASSUME NEW c \in Callers, Call(c)
        PROVE  UNCHANGED <<kernel, undo>>
    BY <1>6 DEF Call, CallStatus, CallStart, CallStop, CallRestart, CallChange, Begin
  <1>7. ASSUME NEW p \in Procs, Waiter(p) \/ CoreDies(p)
        PROVE  UNCHANGED <<kernel, undo>>
    BY <1>7 DEF Waiter, Reap, Exited, UnlinkPid, GiveUp, CrashRestart, CoreDies
  <1> QED
    BY <1>1, <1>2, <1>3, <1>4, <1>5, <1>6, <1>7 DEF Next, vars

\* A core that may resist being killed says nothing of the others.
ICore == "kill" \notin Faults => IOneCore

LEMMA SerialInit == Init => ISerial
  BY DEF Init, IdleFrame, ISerial, Polls, Operating, StopLabels, StartLabels

\* Where Stop and Start return to, field by field.
LEMMA StopReturnsTo ==
    ASSUME TypeOK, NEW t \in Threads, NEW r \in {"ok", "notRunning", "err"}, StopReturns(t, r)
    PROVE  LET f == frame[t]
               g == frame'[t]
           IN  /\ \A s \in Threads \ {t} : pc'[s] = pc[s] /\ frame'[s] = frame[s]
               /\ g.op = f.op /\ g.prev = f.prev
               /\ f.stage = "only" => pc'[t] = "answer" /\ g.stage = "only" /\ g.ret = r
               /\ f.stage = "stop1" =>
                     IF r = "ok" THEN pc'[t] = "killPid" /\ g.stage = "start1"
                                 ELSE pc'[t] = "recheck" /\ g.stage = "stop1"
               /\ f.stage = "stop2" => pc'[t] = "killPid" /\ g.stage = "start2"
  <1>1. frame[t] \in Frames
    BY DEF TypeOK
  <1>2. CASE frame[t].stage = "only"
    <2>1. pc' = [pc EXCEPT ![t] = "answer"] /\ frame' = [frame EXCEPT ![t].ret = r, ![t].stage = "only"]
      BY <1>2 DEF StopReturns, Goto
    <2> QED BY <1>1, <1>2, <2>1 DEF TypeOK, Frames
  <1>3. CASE frame[t].stage = "stop1" /\ r # "ok"
    <2>1. pc' = [pc EXCEPT ![t] = "recheck"] /\ frame' = [frame EXCEPT ![t].ret = "none", ![t].stage = "stop1"]
      BY <1>3 DEF StopReturns, Goto
    <2> QED BY <1>1, <1>3, <2>1 DEF TypeOK, Frames
  <1>4. CASE frame[t].stage = "stop1" /\ r = "ok"
    <2>1. pc' = [pc EXCEPT ![t] = "killPid"] /\ frame' = [frame EXCEPT ![t].ret = "none", ![t].stage = "start1"]
      BY <1>4 DEF StopReturns, Goto
    <2> QED BY <1>1, <1>4, <2>1 DEF TypeOK, Frames
  <1>5. CASE frame[t].stage \notin {"only", "stop1"}
    <2>1. pc' = [pc EXCEPT ![t] = "killPid"] /\ frame' = [frame EXCEPT ![t].ret = "none", ![t].stage = "start2"]
      BY <1>5 DEF StopReturns, Goto
    <2> QED BY <1>1, <1>5, <2>1 DEF TypeOK, Frames
  <1> QED
    BY <1>2, <1>3, <1>4, <1>5

LEMMA StartReturnsTo ==
    ASSUME TypeOK, NEW t \in Threads, NEW r \in {"ok", "err"}, StartReturns(t, r)
    PROVE  LET f == frame[t]
               g == frame'[t]
           IN  /\ \A s \in Threads \ {t} : pc'[s] = pc[s] /\ frame'[s] = frame[s]
               /\ g.op = f.op /\ g.prev = f.prev /\ g.stage = f.stage
               /\ IF f.stage = "start1" /\ r = "err" THEN pc'[t] = "rollback" ELSE pc'[t] = "answer"
               /\ pc'[t] = "answer" => g.ret = (IF f.stage = "start2" THEN "err" ELSE r)
  <1> DEFINE next == IF frame[t].stage = "start1" /\ r = "err" THEN "rollback" ELSE "answer"
             rt == IF next = "rollback" THEN "none" ELSE IF frame[t].stage = "start2" THEN "err" ELSE r
  <1>1. frame[t] \in Frames
    BY DEF TypeOK
  <1>2. pc' = [pc EXCEPT ![t] = next] /\ frame' = [frame EXCEPT ![t].own = NoProc, ![t].setup = FALSE, ![t].ret = rt]
    BY DEF StartReturns, Goto
  <1>3. next = "answer" => rt = (IF frame[t].stage = "start2" THEN "err" ELSE r)
    OBVIOUS
  <1> HIDE DEF next, rt
  <1>4. frame'[t].op = frame[t].op /\ frame'[t].prev = frame[t].prev /\ frame'[t].stage = frame[t].stage /\ frame'[t].ret = rt
    BY <1>1, <1>2 DEF TypeOK, Frames
  <1>5. pc'[t] = next /\ \A s \in Threads \ {t} : pc'[s] = pc[s] /\ frame'[s] = frame[s]
    BY <1>2 DEF TypeOK
  <1> QED
    BY <1>3, <1>4, <1>5 DEF next

\* What the thread that moves knows after its step.
KnowsNext(t) == Knows(pc'[t], frame'[t], conf'.routing, disk'.routing, kernel', Alive')

\* The threads that do not move: one may be left waiting for its core.
OthersStay(t) ==
    \A s \in Threads \ {t} : (pc'[s] = pc[s] \/ pc'[s] = "wait") /\ frame'[s] = frame[s]

LEMMA StopKnowsNext ==
    ASSUME TypeOK, ICore, IKernel, NEW t \in Threads, Known(t), StopStep(t),
           \A s \in Threads : pc[s] \in {"register", "writePid"} => s = t
    PROVE  KnowsNext(t) /\ OthersStay(t) /\ Operating(t)
  <1> USE LifecycleAssumption
  <1>0. /\ frame[t] \in Frames /\ conf \in Configs /\ disk \in Configs
        /\ pidFile \in Procs \cup {NoProc} /\ proc \in [Procs -> {"gone", "alive", "zombie"}]
    BY DEF TypeOK
  <1>1. Operating(t) /\ pc[t] \in StopLabels /\ frame[t].stage \in {"only", "stop1", "stop2"} /\ frame[t].op # "Start"
    BY DEF StopStep, Mark, StopStatus, StopKill, StopUnlink, StopRoute, StopSave, Operating,
       StopLabels,
           Known, Knows, ChangeKnows, StartKnows, StartLabels
  \* Back from Stop.
  <1>2. ASSUME NEW r \in {"ok", "notRunning", "err"}, StopReturns(t, r),
               conf'.routing = conf.routing, disk'.routing \in {disk.routing, conf.routing},
               r = "ok" /\ frame[t].op = "Stop" => Ended(Alive') /\ Cleared(conf.routing, kernel')
        PROVE  KnowsNext(t) /\ OthersStay(t)
    <2>2. \A s \in Threads \ {t} : pc'[s] = pc[s] /\ frame'[s] = frame[s]
      BY <1>2, StopReturnsTo
    <2>3. CASE frame[t].stage = "only"
      <3>1. /\ pc'[t] = "answer" /\ frame'[t].op = frame[t].op /\ frame'[t].prev = frame[t].prev
            /\ frame'[t].stage = "only" /\ frame'[t].ret = r
        BY <1>2, <2>3, StopReturnsTo
      <3> QED BY <1>1, <1>2, <2>2, <2>3, <3>1
              DEF Known, KnowsNext, Knows, StopKnows, StartKnows, ChangeKnows, StopLabels, StartLabels, OthersStay
    <2>4. CASE frame[t].stage = "stop1" /\ r # "ok"
      <3>1. /\ pc'[t] = "recheck" /\ frame'[t].op = frame[t].op /\ frame'[t].prev = frame[t].prev
            /\ frame'[t].stage = "stop1"
        BY <1>2, <2>4, StopReturnsTo
      <3> QED BY <1>1, <1>2, <2>2, <2>4, <3>1
              DEF Known, KnowsNext, Knows, StopKnows, StartKnows, ChangeKnows, StopLabels, StartLabels, OthersStay
    <2>5. CASE (frame[t].stage = "stop1" /\ r = "ok") \/ frame[t].stage = "stop2"
      <3>1. /\ pc'[t] = "killPid" /\ frame'[t].op = frame[t].op /\ frame'[t].prev = frame[t].prev
            /\ frame'[t].stage = (IF frame[t].stage = "stop1" THEN "start1" ELSE "start2")
        BY <1>2, <2>5, StopReturnsTo
      <3> QED BY <1>1, <1>2, <2>2, <2>5, <3>1
              DEF Known, KnowsNext, Knows, StopKnows, StartKnows, ChangeKnows, StopLabels, StartLabels, OthersStay
    <2> QED BY <1>1, <2>3, <2>4, <2>5
  \* On within Stop.
  <1>3. ASSUME NEW l \in StopLabels, Goto(t, l), UNCHANGED <<frame, conf, disk>>,
               l \in {"stopUnlink", "stopRoute", "stopSave"} => Ended(Alive'),
               frame[t].op = "Stop" /\ l = "stopSave" => Ended(Alive') /\ Cleared(conf.routing, kernel')
        PROVE  KnowsNext(t) /\ OthersStay(t)
    <2>1. pc'[t] = l /\ \A s \in Threads \ {t} : pc'[s] = pc[s]
      BY <1>3 DEF Goto, TypeOK
    <2> QED BY <1>1, <1>3, <2>1
            DEF Known, KnowsNext, Knows, StopKnows, StartKnows, ChangeKnows, StopLabels, StartLabels, OthersStay
  <1>4. UNCHANGED proc => Alive' = Alive
    BY DEF Alive
  <1>5. CASE Mark(t)
    <2>1. Goto(t, "stopStatus") /\ UNCHANGED <<frame, conf, disk>> /\ "stopStatus" \in StopLabels
      BY <1>5 DEF Mark, StopLabels
    <2> QED BY <1>1, <1>3, <2>1
  <1>6. CASE StopStatus(t)
    <2>0. UNCHANGED <<conf, disk>>
      BY <1>6 DEF StopStatus
    <2>1. CASE PidFileRunning
      <3>1. Goto(t, "stopKill") /\ UNCHANGED <<frame, conf, disk>> /\ "stopKill" \in StopLabels
        BY <1>6, <2>1 DEF StopStatus, StopLabels
      <3> QED BY <1>1, <1>3, <3>1
    <2>2. CASE ~PidFileRunning
      <3>1. StopReturns(t, "notRunning")
        BY <1>6, <2>2 DEF StopStatus
      <3> QED BY <1>1, <1>2, <2>0, <3>1
    <2> QED BY <2>1, <2>2
  <1>7. CASE StopKill(t)
    <2>0. UNCHANGED <<conf, disk>>
      BY <1>7 DEF StopKill
    <2>1. CASE StopReturns(t, "err")
      BY <1>1, <1>2, <2>0, <2>1
    <2>2. CASE pidFile # NoProc /\ proc' = Killed({pidFile}) /\ Goto(t, "stopUnlink") /\ UNCHANGED frame
      <3>1. pc[t] = "stopKill" /\ "stopUnlink" \in StopLabels
        BY <1>7 DEF StopKill, StopLabels
      <3>2. Alive' = Alive \ {pidFile}
        BY <2>2, KilledAlive
      <3>3. ASSUME "kill" \notin Faults, NEW p \in Alive
            PROVE  p = pidFile
        <4>1. \A s \in Threads : pc[s] \notin {"register", "writePid"}
          BY <3>1
        <4> QED BY <2>2, <3>3, <4>1 DEF ICore, IOneCore, PidFileNamesCore
      <3>4. Ended(Alive')
        BY <3>2, <3>3 DEF Ended
      <3> QED BY <1>1, <1>3, <2>0, <2>2, <3>1, <3>4
    <2> QED BY <1>7, <2>1, <2>2 DEF StopKill
  <1>8. CASE StopUnlink(t)
    <2>0. Ended(Alive') /\ UNCHANGED <<conf, disk>>
      BY <1>4, <1>8 DEF StopUnlink, Known, Knows, StopKnows
    <2>1. CASE StopReturns(t, "err")
      BY <1>1, <1>2, <2>0, <2>1
    <2>2. CASE Goto(t, "stopRoute") /\ UNCHANGED frame
      <3>1. "stopRoute" \in StopLabels
        BY DEF StopLabels
      <3> QED BY <1>1, <1>3, <2>0, <2>2, <3>1
    <2> QED BY <1>8, <2>1, <2>2 DEF StopUnlink
  <1>9. CASE StopRoute(t)
    <2>1. Ended(Alive') /\ UNCHANGED <<conf, disk>>
      BY <1>4, <1>9 DEF StopRoute, Known, Knows, StopKnows
    <2>2. ASSUME frame[t].op = "Stop", Active(conf.routing)
          PROVE  CleanupAllRouting
      <3>1. frame[t].prev = conf.routing /\ frame[t].stage = "only"
        BY <1>1, <2>2 DEF Known, Knows, StopKnows
      <3> QED BY <1>9, <2>2, <3>1 DEF StopRoute, CleanupRouting
    <2>3. frame[t].op = "Stop" => Cleared(conf.routing, kernel')
      BY <2>2, CleanupFacts DEF Cleared, IKernel
    <2>4. CASE frame[t].saves
      <3>1. Goto(t, "stopSave") /\ UNCHANGED frame /\ "stopSave" \in StopLabels
        BY <1>9, <2>4 DEF StopRoute, StopLabels
      <3> QED BY <1>1, <1>3, <2>1, <2>3, <3>1
    <2>5. CASE ~frame[t].saves
      <3>1. StopReturns(t, "ok")
        BY <1>9, <2>5 DEF StopRoute
      <3> QED BY <1>1, <1>2, <2>1, <2>3, <3>1
    <2> QED BY <2>4, <2>5
  <1>10. CASE StopSave(t)
    <2>1. /\ Ended(Alive') /\ UNCHANGED kernel /\ conf' = [conf EXCEPT !.autoStart = FALSE] /\ StopReturns(t, "ok")
          /\ frame[t].op = "Stop" => Cleared(conf.routing, kernel)
      BY <1>4, <1>10 DEF StopSave, Known, Knows, StopKnows
    <2>2. conf'.routing = conf.routing
      BY <1>0, <2>1 DEF Configs
    <2>3. disk'.routing \in {disk.routing, conf.routing}
      BY <1>10, <2>2 DEF StopSave, Save, SaveFails
    <2> QED BY <1>1, <1>2, <2>1, <2>2, <2>3
  <1> QED
    BY <1>1, <1>5, <1>6, <1>7, <1>8, <1>9, <1>10 DEF StopStep

LEMMA StartKnowsNext ==
    ASSUME TypeOK, IWatched, NEW t \in Threads, Known(t), StartStep(t)
    PROVE  KnowsNext(t) /\ OthersStay(t) /\ Operating(t)
  <1> USE LifecycleAssumption
  <1>0. /\ frame[t] \in Frames /\ conf \in Configs /\ pc \in [Threads -> Labels]
        /\ frame \in [Threads -> Frames]
    BY DEF TypeOK
  <1>1. /\ Operating(t) /\ pc[t] \in StartLabels /\ frame[t].op # "Stop"
        /\ frame[t].stage \in {"only", "start1", "start2"}
    BY DEF StartStep, KillPid, KillAll, SpawnFails, Spawn, Register, WritePid, WritePidFails, Ready,
           NotReady, UndoStart, Route, RouteFails, StartSave, Health, Operating, StartLabels,
           StopLabels, Known, Knows, ChangeKnows, StopKnows
  \* On within Start.
  <1>2. ASSUME NEW l \in StartLabels, pc'[t] = l,
               conf'.routing = conf.routing, disk'.routing \in {disk.routing, conf.routing},
               \A s \in Threads \ {t} : pc'[s] = pc[s] \/ pc'[s] = "wait",
               \A s \in Threads \ {t} : frame'[s] = frame[s],
               frame'[t].op = frame[t].op, frame'[t].stage = frame[t].stage,
               frame'[t].prev = frame[t].prev
        PROVE  KnowsNext(t) /\ OthersStay(t)
    BY <1>1, <1>2 DEF Known, KnowsNext, Knows, StopKnows, StartKnows, ChangeKnows, StopLabels,
       StartLabels, OthersStay
  \* Back from Start.
  <1>3. ASSUME NEW r \in {"ok", "err"}, StartReturns(t, r), UNCHANGED <<conf, disk>>
        PROVE  KnowsNext(t) /\ OthersStay(t)
    <2>1. /\ \A s \in Threads \ {t} : pc'[s] = pc[s] /\ frame'[s] = frame[s]
          /\ frame'[t].op = frame[t].op /\ frame'[t].prev = frame[t].prev
          /\ frame'[t].stage = frame[t].stage
          /\ IF frame[t].stage = "start1" /\ r = "err" THEN pc'[t] = "rollback" ELSE pc'[t] = "answer"
          /\ pc'[t] = "answer" => frame'[t].ret = (IF frame[t].stage = "start2" THEN "err" ELSE r)
      BY <1>3, StartReturnsTo
    <2>2. CASE pc'[t] = "rollback"
      BY <1>1, <1>3, <2>1, <2>2
         DEF Known, KnowsNext, Knows, StopKnows, StartKnows, ChangeKnows, StopLabels, StartLabels, OthersStay
    <2>3. CASE pc'[t] = "answer"
      BY <1>1, <1>3, <2>1, <2>3
         DEF Known, KnowsNext, Knows, StopKnows, StartKnows, ChangeKnows, StopLabels, StartLabels, OthersStay
    <2> QED BY <2>1, <2>2, <2>3
  \* A step that only moves on.
  <1>4. ASSUME NEW l \in StartLabels, Goto(t, l), UNCHANGED <<conf, disk, frame>>
        PROVE  KnowsNext(t) /\ OthersStay(t)
    <2>1. pc'[t] = l /\ \A s \in Threads \ {t} : pc'[s] = pc[s]
      BY <1>0, <1>4 DEF Goto
    <2> QED BY <1>2, <1>4, <2>1
  <1>5. CASE KillPid(t) \/ KillAll(t) \/ WritePid(t) \/ Ready(t) \/ Route(t)
    <2>1. /\ \E l \in StartLabels : Goto(t, l)
          /\ UNCHANGED <<conf, disk, frame>>
      BY <1>5 DEF KillPid, KillAll, WritePid, Ready, Route, StartLabels
    <2> QED BY <1>1, <1>4, <2>1
  <1>6. CASE SpawnFails(t) \/ WritePidFails(t) \/ NotReady(t) \/ RouteFails(t) \/ Health(t)
    <2>1. /\ StartReturns(t, "err") \/ StartReturns(t, "ok")
          /\ UNCHANGED <<conf, disk>>
      BY <1>6 DEF SpawnFails, WritePidFails, NotReady, RouteFails, UndoStart, Health
    <2> QED BY <1>1, <1>3, <2>1
  <1>7. CASE Spawn(t)
    <2>1. PICK p \in Procs : frame' = [frame EXCEPT ![t].own = p, ![t].setup = Active(conf.routing)]
      BY <1>7 DEF Spawn
    <2>2. /\ frame'[t].op = frame[t].op /\ frame'[t].stage = frame[t].stage
          /\ frame'[t].prev = frame[t].prev
          /\ \A s \in Threads \ {t} : frame'[s] = frame[s]
      BY <1>0, <2>1 DEF Frames
    <2>3. /\ pc'[t] = "register" /\ \A s \in Threads \ {t} : pc'[s] = pc[s]
          /\ UNCHANGED <<conf, disk>> /\ "register" \in StartLabels
      BY <1>0, <1>7 DEF Spawn, Goto, StartLabels
    <2> QED BY <1>1, <1>2, <2>2, <2>3
  <1>8. CASE Register(t)
    <2>1. pc[t] = "register" /\ frame[t].own # t
      BY <1>8 DEF Register, IWatched
    <2>2. /\ pc'[t] = "writePid" /\ \A s \in Threads \ {t} : pc'[s] = pc[s] \/ pc'[s] = "wait"
          /\ UNCHANGED <<conf, disk, frame>> /\ "writePid" \in StartLabels
      BY <1>0, <1>8, <2>1 DEF Register, StartLabels
    <2> QED BY <1>1, <1>2, <2>2
  <1>9. CASE StartSave(t)
    <2>1. /\ Goto(t, "health") /\ UNCHANGED frame /\ "health" \in StartLabels
          /\ conf' = [conf EXCEPT !.autoStart = TRUE]
      BY <1>9 DEF StartSave, StartLabels
    <2>2. conf'.routing = conf.routing
      BY <1>0, <2>1 DEF Configs
    <2>3. disk'.routing \in {disk.routing, conf.routing}
      BY <1>9, <2>2 DEF StartSave, Save, SaveFails
    <2>4. pc'[t] = "health" /\ \A s \in Threads \ {t} : pc'[s] = pc[s]
      BY <1>0, <2>1 DEF Goto
    <2> QED BY <1>1, <1>2, <2>1, <2>2, <2>3, <2>4
  <1> QED
    BY <1>1, <1>5, <1>6, <1>7, <1>8, <1>9 DEF StartStep

LEMMA ChangeKnowsNext ==
    ASSUME TypeOK, NEW t \in Threads, Known(t), Change(t) \/ Recheck(t) \/ Rollback(t)
    PROVE  KnowsNext(t) /\ OthersStay(t) /\ Operating(t)
  <1> USE LifecycleAssumption
  <1>0. /\ frame[t] \in Frames /\ conf \in Configs /\ pc \in [Threads -> Labels]
        /\ frame \in [Threads -> Frames]
    BY DEF TypeOK
  <1>1. Operating(t)
    BY DEF Change, Recheck, Rollback, Operating
  <1>2. CASE Change(t)
    <2>1. pc[t] = "change" /\ frame[t].op = "Change" /\ frame[t].stage = "only"
      BY <1>2 DEF Change, Known, Knows, ChangeKnows
    <2>2. ASSUME NEW r \in {"ok", "err"}, Goto(t, "answer"), frame' = [frame EXCEPT ![t].ret = r]
          PROVE  KnowsNext(t) /\ OthersStay(t)
      <3>1. /\ pc'[t] = "answer" /\ frame'[t].op = "Change" /\ frame'[t].stage = "only"
            /\ \A s \in Threads \ {t} : pc'[s] = pc[s] /\ frame'[s] = frame[s]
        BY <1>0, <2>1, <2>2 DEF Goto, Frames
      <3> QED BY <3>1 DEF KnowsNext, Knows, StopKnows, StartKnows, ChangeKnows, StopLabels,
                 StartLabels, OthersStay
    <2>3. CASE Goto(t, "mark") /\ frame' = [frame EXCEPT ![t].stage = "stop1", ![t].prev = conf.routing]
      <3>1. /\ pc'[t] = "mark" /\ frame'[t].op = "Change" /\ frame'[t].stage = "stop1"
            /\ \A s \in Threads \ {t} : pc'[s] = pc[s] /\ frame'[s] = frame[s]
        BY <1>0, <2>1, <2>3 DEF Goto, Frames
      <3> QED BY <1>1, <3>1 DEF KnowsNext, Knows, StopKnows, StartKnows, ChangeKnows, StopLabels,
                 StartLabels, OthersStay
    <2> QED BY <1>1, <1>2, <2>2, <2>3 DEF Change
  <1>3. CASE Recheck(t)
    <2>1. /\ pc[t] = "recheck" /\ frame[t].op \notin {"Start", "Stop", "Status"}
          /\ frame[t].stage = "stop1" /\ UNCHANGED <<conf, disk>>
      BY <1>3 DEF Recheck, Known, Knows, ChangeKnows, StopKnows, StartKnows, StopLabels, StartLabels
    <2>2. CASE Goto(t, "killPid") /\ frame' = [frame EXCEPT ![t].stage = "start1"]
      <3>1. /\ pc'[t] = "killPid" /\ frame'[t].op = frame[t].op /\ frame'[t].stage = "start1"
            /\ \A s \in Threads \ {t} : pc'[s] = pc[s] /\ frame'[s] = frame[s]
        BY <1>0, <2>2 DEF Goto, Frames
      <3> QED BY <1>1, <2>1, <3>1 DEF KnowsNext, Knows, StopKnows, StartKnows, ChangeKnows,
                 StopLabels, StartLabels, OthersStay
    <2>3. CASE Goto(t, "answer") /\ frame' = [frame EXCEPT ![t].ret = "err"]
      <3>1. /\ pc'[t] = "answer" /\ frame'[t].op = frame[t].op /\ frame'[t].stage = "stop1"
            /\ \A s \in Threads \ {t} : pc'[s] = pc[s] /\ frame'[s] = frame[s]
        BY <1>0, <2>1, <2>3 DEF Goto, Frames
      <3> QED BY <1>1, <2>1, <3>1 DEF KnowsNext, Knows, StopKnows, StartKnows, ChangeKnows,
                 StopLabels, StartLabels, OthersStay
    <2> QED BY <1>3, <2>2, <2>3 DEF Recheck
  <1>4. CASE Rollback(t)
    <2>1. pc[t] = "rollback" /\ frame[t].op \notin {"Start", "Stop", "Status"}
      BY <1>4 DEF Rollback, Known, Knows, ChangeKnows, StopKnows, StartKnows, StopLabels,
         StartLabels
    <2>2. /\ pc'[t] = "mark" /\ frame'[t].op = frame[t].op /\ frame'[t].stage = "stop2"
          /\ frame'[t].prev = frame[t].prev
          /\ \A s \in Threads \ {t} : pc'[s] = pc[s] /\ frame'[s] = frame[s]
      BY <1>0, <1>4 DEF Rollback, Goto, Frames
    <2>3. conf'.routing = frame[t].prev
      BY <1>0, <1>4 DEF Rollback, Configs
    <2>4. "save" \notin Faults => disk'.routing = frame[t].prev
      BY <1>4, <2>3 DEF Rollback, Save, SaveFails
    <2> QED BY <1>1, <2>1, <2>2, <2>3, <2>4
            DEF KnowsNext, Knows, StopKnows, StartKnows, ChangeKnows, StopLabels, StartLabels, OthersStay
  <1> QED
    BY <1>2, <1>3, <1>4

\* A step that disturbs nothing an operation of another thread knows.
Quiet == UNCHANGED <<conf, disk, kernel>> /\ Alive' \subseteq Alive

LEMMA CallKnowsNext ==
    ASSUME TypeOK, NEW t \in Callers, Call(t)
    PROVE  /\ OthersStay(t) /\ Quiet
           /\ Polls(pc'[t], frame'[t])
           /\ pc'[t] # "status" => KnowsNext(t)
  <1> USE LifecycleAssumption
  <1>1. ASSUME NEW l, NEW f, Begin(t, l, f)
        PROVE  OthersStay(t) /\ Quiet /\ pc'[t] = l /\ frame'[t] = f
    BY <1>1 DEF Begin, Goto, OthersStay, Quiet, Alive, TypeOK, Threads
  <1>2. CASE CallStatus(t)
    <2>1. Begin(t, "status", [IdleFrame EXCEPT !.op = "Status"])
      BY <1>2 DEF CallStatus
    <2>2. pc'[t] = "status" /\ frame'[t] = [IdleFrame EXCEPT !.op = "Status"] /\ OthersStay(t) /\ Quiet
      BY <1>1, <2>1
    <2> QED BY <2>2 DEF Polls, IdleFrame
  <1>3. CASE CallStart(t)
    <2>1. Begin(t, "killPid", [IdleFrame EXCEPT !.op = "Start"])
      BY <1>3 DEF CallStart
    <2>2. pc'[t] = "killPid" /\ frame'[t] = [IdleFrame EXCEPT !.op = "Start"] /\ OthersStay(t) /\ Quiet
      BY <1>1, <2>1
    <2> QED BY <2>2 DEF Polls, IdleFrame, KnowsNext, Knows, StopKnows, StartKnows, ChangeKnows,
               StopLabels, StartLabels
  <1>4. CASE CallStop(t, TRUE)
    <2>1. Begin(t, "mark", [IdleFrame EXCEPT !.op = "Stop", !.saves = TRUE, !.prev = conf.routing])
      BY <1>4 DEF CallStop
    <2>2. /\ pc'[t] = "mark" /\ OthersStay(t) /\ Quiet
          /\ frame'[t] = [IdleFrame EXCEPT !.op = "Stop", !.saves = TRUE, !.prev = conf.routing]
      BY <1>1, <2>1
    <2> QED BY <2>2 DEF Polls, Quiet, IdleFrame, KnowsNext, Knows, StopKnows, StartKnows,
               ChangeKnows, StopLabels, StartLabels
  <1>5. CASE CallRestart(t)
    <2>1. Begin(t, "mark", RestartFrame("Restart", conf.routing))
      BY <1>5 DEF CallRestart
    <2>2. pc'[t] = "mark" /\ frame'[t] = RestartFrame("Restart", conf.routing) /\ OthersStay(t) /\ Quiet
      BY <1>1, <2>1
    <2> QED BY <2>2 DEF Polls, RestartFrame, IdleFrame, KnowsNext, Knows, StopKnows, StartKnows,
               ChangeKnows, StopLabels, StartLabels
  <1>6. CASE \E mode \in Modes : CallChange(t, mode)
    <2>1. PICK mode \in Modes : Begin(t, "change", [IdleFrame EXCEPT !.op = "Change", !.new = mode])
      BY <1>6 DEF CallChange
    <2>2. pc'[t] = "change" /\ frame'[t] = [IdleFrame EXCEPT !.op = "Change", !.new = mode] /\ OthersStay(t) /\ Quiet
      BY <1>1, <2>1
    <2> QED BY <2>2 DEF Polls, IdleFrame, KnowsNext, Knows, StopKnows, StartKnows, ChangeKnows,
               StopLabels, StartLabels
  <1> QED
    BY <1>2, <1>3, <1>4, <1>5, <1>6 DEF Call

LEMMA WaiterKnowsNext ==
    ASSUME TypeOK, ISerial, NEW p \in Procs, Waiter(p)
    PROVE  /\ OthersStay(p) /\ Quiet /\ Polls(pc'[p], frame'[p])
           /\ Operating(p)' => KnowsNext(p)
  <1>1. p \in Threads
    BY DEF Threads
  <1>2. CASE CrashRestart(p)
    <2>1. pc'[p] = "mark" /\ frame'[p] = RestartFrame("Restart", conf.routing) /\ OthersStay(p) /\ Quiet
      BY <1>1, <1>2 DEF CrashRestart, Goto, OthersStay, Quiet, Alive, TypeOK
    <2> QED BY <2>1 DEF Polls, RestartFrame, IdleFrame, KnowsNext, Knows, StopKnows, StartKnows,
               ChangeKnows, StopLabels, StartLabels
  <1>3. CASE Reap(p) \/ Exited(p) \/ UnlinkPid(p) \/ GiveUp(p)
    <2>1. pc'[p] \in {"idle", "exited", "unlinkPid", "backoff"} /\ OthersStay(p)
      BY <1>1, <1>3 DEF Reap, Exited, UnlinkPid, GiveUp, Goto, OthersStay, TypeOK
    <2>3. UNCHANGED frame /\ Polls(pc[p], frame[p])
      BY <1>1, <1>3 DEF Reap, Exited, UnlinkPid, GiveUp, ISerial
    <2>2. Quiet
      BY <1>3 DEF Reap, Exited, UnlinkPid, GiveUp, Quiet, Alive, TypeOK
    <2> QED BY <2>1, <2>2, <2>3 DEF Polls, Operating, StopLabels, StartLabels
  <1> QED
    BY <1>2, <1>3 DEF Waiter

LEMMA StepKnowsNext ==
    ASSUME TypeOK, IWatched, ICore, IKernel, ISerial, SerialOperations, NEW t \in Threads, Step(t)
    PROVE  /\ OthersStay(t) /\ (Operating(t) \/ Quiet)
           /\ Polls(pc'[t], frame'[t])
           /\ Operating(t)' => KnowsNext(t)
  <1>1. CASE StopStep(t)
    <2>1. Known(t)
      BY <1>1 DEF ISerial, Operating, StopStep, Mark, StopStatus, StopKill, StopUnlink,
         StopRoute, StopSave, StopLabels
    <2>2. Operating(t)
      BY <1>1 DEF Operating, StopStep, Mark, StopStatus, StopKill, StopUnlink, StopRoute,
         StopSave, StopLabels
    <2>3. \A s \in Threads : pc[s] \in {"register", "writePid"} => s = t
      BY <2>2 DEF SerialOperations, Operating, StartLabels
    <2>4. KnowsNext(t) /\ OthersStay(t)
      BY <1>1, <2>1, <2>3, StopKnowsNext
    <2> QED BY <2>2, <2>4 DEF KnowsNext, Knows, Polls
  <1>2. CASE StartStep(t)
    <2>1. Known(t)
      BY <1>2 DEF ISerial, Operating, StartStep, KillPid, KillAll, SpawnFails, Spawn, Register,
         WritePid, WritePidFails,
         Ready, NotReady, UndoStart, Route, RouteFails, StartSave, Health, StartLabels
    <2>2. KnowsNext(t) /\ OthersStay(t) /\ Operating(t)
      BY <1>2, <2>1, StartKnowsNext
    <2> QED BY <2>2 DEF KnowsNext, Knows, Polls
  <1>3. CASE Change(t) \/ Recheck(t) \/ Rollback(t)
    <2>1. Known(t)
      BY <1>3 DEF ISerial, Operating, Change, Recheck, Rollback
    <2>2. KnowsNext(t) /\ OthersStay(t) /\ Operating(t)
      BY <1>3, <2>1, ChangeKnowsNext
    <2> QED BY <2>2 DEF KnowsNext, Knows, Polls
  <1>4. CASE Status(t)
    <2>1. frame[t].op = "Status" /\ frame[t].stage = "only" /\ frame[t] \in Frames
      BY <1>4 DEF Status, ISerial, Polls, TypeOK
    <2>2. pc'[t] = "answer" /\ frame'[t].op = "Status" /\ frame'[t].stage = "only" /\ OthersStay(t)
      BY <1>4, <2>1 DEF Status, Goto, OthersStay, TypeOK, Frames
    <2>3. Quiet
      BY <1>4 DEF Status, DropStalePid, Quiet, Alive
    <2> QED BY <2>2, <2>3 DEF Polls, Operating, StopLabels, StartLabels
  <1>5. CASE Answer(t)
    <2>1. pc'[t] = "idle" /\ frame'[t] = IdleFrame /\ OthersStay(t) /\ Quiet
      BY <1>5 DEF Answer, Goto, OthersStay, Quiet, Alive, TypeOK
    <2> QED BY <2>1 DEF Polls, IdleFrame, Operating, StopLabels, StartLabels
  <1> QED
    BY <1>1, <1>2, <1>3, <1>4, <1>5 DEF Step

\* What is known stays known while others are quiet.
LEMMA KnownStays ==
    ASSUME NEW t \in Threads, Known(t), pc'[t] = pc[t], frame'[t] = frame[t], Quiet
    PROVE  KnowsNext(t)
  BY DEF Known, KnowsNext, Knows, StopKnows, StartKnows, ChangeKnows, Ended, Quiet

LEMMA SerialStep ==
    /\ TypeOK /\ IWatched /\ ICore /\ IKernel /\ ISerial /\ SerialOperations /\ [Next]_vars
    => ISerial'
  <1> SUFFICES ASSUME TypeOK, IWatched, ICore, IKernel, ISerial, SerialOperations, [Next]_vars
               PROVE  ISerial'
    OBVIOUS
  \* A step of t, seen from each thread.
  <1>1. ASSUME NEW t \in Threads, OthersStay(t), Operating(t) \/ Quiet,
               Polls(pc'[t], frame'[t]),
               Operating(t)' => KnowsNext(t)
        PROVE  ISerial'
    <2> SUFFICES ASSUME NEW s \in Threads
                 PROVE  /\ Polls(pc'[s], frame'[s])
                        /\ Operating(s)' => KnowsNext(s)
      BY DEF ISerial, Known, KnowsNext
    <2>1. CASE s = t
      BY <1>1, <2>1
    <2>2. CASE s # t /\ pc'[s] = pc[s]
      <3>1. frame'[s] = frame[s] /\ (Operating(s)' => Operating(s))
        BY <1>1, <2>2 DEF OthersStay, Operating
      <3>2. ASSUME Operating(s)'
            PROVE  KnowsNext(s)
        <4>1. Known(s) /\ ~Operating(t)
          BY <2>2, <3>1, <3>2 DEF ISerial, SerialOperations
        <4> QED BY <1>1, <2>2, <3>1, <4>1, KnownStays
      <3> QED BY <2>2, <3>1, <3>2 DEF ISerial
    <2>3. CASE s # t /\ pc'[s] # pc[s]
      <3>1. pc'[s] = "wait" /\ frame'[s] = frame[s]
        BY <1>1, <2>3 DEF OthersStay
      <3> QED BY <3>1 DEF ISerial, Polls, Operating, StopLabels, StartLabels
    <2> QED BY <2>1, <2>2, <2>3
  <1>2. CASE UNCHANGED vars
    <2>1. UNCHANGED <<pc, frame, conf, disk, kernel, proc>>
      BY <1>2 DEF vars
    <2> QED BY <2>1 DEF ISerial, Operating, Known, Alive
  <1>3. ASSUME NEW c \in Callers, Call(c)
        PROVE  ISerial'
    <2>1. c \in Threads
      BY DEF Threads
    <2>2. /\ OthersStay(c) /\ Quiet
          /\ Polls(pc'[c], frame'[c])
          /\ pc'[c] # "status" => KnowsNext(c)
      BY <1>3, CallKnowsNext
    <2>3. Operating(c)' => pc'[c] # "status"
      BY DEF Operating, StopLabels, StartLabels
    <2> QED BY <1>1, <2>1, <2>2, <2>3
  <1>4. ASSUME NEW t \in Threads, Step(t)
        PROVE  ISerial'
    BY <1>1, <1>4, StepKnowsNext
  <1>5. ASSUME NEW p \in Procs, Waiter(p)
        PROVE  ISerial'
    <2>1. p \in Threads
      BY DEF Threads
    <2> QED BY <1>1, <1>5, <2>1, WaiterKnowsNext
  <1>6. ASSUME NEW p \in Procs, CoreDies(p)
        PROVE  ISerial'
    <2>1. Quiet /\ UNCHANGED <<pc, frame>>
      BY <1>6 DEF CoreDies, Quiet, Alive, TypeOK
    <2> SUFFICES ASSUME NEW s \in Threads
                 PROVE  /\ Polls(pc'[s], frame'[s])
                        /\ Operating(s)' => KnowsNext(s)
      BY DEF ISerial, Known, KnowsNext
    <2>2. Operating(s)' => Known(s)
      BY <2>1 DEF ISerial, Operating
    <2> QED BY <2>1, <2>2, KnownStays DEF ISerial
  <1> QED
    BY <1>2, <1>3, <1>4, <1>5, <1>6 DEF Next

LEMMA SerialMeansSerialStarts == SerialOperations => SerialStarts
  BY DEF SerialOperations, SerialStarts, InStart, Operating

LEMMA CoreStep ==
    /\ Init => ICore
    /\ TypeOK /\ IWatched /\ ICore /\ SerialStarts /\ [Next]_vars => ICore'
  BY OneCoreInit, OneCoreStep DEF ICore

LEMMA SerialAnswers ==
    ASSUME TypeOK, ISerial
    PROVE  StopEndsTheCore /\ FailedChangeIsRolledBack
  <1>1. ASSUME NEW c \in Callers, pc[c] = "answer", frame[c].op # "Status"
        PROVE  Known(c)
    BY <1>1 DEF ISerial, Operating, Threads
  <1>2. StopEndsTheCore
    BY <1>1 DEF StopEndsTheCore, Known, Knows, StopKnows, Cleared, Ended
  <1>3. FailedChangeIsRolledBack
    BY <1>1 DEF FailedChangeIsRolledBack, Known, Knows, ChangeKnows
  <1> QED
    BY <1>2, <1>3

\* While at most one operation is under way at a time (status polls, dying cores
\* and the goroutines that wait for them may still come in between), a Stop that
\* answers "ok" has ended the core, where kills do not fail, and has removed the
\* rules of its routing, where the cleanup does not.
THEOREM StopsEndTheCore == Spec /\ []SerialOperations => []StopEndsTheCore
  <1>1. TypeOK /\ ISerial => StopEndsTheCore
    BY SerialAnswers
  <1> QED
    BY <1>1, TypeInit, TypeStep, WatchedInit, WatchedStep, KernelInit, KernelStep, CoreStep,
       SerialMeansSerialStarts, SerialInit, SerialStep, PTL DEF Spec

\* Under the same hypothesis a routing change that answers an error after it has
\* stopped the core, or found none, has put the previous routing back, in memory
\* and, where saves do not fail, on disk.
THEOREM FailedChangesAreRolledBack == Spec /\ []SerialOperations => []FailedChangeIsRolledBack
  <1>1. TypeOK /\ ISerial => FailedChangeIsRolledBack
    BY SerialAnswers
  <1> QED
    BY <1>1, TypeInit, TypeStep, WatchedInit, WatchedStep, KernelInit, KernelStep, CoreStep,
       SerialMeansSerialStarts, SerialInit, SerialStep, PTL DEF Spec

\* Goroutines that wait for a core, when none of them restarts it.
OnlyWaits == \A p \in Procs : pc[p] \in {"idle", "wait", "exited", "unlinkPid"}

LEMMA OnlyWaitsStep == TypeOK /\ OnlyWaits /\ ~OnCrash /\ [Next]_vars => OnlyWaits'
  <1> SUFFICES ASSUME TypeOK, OnlyWaits, ~OnCrash, [Next]_vars, NEW p \in Procs
               PROVE  pc'[p] \in {"idle", "wait", "exited", "unlinkPid"}
    BY DEF OnlyWaits
  <1> USE LifecycleAssumption
  <1>0. pc[p] \in {"idle", "wait", "exited", "unlinkPid"} /\ pc \in [Threads -> Labels]
    BY DEF OnlyWaits, TypeOK
  <1>1. ASSUME NEW t \in Threads, t # p, pc'[p] = pc[p] \/ pc'[p] = "wait"
        PROVE  pc'[p] \in {"idle", "wait", "exited", "unlinkPid"}
    BY <1>0, <1>1
  <1>2. ASSUME NEW t \in Threads, NEW l, Goto(t, l), t # p
        PROVE  pc'[p] \in {"idle", "wait", "exited", "unlinkPid"}
    BY <1>0, <1>2 DEF Goto
  <1>3. CASE UNCHANGED vars
    BY <1>0, <1>3 DEF vars
  <1>4. ASSUME NEW c \in Callers, Call(c)
        PROVE  pc'[p] \in {"idle", "wait", "exited", "unlinkPid"}
    <2>1. \E l : Goto(c, l)
      BY <1>4 DEF Call, CallStatus, CallStart, CallStop, CallRestart, CallChange, Begin
    <2> QED BY <1>2, <2>1 DEF Threads
  <1>5. ASSUME NEW t \in Threads, Step(t)
        PROVE  pc'[p] \in {"idle", "wait", "exited", "unlinkPid"}
    <2>1. pc[t] \in StopLabels \cup StartLabels \cup {"status", "change", "recheck", "rollback", "answer"}
      BY <1>5 DEF Step, StopStep, Mark, StopStatus, StopKill, StopUnlink, StopRoute, StopSave,
         StartStep, KillPid,
         KillAll, SpawnFails, Spawn, Register, WritePid, WritePidFails, Ready, NotReady, Route,
         RouteFails, StartSave,
         Health, Status, Change, Recheck, Rollback, Answer, StopLabels, StartLabels
    <2>2. t # p
      BY <1>0, <2>1 DEF StopLabels, StartLabels
    <2>3. CASE Register(t)
      BY <1>0, <2>2, <2>3 DEF Register
    <2>4. CASE ~Register(t)
      <3>1. \E l : Goto(t, l)
        BY <1>5, <2>4 DEF Step, StopStep, Mark, StopStatus, StopKill, StopUnlink, StopRoute,
           StopSave, StartStep, KillPid,
           KillAll, SpawnFails, Spawn, WritePid, WritePidFails, Ready, NotReady, UndoStart,
           Route, RouteFails, StartSave,
           Health, Status, Change, Recheck, Rollback, Answer, StopReturns, StartReturns
      <3> QED BY <1>2, <2>2, <3>1
    <2> QED BY <2>3, <2>4
  <1>6. ASSUME NEW q \in Procs, Waiter(q)
        PROVE  pc'[p] \in {"idle", "wait", "exited", "unlinkPid"}
    <2>1. q \in Threads /\ pc[q] # "backoff"
      BY DEF Threads, OnlyWaits
    <2>2. \E l \in {"idle", "exited", "unlinkPid"} : Goto(q, l)
      BY <1>6, <2>1 DEF Waiter, Reap, Exited, UnlinkPid, GiveUp, CrashRestart
    <2> QED BY <1>0, <2>1, <2>2 DEF Goto
  <1>7. ASSUME NEW q \in Procs, CoreDies(q)
        PROVE  pc'[p] \in {"idle", "wait", "exited", "unlinkPid"}
    BY <1>0, <1>7 DEF CoreDies
  <1> QED
    BY <1>3, <1>4, <1>5, <1>6, <1>7 DEF Next

\* The hypothesis holds of a single client when cores are not restarted by the
\* watchdog: the two theorems above say of it what they promise.
THEOREM LoneClientIsSerial ==
    ASSUME \A c, d \in Callers : c = d, ~OnCrash
    PROVE  Spec => []SerialOperations
  <1>1. Init => OnlyWaits
    BY DEF Init, OnlyWaits, Threads
  <1>2. TypeOK /\ OnlyWaits /\ [Next]_vars => OnlyWaits'
    BY OnlyWaitsStep
  <1>3. OnlyWaits => SerialOperations
    BY DEF OnlyWaits, SerialOperations, Operating, Threads, StopLabels, StartLabels
  <1> QED
    BY <1>1, <1>2, <1>3, TypeInit, TypeStep, PTL DEF Spec


=============================================================================
