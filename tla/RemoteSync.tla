----------------------------- MODULE RemoteSync -----------------------------
(***************************************************************************)
(* The remote targets of backups: the card of the Backup page              *)
(* (src/web/src/app/backup/page.tsx), and SyncToRemote and                 *)
(* TestRemoteTarget of the service that handler/backup/remote.go has for   *)
(* itself, with a mutex of its own.                                        *)
(*                                                                         *)
(* A call keeps the number of times it holds the mutex: sync.Mutex is not  *)
(* reentrant, and who locks it twice waits for himself.                    *)
(***************************************************************************)
EXTENDS Naturals, FiniteSets

CONSTANTS
    Targets,       \* enabled targets of the configuration
    NoTarget,
    SyncSlots,     \* calls under way at once
    MaxPresses     \* bound on what the user presses

VARIABLES
    syncLoading, testLoading,    \* one each: the target pressed last
    targetsLoading,              \* remoteTargetsLoading
    mutexHolder,                 \* the call that has locked it, or none
    syncCalls,
    presses

syncVars == <<syncLoading, testLoading, targetsLoading, mutexHolder, syncCalls, presses>>

\* What syncToRemote, testRemoteTarget and loadRemoteTargets are doing.
NoSyncCall == [op |-> "none", stage |-> "sent", target |-> NoTarget]

SyncTypeOK ==
    /\ syncLoading \in Targets \cup {NoTarget} /\ testLoading \in Targets \cup {NoTarget}
    /\ targetsLoading \in BOOLEAN
    /\ mutexHolder \subseteq SyncSlots /\ Cardinality(mutexHolder) <= 1
    /\ syncCalls \in [SyncSlots -> [op : {"none", "sync", "test", "targets"},
                                    stage : {"sent", "locked", "listed", "served", "refused"},
                                    target : Targets \cup {NoTarget}]]

-----------------------------------------------------------------------------
Carries(s, op, stage) == syncCalls[s].op = op /\ syncCalls[s].stage = stage

Moves(s, stage) == syncCalls' = [syncCalls EXCEPT ![s].stage = stage]

Press == presses < MaxPresses /\ presses' = presses + 1

PressTest(s, t) ==
    /\ Press /\ ~targetsLoading /\ testLoading # t /\ syncCalls[s] = NoSyncCall
    /\ syncCalls' = [syncCalls EXCEPT ![s] = [op |-> "test", stage |-> "sent", target |-> t]]
    /\ testLoading' = t
    /\ UNCHANGED <<syncLoading, targetsLoading, mutexHolder>>

\* Without a filename.
PressSync(s, t) ==
    /\ Press /\ ~targetsLoading /\ syncLoading # t /\ syncCalls[s] = NoSyncCall
    /\ syncCalls' = [syncCalls EXCEPT ![s] = [op |-> "sync", stage |-> "sent", target |-> t]]
    /\ syncLoading' = t
    /\ UNCHANGED <<testLoading, targetsLoading, mutexHolder>>

-----------------------------------------------------------------------------
Lock(s) == mutexHolder = {} /\ mutexHolder' = {s}

Elsewise == UNCHANGED <<syncLoading, testLoading, targetsLoading, presses>>

SyncLocks(s) == Carries(s, "sync", "sent") /\ Lock(s) /\ Moves(s, "locked") /\ Elsewise

\* ListBackups locks the same mutex and unlocks it before SyncToRemote goes on.
SyncLists(s) ==
    /\ Carries(s, "sync", "locked")
    /\ Lock(s)
    /\ Moves(s, "listed") /\ Elsewise

\* The upload succeeds or not; the deferred unlock follows either way.
SyncUploads(s) ==
    /\ Carries(s, "sync", "listed")
    /\ mutexHolder' = {}
    /\ \E stage \in {"served", "refused"} : Moves(s, stage)
    /\ Elsewise

\* TestRemoteTarget and the list of the targets take no lock.
ServeUnlocked(s) ==
    /\ Carries(s, "test", "sent") \/ Carries(s, "targets", "sent")
    /\ \E stage \in {"served", "refused"} : Moves(s, stage)
    /\ UNCHANGED mutexHolder /\ Elsewise

-----------------------------------------------------------------------------
\* After a sync that succeeded the targets are loaded again.
SyncAnswered(s) ==
    /\ Carries(s, "sync", "served") \/ Carries(s, "sync", "refused")
    /\ syncLoading' = NoTarget
    /\ IF syncCalls[s].stage = "served"
       THEN /\ syncCalls' = [syncCalls EXCEPT ![s] = [NoSyncCall EXCEPT !.op = "targets"]]
            /\ targetsLoading' = TRUE
       ELSE syncCalls' = [syncCalls EXCEPT ![s] = NoSyncCall] /\ UNCHANGED targetsLoading
    /\ UNCHANGED <<testLoading, mutexHolder, presses>>

OtherAnswered(s) ==
    /\ \E op \in {"test", "targets"}, stage \in {"served", "refused"} : Carries(s, op, stage)
    /\ syncCalls' = [syncCalls EXCEPT ![s] = NoSyncCall]
    /\ testLoading' = IF syncCalls[s].op = "test" THEN NoTarget ELSE testLoading
    /\ targetsLoading' = (targetsLoading /\ syncCalls[s].op # "targets")
    /\ UNCHANGED <<syncLoading, mutexHolder, presses>>

SyncInit ==
    /\ syncLoading = NoTarget /\ testLoading = NoTarget /\ targetsLoading = FALSE
    /\ mutexHolder = {} /\ syncCalls = [s \in SyncSlots |-> NoSyncCall] /\ presses = 0

SyncNext ==
    \E s \in SyncSlots :
        \/ \E t \in Targets : PressTest(s, t) \/ PressSync(s, t)
        \/ SyncLocks(s) \/ SyncLists(s) \/ SyncUploads(s) \/ ServeUnlocked(s)
        \/ SyncAnswered(s) \/ OtherAnswered(s)

\* The server serves what it can and the page takes every answer; a mutex that
\* is free again and again is had in the end.
SyncFairness ==
    \A s \in SyncSlots :
        /\ SF_syncVars(SyncLocks(s)) /\ SF_syncVars(SyncLists(s)) /\ WF_syncVars(SyncUploads(s))
        /\ WF_syncVars(ServeUnlocked(s)) /\ WF_syncVars(SyncAnswered(s)) /\ WF_syncVars(OtherAnswered(s))

SyncSpec == SyncInit /\ [][SyncNext]_syncVars /\ SyncFairness

-----------------------------------------------------------------------------
\* handler/backup/codemap.md: "if no filename, uses latest backup".  A sync is
\* answered in the end.
SyncIsAnswered ==
    \A s \in SyncSlots : (syncCalls[s].op = "sync") ~> (syncCalls[s].op # "sync")

=============================================================================
