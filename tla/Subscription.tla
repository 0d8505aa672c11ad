---------------------------- MODULE Subscription ----------------------------
(***************************************************************************)
(* The subscription store (src/backend/internal/subscription/service.go):  *)
(* subscriptions.json, the provider file each subscription generates, and  *)
(* the scheduler that refreshes them behind the requests' back.            *)
(*                                                                         *)
(* Every operation holds Service.mu from its first read to its last write, *)
(* the download of a refresh included.  The scheduler lets go of the mutex *)
(* between the list it reads and each refresh it asks for.  A write may    *)
(* fail and the controller may die between any two writes; each such       *)
(* mishap is counted.                                                      *)
(*                                                                         *)
(* Not modelled: those who write the same files without Service.mu, which  *)
(* are the file handlers of mihomo/files.go on provider files (:939-958)   *)
(* and the restore of a backup on subscriptions.json and provider files    *)
(* (service/backup/service.go:459-508).                                    *)
(***************************************************************************)
EXTENDS Naturals, FiniteSets

CONSTANTS
    Callers,     \* goroutines of requests
    Sched,       \* the goroutine of StartScheduler
    None,        \* no holder, no id, no record, no file
    Ids,         \* sub_<nanoseconds>; reused here once nothing refers to them
    Names,       \* names, up to case
    Urls,
    Filenames,   \* normalized provider filenames, up to case
    Torn,        \* the content of a file whose writing was cut short
    MaxMishaps   \* bound on failed writes and crashes

ASSUME SubscriptionAssumption ==
    /\ Sched \notin Callers
    /\ None \notin Callers \cup {Sched} \cup Ids \cup Urls
    /\ Torn \notin Urls \cup {None}
    /\ MaxMishaps \in Nat

VARIABLES
    subs,      \* subscriptions.json: the record of each id that it lists
    loaded,    \* items: the list as the holder of Service.mu has read it
    corrupt,   \* subscriptions.json does not parse
    files,     \* the URL written in each file of proxy_providers
    mu,        \* who holds Service.mu
    mishaps,   \* failed writes and crashes so far
    pc,        \* where each goroutine is
    frame      \* its local variables

vars == <<subs, loaded, corrupt, files, mu, mishaps, pc, frame>>

Threads == Callers \cup {Sched}

ids == DOMAIN subs

NoSubs == [i \in {} |-> None]

(***************************************************************************)
(* Types.  success: whether last_success_at is empty, younger than the     *)
(* update interval, or older.  A new subscription starts as a draft.       *)
(***************************************************************************)
Settings == [name : Names, url : Urls, file : Filenames, enabled : BOOLEAN]

Recs == [set : Settings, status : {"draft", "healthy", "error"},
         success : {"never", "recent", "old"}]

New(set) == [set |-> set, status |-> "draft", success |-> "never"]

Labels == {"idle", "next", "lock", "unlink", "file", "open", "write", "fetch", "remove"}

Frames == [op : {"none", "Create", "Update", "Delete", "Refresh"},
           id : Ids \cup {None},
           item : Recs \cup {None},   \* the record being written
           todo : SUBSET Ids]         \* what is left of the scheduler's list

IdleFrame(todo) == [op |-> "none", id |-> None, item |-> None, todo |-> todo]

TypeOK ==
    /\ ids \in SUBSET Ids /\ subs \in [ids -> Recs]
    /\ DOMAIN loaded \in SUBSET Ids /\ loaded \in [DOMAIN loaded -> Recs]
    /\ corrupt \in BOOLEAN
    /\ files \in [Filenames -> Urls \cup {None, Torn}]
    /\ mu \in Threads \cup {None}
    /\ mishaps \in Nat
    /\ pc \in [Threads -> Labels]
    /\ frame \in [Threads -> Frames]

(***************************************************************************)
(* Helpers                                                                 *)
(***************************************************************************)
Goto(t, label) == pc' = [pc EXCEPT ![t] = label]

Mishap == mishaps < MaxMishaps /\ mishaps' = mishaps + 1

\* An operation that returns unlocks; the scheduler goes on with its list.
Return(t) ==
    /\ mu' = None
    /\ loaded' = NoSubs
    /\ Goto(t, IF t = Sched THEN "next" ELSE "idle")
    /\ frame' = [frame EXCEPT ![t] = IdleFrame(frame[t].todo)]

Unused(i) == i \notin ids /\ \A t \in Threads : i \notin frame[t].todo /\ frame[t].id # i

\* Mutant: validate compares names only.
ValidNamesOnly(set, self) == \A i \in ids \ {self} : subs[i].set.name # set.name

\* validate, for an input with a name, a URL and a filename of the right form.
Valid(set, self) ==
    \A i \in ids \ {self} : subs[i].set.name # set.name /\ subs[i].set.file # set.file

-----------------------------------------------------------------------------
(***************************************************************************)
(* Requests.  An empty filename is one filename more, "..yaml": it is what *)
(* normalizeFilename makes of filepath.Base("") = ".".                     *)
(***************************************************************************)
Request(c, op, i, item) ==
    /\ pc[c] = "idle"
    /\ Goto(c, "lock")
    /\ frame' = [frame EXCEPT ![c].op = op, ![c].id = i, ![c].item = item]
    /\ UNCHANGED <<subs, loaded, corrupt, files, mu, mishaps>>

CallCreate(c) ==
    \E i \in Ids, s \in Settings :
        Unused(i) /\ Request(c, "Create", i, New(s))

CallUpdate(c) ==
    \E i \in Ids, s \in Settings : Request(c, "Update", i, New(s))

CallDelete(c) == \E i \in Ids : Request(c, "Delete", i, None)

CallRefresh(c) == \E i \in Ids : Request(c, "Refresh", i, None)

-----------------------------------------------------------------------------
(***************************************************************************)
(* Lock, load, find, validate                                              *)
(***************************************************************************)
Locks(t, op) == pc[t] = "lock" /\ mu = None /\ frame[t].op = op

Found(t) == ~corrupt /\ frame[t].id \in ids

\* The list cannot be read, the id is not in it, or the input clashes.
Refuse(t) ==
    /\ pc[t] = "lock" /\ mu = None
    /\ \/ corrupt
       \/ frame[t].op # "Create" /\ frame[t].id \notin ids
       \/ frame[t].op \in {"Create", "Update"} /\ ~Valid(frame[t].item.set, frame[t].id)
    /\ Return(t)
    /\ UNCHANGED <<subs, corrupt, files, mishaps>>

LoadCreate(t) ==
    /\ Locks(t, "Create")
    /\ ~corrupt /\ Valid(frame[t].item.set, frame[t].id)
    /\ mu' = t /\ loaded' = subs
    /\ Goto(t, "file")
    /\ UNCHANGED <<subs, corrupt, files, mishaps, frame>>

\* Mutant: Update makes the record anew.
LoadUpdateAnew(t) ==
    LET set == frame[t].item.set
    IN  /\ Locks(t, "Update")
        /\ Found(t) /\ Valid(set, frame[t].id)
        /\ mu' = t /\ loaded' = subs
        /\ Goto(t, IF set.file # subs[frame[t].id].set.file THEN "unlink" ELSE "file")
        /\ UNCHANGED <<subs, corrupt, files, mishaps, frame>>

\* The status and the last success are kept; with another interval that
\* success may count as recent or as old.
LoadUpdate(t) ==
    LET old == subs[frame[t].id]
        set == frame[t].item.set
    IN  /\ Locks(t, "Update")
        /\ Found(t) /\ Valid(set, frame[t].id)
        /\ mu' = t /\ loaded' = subs
        /\ \E success \in {"never", "recent", "old"} :
              /\ success = "never" <=> old.success = "never"
              /\ frame' = [frame EXCEPT ![t].item =
                              [old EXCEPT !.set = set, !.success = success]]
        /\ Goto(t, IF set.file # old.set.file THEN "unlink" ELSE "file")
        /\ UNCHANGED <<subs, corrupt, files, mishaps>>

LoadDelete(t) ==
    /\ Locks(t, "Delete")
    /\ Found(t)
    /\ mu' = t /\ loaded' = subs
    /\ frame' = [frame EXCEPT ![t].item = subs[frame[t].id]]
    /\ Goto(t, "open")
    /\ UNCHANGED <<subs, corrupt, files, mishaps>>

LoadRefresh(t) ==
    /\ Locks(t, "Refresh")
    /\ Found(t)
    /\ mu' = t /\ loaded' = subs
    /\ Goto(t, "fetch")
    /\ UNCHANGED <<subs, corrupt, files, mishaps, frame>>

-----------------------------------------------------------------------------
(***************************************************************************)
(* Under the mutex                                                         *)
(***************************************************************************)
\* os.Remove, whose error Update and Delete ignore.
RemoveFile(f) ==
    \/ files' = [files EXCEPT ![f] = None] /\ UNCHANGED mishaps
    \/ files' = files /\ Mishap

\* Update: the file of the old name goes first.
Unlink(t) ==
    /\ pc[t] = "unlink"
    /\ RemoveFile(loaded[frame[t].id].set.file)
    /\ Goto(t, "file")
    /\ UNCHANGED <<subs, loaded, corrupt, mu, frame>>

\* writeProviderFile, before the list is saved.
WriteFile(t) ==
    /\ pc[t] = "file"
    /\ files' = [files EXCEPT ![frame[t].item.set.file] = frame[t].item.set.url]
    /\ Goto(t, "open")
    /\ UNCHANGED <<subs, loaded, corrupt, mu, mishaps, frame>>

WriteFileFails(t) ==
    /\ pc[t] = "file"
    /\ Mishap
    /\ files' \in {files, [files EXCEPT ![frame[t].item.set.file] = Torn]}
    /\ Return(t)
    /\ UNCHANGED <<subs, corrupt>>

\* save: os.WriteFile opens and truncates subscriptions.json ...
Open(t) ==
    /\ pc[t] = "open"
    /\ Goto(t, "write")
    /\ UNCHANGED <<subs, loaded, corrupt, files, mu, mishaps, frame>>

OpenFails(t) ==
    /\ pc[t] = "open"
    /\ Mishap
    /\ Return(t)
    /\ UNCHANGED <<subs, corrupt, files>>

\* ... and then writes it: the list read before the download, with the record
\* in it or without.  A new subscription is refreshed at once, from the list
\* just saved, and a deleted one has its file removed.
Write(t) ==
    /\ pc[t] = "write"
    /\ subs' = IF frame[t].op = "Delete"
               THEN [i \in DOMAIN loaded \ {frame[t].id} |-> loaded[i]]
               ELSE [i \in DOMAIN loaded \cup {frame[t].id} |->
                        IF i = frame[t].id THEN frame[t].item ELSE loaded[i]]
    /\ CASE frame[t].op = "Create" ->
              /\ frame' = [frame EXCEPT ![t].op = "Refresh"]
              /\ Goto(t, "fetch")
              /\ loaded' = subs' /\ UNCHANGED mu
         [] frame[t].op = "Delete" ->
              /\ Goto(t, "remove")
              /\ loaded' = subs' /\ UNCHANGED <<mu, frame>>
         [] OTHER -> Return(t)
    /\ UNCHANGED <<corrupt, files, mishaps>>

\* What is left of a list that was truncated and not written: an empty file,
\* which load takes for an empty list, or the beginning of one.
LoseList ==
    /\ subs' = NoSubs
    /\ corrupt' \in BOOLEAN

WriteFails(t) ==
    /\ pc[t] = "write"
    /\ Mishap
    /\ LoseList
    /\ Return(t)
    /\ UNCHANGED files

Remove(t) ==
    /\ pc[t] = "remove"
    /\ RemoveFile(frame[t].item.set.file)
    /\ Return(t)
    /\ UNCHANGED <<subs, corrupt>>

\* Mutant: a healthy refresh uses another word than the web interface knows.
SucceededOk(r) == [r EXCEPT !.status = "ok", !.success = "recent"]

Succeeded(r) == [r EXCEPT !.status = "healthy", !.success = "recent"]

\* Mutant: a subscription that cannot be fetched is disabled.
FailedDisables(r) == [r EXCEPT !.status = "error", !.set.enabled = FALSE]

Failed(r) == [r EXCEPT !.status = "error"]

\* Mutant: a refresh trusts the provider file to be there.
FetchSucceedsNoFile(t) ==
    /\ pc[t] = "fetch"
    /\ frame' = [frame EXCEPT ![t].item = Succeeded(loaded[frame[t].id])]
    /\ Goto(t, "open")
    /\ UNCHANGED <<subs, loaded, corrupt, files, mu, mishaps>>

\* refreshLocked after fetchProxyCount: the provider file is written again.
FetchSucceeds(t) ==
    /\ pc[t] = "fetch"
    /\ frame' = [frame EXCEPT ![t].item = Succeeded(loaded[frame[t].id])]
    /\ Goto(t, "file")
    /\ UNCHANGED <<subs, loaded, corrupt, files, mu, mishaps>>

\* No answer in 30 s, another status than 200, or nothing that parses.
FetchFails(t) ==
    /\ pc[t] = "fetch"
    /\ frame' = [frame EXCEPT ![t].item = Failed(loaded[frame[t].id])]
    /\ Goto(t, "open")
    /\ UNCHANGED <<subs, loaded, corrupt, files, mu, mishaps>>

-----------------------------------------------------------------------------
(***************************************************************************)
(* checkAndRefreshSubscriptions, once a minute                             *)
(***************************************************************************)
\* Mutant: a subscription in error waits for the user.
DueHealthy(r) == r.set.enabled /\ r.success # "recent" /\ r.status # "error"

Due(r) == r.set.enabled /\ r.success # "recent"

\* The list is read under the mutex and kept after it is released.  late: what
\* is recent now, and no longer when its turn comes.
Tick ==
    /\ pc[Sched] = "idle" /\ mu = None
    /\ ~corrupt
    /\ \E late \in SUBSET {i \in ids : subs[i].set.enabled /\ subs[i].success = "recent"} :
          frame' = [frame EXCEPT ![Sched].todo = {i \in ids : Due(subs[i])} \cup late]
    /\ Goto(Sched, "next")
    /\ UNCHANGED <<subs, loaded, corrupt, files, mu, mishaps>>

\* Refresh(item.ID): the id is looked up again, its settings are not.
RefreshNext ==
    /\ pc[Sched] = "next"
    /\ \E i \in frame[Sched].todo :
          frame' = [frame EXCEPT ![Sched].op = "Refresh", ![Sched].id = i,
                                 ![Sched].todo = @ \ {i}]
    /\ Goto(Sched, "lock")
    /\ UNCHANGED <<subs, loaded, corrupt, files, mu, mishaps>>

PassEnds ==
    /\ pc[Sched] = "next" /\ frame[Sched].todo = {}
    /\ Goto(Sched, "idle")
    /\ UNCHANGED <<subs, loaded, corrupt, files, mu, mishaps, frame>>

\* The update interval of i passes.  Nobody compares times under the mutex but
\* Tick, so that it passes while the mutex is free loses no behaviour.
Expire(i) ==
    /\ i \in ids /\ mu = None /\ subs[i].success = "recent"
    /\ subs' = [subs EXCEPT ![i].success = "old"]
    /\ UNCHANGED <<loaded, corrupt, files, mu, mishaps, pc, frame>>

\* The controller dies and is started again.
Crash ==
    /\ Mishap
    /\ IF \E t \in Threads : pc[t] = "write"
       THEN LoseList
       ELSE UNCHANGED <<subs, corrupt>>
    /\ \/ files' = files
       \/ \E t \in Threads :
             /\ pc[t] = "file"
             /\ files' = [files EXCEPT ![frame[t].item.set.file] = Torn]
    /\ mu' = None /\ loaded' = NoSubs
    /\ pc' = [t \in Threads |-> "idle"]
    /\ frame' = [t \in Threads |-> IdleFrame({})]

-----------------------------------------------------------------------------
Init ==
    /\ subs = NoSubs
    /\ loaded = NoSubs
    /\ corrupt = FALSE
    /\ files = [f \in Filenames |-> None]
    /\ mu = None
    /\ mishaps = 0
    /\ pc = [t \in Threads |-> "idle"]
    /\ frame = [t \in Threads |-> IdleFrame({})]

Call(c) == CallCreate(c) \/ CallUpdate(c) \/ CallDelete(c) \/ CallRefresh(c)

Acquire(t) ==
    \/ Refuse(t) \/ LoadCreate(t) \/ LoadUpdate(t) \/ LoadDelete(t) \/ LoadRefresh(t)

Proceed(t) ==
    \/ Unlink(t) \/ WriteFile(t) \/ Open(t) \/ Write(t) \/ Remove(t)
    \/ FetchSucceeds(t) \/ FetchFails(t)

Fail(t) == WriteFileFails(t) \/ OpenFails(t) \/ WriteFails(t)

Next ==
    \/ \E c \in Callers : Call(c)
    \/ \E t \in Threads : Acquire(t) \/ Proceed(t) \/ Fail(t)
    \/ Tick \/ RefreshNext \/ PassEnds
    \/ \E i \in Ids : Expire(i)
    \/ Crash

Spec == Init /\ [][Next]_vars

\* sync.Mutex starves nobody, a fetch ends within 30 seconds, and the ticker
\* of the scheduler goes on.
Fairness ==
    /\ \A t \in Threads : SF_vars(Acquire(t)) /\ WF_vars(Proceed(t))
    /\ SF_vars(Tick) /\ WF_vars(RefreshNext) /\ WF_vars(PassEnds)

FairSpec == Spec /\ Fairness

-----------------------------------------------------------------------------
(***************************************************************************)
(* Properties                                                              *)
(***************************************************************************)
\* No two subscriptions have one name or share a provider file, whichever
\* writes fail: a refresh or an update never overwrites another's file.
UniqueNamesAndFiles ==
    \A i, j \in ids : i # j =>
        subs[i].set.name # subs[j].set.name /\ subs[i].set.file # subs[j].set.file

\* What the user set is changed by an update of that subscription alone: no
\* refresh, the scheduler's among them, writes back settings it read earlier.
OnlyUpdatesChangeSettings ==
    [][\A i \in ids \cap ids' : subs'[i].set # subs[i].set =>
          \E c \in Callers : pc[c] = "write" /\ frame[c].op = "Update" /\ frame[c].id = i]_vars

\* A refresh that is recorded as healthy has just restored the provider file,
\* also when an earlier failure had lost or torn it.
HealthyMeansFile ==
    [][\A i \in ids' : subs'[i].status = "healthy" /\ subs'[i].success = "recent" /\ subs'[i] # subs[i] =>
          files'[subs'[i].set.file] = subs'[i].set.url]_vars

\* Enabled, and without a success in the last update interval.
Overdue(i) == i \in ids /\ subs[i].set.enabled /\ subs[i].success # "recent"

\* The scheduler comes to fetch whatever stays overdue, fetches that fail and
\* requests that hold the mutex notwithstanding.
DueIsFetched ==
    \A i \in Ids : []<>(~Overdue(i) \/ (pc[Sched] = "fetch" /\ frame[Sched].id = i))

\* The service implements the store that the web interface is written against:
\* whatever callers, scheduler, failed writes and crashes do, the list changes
\* by whole operations, each valid against the list it changes.
Store == INSTANCE SubscriptionStore WITH
    records <- [i \in ids |-> [set |-> subs[i].set, status |-> subs[i].status]],
    readable <- ~corrupt

ImplementsStore == Store!StoreSpec

=============================================================================
