------------------------ MODULE Subscription_proofs -------------------------
(***************************************************************************)
(* Theorems about the subscription store, for any number of requests, ids, *)
(* names, files, failed writes and crashes: the list first, and then the   *)
(* provider files that go with it.                                         *)
(***************************************************************************)
EXTENDS Subscription, TLAPS

-----------------------------------------------------------------------------
(***************************************************************************)
(* The inductive invariant: what a goroutine knows of the list while it    *)
(* holds the mutex, and what it brings to the mutex.                       *)
(***************************************************************************)
Writing == {"unlink", "file", "open", "write"}

Section == Writing \cup {"fetch", "remove"}

Holds(t) == pc[t] \in Section => mu = t

Asks(t) ==
    /\ pc[t] \in Section \cup {"lock"} => frame[t].op # "none" /\ frame[t].id \in Ids
    /\ pc[t] = "lock" /\ frame[t].op \in {"Create", "Update"} => frame[t].item \in Recs
    /\ pc[t] = "unlink" => frame[t].op = "Update"
    /\ pc[t] = "fetch" => frame[t].op = "Refresh"
    /\ pc[t] = "remove" => frame[t].op = "Delete"

HasItem(t) == pc[t] \in Writing \cup {"remove"} => frame[t].item \in Recs

Fits(t) ==
    pc[t] \in Writing /\ frame[t].op # "Delete" => Valid(frame[t].item.set, frame[t].id)

Listed(t) == pc[t] \in Section \ {"remove"} /\ frame[t].op # "Create" => frame[t].id \in ids

KeepsSettings(t) ==
    pc[t] \in Writing /\ frame[t].op = "Refresh" =>
        frame[t].item.set = subs[frame[t].id].set

Creates(t) == frame[t].op = "Create" => frame[t].id \notin ids

\* Nobody else changes the list it has read under the mutex, or has just saved.
Reads(t) == pc[t] \in Section => loaded = subs

Good(t) ==
    /\ Holds(t) /\ Reads(t) /\ Asks(t) /\ HasItem(t) /\ Fits(t)
    /\ Listed(t) /\ KeepsSettings(t) /\ Creates(t)

CreatorsDiffer ==
    \A s, t \in Threads :
        s # t /\ frame[s].op = "Create" /\ frame[t].op = "Create" => frame[s].id # frame[t].id

SchedRefreshes == frame[Sched].op \in {"none", "Refresh"}

Inv ==
    /\ TypeOK
    /\ \A t \in Threads : Good(t)
    /\ CreatorsDiffer
    /\ SchedRefreshes
    /\ UniqueNamesAndFiles

-----------------------------------------------------------------------------
(***************************************************************************)
(* Types                                                                   *)
(***************************************************************************)
LEMMA IdleFrameType ==
    ASSUME NEW todo \in SUBSET Ids
    PROVE  IdleFrame(todo) \in Frames
BY DEF IdleFrame, Frames

LEMMA NewType ==
    ASSUME NEW set \in Settings
    PROVE  New(set) \in Recs /\ New(set).set = set
BY DEF New, Recs

LEMMA NoSubsType ==
    /\ DOMAIN NoSubs = {}
    /\ DOMAIN NoSubs \in SUBSET Ids /\ NoSubs \in [DOMAIN NoSubs -> Recs]
BY DEF NoSubs

\* An operation that returns keeps the types of what Return assigns.
LEMMA ReturnType ==
    ASSUME TypeOK, NEW t \in Threads, Return(t)
    PROVE  /\ mu' \in Threads \cup {None}
           /\ DOMAIN loaded' \in SUBSET Ids /\ loaded' \in [DOMAIN loaded' -> Recs]
           /\ pc' \in [Threads -> Labels]
           /\ frame' \in [Threads -> Frames]
<1>1. frame[t].todo \in SUBSET Ids
  BY DEF TypeOK, Frames
<1>2. IdleFrame(frame[t].todo) \in Frames
  BY <1>1, IdleFrameType
<1> QED
  BY <1>2, NoSubsType DEF Return, Goto, TypeOK, Labels

LEMMA TypeInit == Init => TypeOK
<1> SUFFICES ASSUME Init PROVE TypeOK
  OBVIOUS
<1>1. IdleFrame({}) \in Frames
  BY IdleFrameType
<1>2. ids = {} /\ subs \in [ids -> Recs]
  BY NoSubsType DEF Init, ids
<1> QED
  BY <1>1, <1>2, NoSubsType DEF Init, TypeOK, Labels

LEMMA TypeCall ==
    ASSUME TypeOK, NEW c \in Callers, Call(c)
    PROVE  TypeOK'
<1>1. ASSUME NEW op \in {"Create", "Update", "Delete", "Refresh"}, NEW i \in Ids,
             NEW item \in Recs \cup {None}, Request(c, op, i, item)
      PROVE  TypeOK'
  <2>1. c \in Threads
    BY DEF Threads
  <2>2. [frame[c] EXCEPT !.op = op, !.id = i, !.item = item] \in Frames
    BY <2>1 DEF TypeOK, Frames
  <2>3. frame' \in [Threads -> Frames]
    BY <1>1, <2>1, <2>2 DEF Request, TypeOK
  <2> QED
    BY <1>1, <2>1, <2>3 DEF Request, Goto, TypeOK, Labels, ids
<1>2. \A s \in Settings : New(s) \in Recs \cup {None}
  BY NewType
<1>3. None \in Recs \cup {None}
  OBVIOUS
<1>4. CASE CallCreate(c)
  BY <1>1, <1>2, <1>4 DEF CallCreate
<1>5. CASE CallUpdate(c)
  BY <1>1, <1>2, <1>5 DEF CallUpdate
<1>6. CASE CallDelete(c)
  BY <1>1, <1>3, <1>6 DEF CallDelete
<1>7. CASE CallRefresh(c)
  BY <1>1, <1>3, <1>7 DEF CallRefresh
<1> QED
  BY <1>4, <1>5, <1>6, <1>7 DEF Call

\* Who acquires the mutex.
LEMMA TypeAcquire ==
    ASSUME Inv, NEW t \in Threads, Acquire(t)
    PROVE  TypeOK'
<1> USE DEF Inv
<1>1. CASE Refuse(t)
  BY <1>1, ReturnType DEF Refuse, TypeOK, ids
<1>2. CASE LoadCreate(t)
  BY <1>2 DEF LoadCreate, Locks, Goto, TypeOK, Labels, ids
<1>3. CASE LoadUpdate(t)
  <2> DEFINE old == subs[frame[t].id]
             set == frame[t].item.set
  <2>1. /\ pc[t] = "lock" /\ frame[t].op = "Update" /\ frame[t].id \in ids
        /\ UNCHANGED <<subs, corrupt, files, mishaps>>
        /\ mu' = t /\ loaded' = subs
    BY <1>3 DEF LoadUpdate, Locks, Found
  <2>2. old \in Recs /\ set \in Settings
    BY <2>1 DEF TypeOK, Good, Asks, Recs
  <2>3. PICK success \in {"never", "recent", "old"} :
            frame' = [frame EXCEPT ![t].item = [old EXCEPT !.set = set, !.success = success]]
    BY <1>3 DEF LoadUpdate
  <2>4. [old EXCEPT !.set = set, !.success = success] \in Recs
    BY <2>2 DEF Recs
  <2>5. [frame[t] EXCEPT !.item = [old EXCEPT !.set = set, !.success = success]] \in Frames
    BY <2>4 DEF TypeOK, Frames
  <2>6. frame' \in [Threads -> Frames]
    BY <2>3, <2>5 DEF TypeOK
  <2>7. pc' \in [Threads -> Labels]
    BY <1>3 DEF LoadUpdate, Goto, TypeOK, Labels
  <2> QED
    BY <2>1, <2>6, <2>7 DEF TypeOK, ids
<1>4. CASE LoadDelete(t)
  <2>1. frame[t].id \in ids /\ subs[frame[t].id] \in Recs
    BY <1>4 DEF LoadDelete, Found, TypeOK
  <2>2. [frame[t] EXCEPT !.item = subs[frame[t].id]] \in Frames
    BY <2>1 DEF TypeOK, Frames
  <2>3. frame' \in [Threads -> Frames]
    BY <1>4, <2>2 DEF LoadDelete, TypeOK
  <2> QED
    BY <1>4, <2>3 DEF LoadDelete, Goto, TypeOK, Labels, ids
<1>5. CASE LoadRefresh(t)
  BY <1>5 DEF LoadRefresh, Locks, Goto, TypeOK, Labels, ids
<1> QED
  BY <1>1, <1>2, <1>3, <1>4, <1>5 DEF Acquire

LEMMA RemoveFileType ==
    ASSUME TypeOK, NEW f, RemoveFile(f)
    PROVE  files' \in [Filenames -> Urls \cup {None, Torn}] /\ mishaps' \in Nat
BY DEF RemoveFile, Mishap, TypeOK

\* Where a listed record goes, a record stays.
LEMMA WriteType ==
    ASSUME Inv, NEW t \in Threads, Write(t)
    PROVE  ids' \in SUBSET Ids /\ subs' \in [ids' -> Recs]
<1>1. frame[t].item \in Recs /\ frame[t].id \in Ids /\ loaded = subs
  BY DEF Write, Inv, Good, HasItem, Reads, Asks, Writing, Section
<1>2. CASE frame[t].op = "Delete"
  <2>1. subs' = [i \in ids \ {frame[t].id} |-> subs[i]]
    BY <1>1, <1>2 DEF Write, ids
  <2>2. ids' = ids \ {frame[t].id}
    BY <2>1 DEF ids
  <2> QED
    BY <2>1, <2>2 DEF Inv, TypeOK
<1>3. CASE frame[t].op # "Delete"
  <2>1. subs' = [i \in ids \cup {frame[t].id} |->
                    IF i = frame[t].id THEN frame[t].item ELSE subs[i]]
    BY <1>1, <1>3 DEF Write, ids
  <2>2. ids' = ids \cup {frame[t].id}
    BY <2>1 DEF ids
  <2> QED
    BY <1>1, <2>1, <2>2 DEF Inv, TypeOK
<1> QED
  BY <1>2, <1>3

LEMMA LoseListFacts ==
    ASSUME LoseList
    PROVE  ids' = {} /\ subs' \in [ids' -> Recs] /\ corrupt' \in BOOLEAN
BY NoSubsType DEF LoseList, ids

\* Who goes on under the mutex.
LEMMA TypeProceed ==
    ASSUME Inv, NEW t \in Threads, Proceed(t)
    PROVE  TypeOK'
<1> USE DEF Inv
<1>1. CASE Unlink(t)
  BY <1>1, RemoveFileType DEF Unlink, Goto, TypeOK, Labels, ids
<1>2. CASE WriteFile(t)
  <2>1. frame[t].item.set.url \in Urls
    BY <1>2 DEF WriteFile, Good, HasItem, Writing, Recs, Settings
  <2> QED
    BY <1>2, <2>1 DEF WriteFile, Goto, TypeOK, Labels, ids
<1>3. CASE Open(t)
  BY <1>3 DEF Open, Goto, TypeOK, Labels, ids
<1>4. CASE Write(t)
  <2>1. ids' \in SUBSET Ids /\ subs' \in [ids' -> Recs]
    BY <1>4, WriteType
  <2>2. /\ mu' \in Threads \cup {None}
        /\ DOMAIN loaded' \in SUBSET Ids /\ loaded' \in [DOMAIN loaded' -> Recs]
        /\ pc' \in [Threads -> Labels]
        /\ frame' \in [Threads -> Frames]
    <3>1. CASE frame[t].op = "Create"
      <4>1. [frame[t] EXCEPT !.op = "Refresh"] \in Frames
        BY DEF TypeOK, Frames
      <4>2. frame' = [frame EXCEPT ![t].op = "Refresh"]
        BY <1>4, <3>1 DEF Write
      <4>3. frame' \in [Threads -> Frames]
        BY <4>1, <4>2 DEF TypeOK
      <4> QED
        BY <1>4, <2>1, <3>1, <4>3 DEF Write, Goto, TypeOK, Labels, ids
    <3>2. CASE frame[t].op = "Delete"
      BY <1>4, <2>1, <3>2 DEF Write, Goto, TypeOK, Labels, ids
    <3>3. CASE frame[t].op \notin {"Create", "Delete"}
      <4>1. Return(t)
        BY <1>4, <3>3 DEF Write
      <4> QED
        BY <4>1, ReturnType
    <3> QED
      BY <3>1, <3>2, <3>3
  <2> QED
    BY <1>4, <2>1, <2>2 DEF Write, TypeOK
<1>5. CASE Remove(t)
  BY <1>5, RemoveFileType, ReturnType DEF Remove, TypeOK, ids
<1>6. CASE FetchSucceeds(t) \/ FetchFails(t)
  <2>1. subs[frame[t].id] \in Recs /\ loaded = subs
    BY <1>6 DEF FetchSucceeds, FetchFails, Good, Listed, Reads, Asks, Section, TypeOK
  <2>2. Succeeded(subs[frame[t].id]) \in Recs /\ Failed(subs[frame[t].id]) \in Recs
    BY <2>1 DEF Succeeded, Failed, Recs
  <2>3. PICK item \in Recs : frame' = [frame EXCEPT ![t].item = item]
    BY <1>6, <2>1, <2>2 DEF FetchSucceeds, FetchFails
  <2>4. [frame[t] EXCEPT !.item = item] \in Frames
    BY DEF TypeOK, Frames
  <2>5. frame' \in [Threads -> Frames]
    BY <2>3, <2>4 DEF TypeOK
  <2> QED
    BY <1>6, <2>5 DEF FetchSucceeds, FetchFails, Goto, TypeOK, Labels, ids
<1> QED
  BY <1>1, <1>2, <1>3, <1>4, <1>5, <1>6 DEF Proceed

\* Who fails.
LEMMA TypeFail ==
    ASSUME Inv, NEW t \in Threads, Fail(t)
    PROVE  TypeOK'
<1> USE DEF Inv
<1>1. CASE WriteFileFails(t)
  BY <1>1, ReturnType DEF WriteFileFails, Mishap, TypeOK, ids
<1>2. CASE OpenFails(t)
  BY <1>2, ReturnType DEF OpenFails, Mishap, TypeOK, ids
<1>3. CASE WriteFails(t)
  BY <1>3, ReturnType, LoseListFacts DEF WriteFails, Mishap, TypeOK
<1> QED
  BY <1>1, <1>2, <1>3 DEF Fail

\* The scheduler's loop, the clock and a crash.
LEMMA TypeOther ==
    ASSUME Inv, Tick \/ RefreshNext \/ PassEnds \/ (\E i \in Ids : Expire(i)) \/ Crash
    PROVE  TypeOK'
<1> USE DEF Inv
<1>0. Sched \in Threads
  BY DEF Threads
<1>1. CASE Tick
  <2>1. PICK todo \in SUBSET Ids : frame' = [frame EXCEPT ![Sched].todo = todo]
    BY <1>1 DEF Tick, TypeOK
  <2>2. [frame[Sched] EXCEPT !.todo = todo] \in Frames
    BY <1>0 DEF TypeOK, Frames
  <2>3. frame' \in [Threads -> Frames]
    BY <2>1, <2>2 DEF TypeOK
  <2> QED
    BY <1>1, <2>3 DEF Tick, Goto, TypeOK, Labels, ids
<1>2. CASE RefreshNext
  <2>1. frame[Sched].todo \in SUBSET Ids
    BY <1>0 DEF TypeOK, Frames
  <2>2. PICK i \in frame[Sched].todo :
            frame' = [frame EXCEPT ![Sched].op = "Refresh", ![Sched].id = i,
                                   ![Sched].todo = @ \ {i}]
    BY <1>2 DEF RefreshNext
  <2>3. [frame[Sched] EXCEPT !.op = "Refresh", !.id = i, !.todo = @ \ {i}] \in Frames
    BY <1>0, <2>1 DEF TypeOK, Frames
  <2>4. frame' \in [Threads -> Frames]
    BY <2>2, <2>3 DEF TypeOK
  <2> QED
    BY <1>2, <2>4 DEF RefreshNext, Goto, TypeOK, Labels, ids
<1>3. CASE PassEnds
  BY <1>3 DEF PassEnds, Goto, TypeOK, Labels, ids
<1>4. CASE \E i \in Ids : Expire(i)
  <2>1. PICK i \in ids : subs' = [subs EXCEPT ![i].success = "old"]
    BY <1>4 DEF Expire
  <2>2. [subs[i] EXCEPT !.success = "old"] \in Recs
    BY DEF TypeOK, Recs
  <2>3. subs' \in [ids -> Recs] /\ ids' = ids
    BY <2>1, <2>2 DEF TypeOK, ids
  <2> QED
    BY <1>4, <2>3 DEF Expire, TypeOK
<1>5. CASE Crash
  <2>1. IdleFrame({}) \in Frames
    BY IdleFrameType
  <2>2. ids' \in SUBSET Ids /\ subs' \in [ids' -> Recs] /\ corrupt' \in BOOLEAN
    BY <1>5, LoseListFacts DEF Crash, TypeOK, ids
  <2> QED
    BY <1>5, <2>1, <2>2, NoSubsType DEF Crash, Mishap, TypeOK, Labels
<1> QED
  BY <1>1, <1>2, <1>3, <1>4, <1>5

\* One step keeps the types, given what the goroutines know.
LEMMA TypeStep ==
    ASSUME Inv, [Next]_vars
    PROVE  TypeOK'
<1>1. CASE Next
  BY <1>1, TypeCall, TypeAcquire, TypeProceed, TypeFail, TypeOther DEF Next, Inv
<1>2. CASE UNCHANGED vars
  BY <1>2 DEF vars, Inv, TypeOK, ids
<1> QED
  BY <1>1, <1>2

-----------------------------------------------------------------------------
(***************************************************************************)
(* Who knows what: goroutines other than the one that takes the step, and  *)
(* goroutines that are not at work.                                        *)
(***************************************************************************)
LEMMA Bystander ==
    ASSUME Inv, NEW s \in Threads,
           pc'[s] = pc[s], frame'[s] = frame[s],
           \/ UNCHANGED <<subs, loaded, mu>>
           \/ mu # s /\ (frame[s].op = "Create" => frame[s].id \notin ids')
    PROVE  Good(s)'
<1>1. Good(s)
  BY DEF Inv
<1>2. CASE UNCHANGED <<subs, loaded, mu>>
  BY <1>1, <1>2 DEF Good, Holds, Reads, Asks, HasItem, Fits, Valid, Listed, KeepsSettings, Creates, ids
<1>3. CASE mu # s /\ (frame[s].op = "Create" => frame[s].id \notin ids')
  <2>1. pc[s] \notin Section
    BY <1>1, <1>3 DEF Good, Holds
  <2>2. Holds(s)' /\ Reads(s)' /\ HasItem(s)' /\ Fits(s)' /\ Listed(s)' /\ KeepsSettings(s)'
    BY <2>1 DEF Holds, Reads, HasItem, Fits, Listed, KeepsSettings, Section, Writing
  <2> QED
    BY <1>1, <1>3, <2>1, <2>2 DEF Good, Asks, Creates, Section
<1> QED
  BY <1>2, <1>3

LEMMA Resting ==
    ASSUME NEW s \in Threads, pc'[s] \in {"idle", "next"}, frame'[s].op # "Create"
    PROVE  Good(s)'
BY DEF Good, Holds, Reads, Asks, HasItem, Fits, Listed, KeepsSettings, Creates, Section, Writing

\* No new creator, and the scheduler keeps to refreshes.
LEMMA SameCreators ==
    ASSUME Inv,
           \A s \in Threads : frame'[s].op = "Create" =>
               frame[s].op = "Create" /\ frame'[s].id = frame[s].id,
           frame'[Sched].op \in {frame[Sched].op, "none", "Refresh"}
    PROVE  CreatorsDiffer' /\ SchedRefreshes'
BY DEF Inv, CreatorsDiffer, SchedRefreshes

\* Nothing listed, nothing shared.
LEMMA SameUnique ==
    ASSUME Inv, UNCHANGED subs
    PROVE  UniqueNamesAndFiles'
BY DEF Inv, UniqueNamesAndFiles, ids

\* An operation that returns is at rest, and nobody else has moved.
LEMMA ReturnFacts ==
    ASSUME Inv, NEW t \in Threads, Return(t)
    PROVE  /\ Good(t)'
           /\ mu' = None
           /\ \A s \in Threads \ {t} : pc'[s] = pc[s] /\ frame'[s] = frame[s]
           /\ CreatorsDiffer' /\ SchedRefreshes'
<1>1. /\ pc'[t] \in {"idle", "next"}
      /\ frame'[t].op = "none"
      /\ mu' = None
      /\ \A s \in Threads \ {t} : pc'[s] = pc[s] /\ frame'[s] = frame[s]
  BY DEF Return, Goto, IdleFrame, Inv, TypeOK
<1>2. Good(t)'
  BY <1>1, Resting
<1>3. \A s \in Threads : frame'[s].op = "Create" =>
          frame[s].op = "Create" /\ frame'[s].id = frame[s].id
  BY <1>1
<1>4. frame'[Sched].op \in {frame[Sched].op, "none", "Refresh"}
  BY <1>1 DEF Threads
<1> QED
  BY <1>1, <1>2, <1>3, <1>4, SameCreators

\* One holder at a time: whoever waits for a free mutex, or works under it, is
\* the only one in the section.
LEMMA OthersOutside ==
    ASSUME Inv, NEW t \in Threads, mu = None \/ pc[t] \in Section
    PROVE  \A s \in Threads \ {t} : mu # s
BY SubscriptionAssumption DEF Inv, Good, Holds, Reads, Threads

-----------------------------------------------------------------------------
(***************************************************************************)
(* One lemma per group of steps                                            *)
(***************************************************************************)
LEMMA InvInit == Init => Inv
<1> SUFFICES ASSUME Init PROVE Inv
  OBVIOUS
<1>1. TypeOK
  BY TypeInit
<1>2. \A t \in Threads : pc[t] = "idle" /\ frame[t].op = "none"
  BY DEF Init, IdleFrame
<1>3. ids = {}
  BY NoSubsType DEF Init, ids
<1>4. \A t \in Threads : Good(t)
  BY <1>2 DEF Good, Holds, Reads, Asks, HasItem, Fits, Listed, KeepsSettings, Creates, Section, Writing
<1>5. CreatorsDiffer /\ SchedRefreshes
  BY <1>2 DEF CreatorsDiffer, SchedRefreshes, Threads
<1> QED
  BY <1>1, <1>3, <1>4, <1>5 DEF Inv, UniqueNamesAndFiles

LEMMA InvCall ==
    ASSUME Inv, NEW c \in Callers, Call(c)
    PROVE  Inv'
<1>0. c \in Threads /\ c # Sched /\ TypeOK'
  BY TypeCall, SubscriptionAssumption DEF Threads, Inv
<1>1. ASSUME NEW op \in {"Create", "Update", "Delete", "Refresh"}, NEW i \in Ids,
             NEW item \in Recs \cup {None}, Request(c, op, i, item),
             op \in {"Create", "Update"} => item \in Recs,
             op = "Create" => Unused(i)
      PROVE  Inv'
  <2>1. /\ pc'[c] = "lock"
        /\ frame'[c].op = op /\ frame'[c].id = i /\ frame'[c].item = item
        /\ \A s \in Threads \ {c} : pc'[s] = pc[s] /\ frame'[s] = frame[s]
        /\ UNCHANGED <<subs, loaded, mu>>
    BY <1>0, <1>1 DEF Request, Goto, Inv, TypeOK, Frames
  <2>2. \A s \in Threads \ {c} : Good(s)'
    BY <2>1, Bystander
  <2>3. Good(c)'
    BY <1>1, <2>1 DEF Good, Holds, Reads, Asks, HasItem, Fits, Listed, KeepsSettings, Creates,
                      Section, Writing, Unused, ids
  <2>4. CreatorsDiffer'
    BY <1>1, <2>1 DEF Inv, CreatorsDiffer, Unused
  <2>5. SchedRefreshes'
    BY <1>0, <2>1 DEF Inv, SchedRefreshes, Threads
  <2> QED
    BY <1>0, <2>1, <2>2, <2>3, <2>4, <2>5, SameUnique DEF Inv
<1>2. CASE CallCreate(c)
  BY <1>1, <1>2, NewType DEF CallCreate
<1>3. CASE CallUpdate(c)
  BY <1>1, <1>3, NewType DEF CallUpdate
<1>4. CASE CallDelete(c)
  BY <1>1, <1>4 DEF CallDelete
<1>5. CASE CallRefresh(c)
  BY <1>1, <1>5 DEF CallRefresh
<1> QED
  BY <1>2, <1>3, <1>4, <1>5 DEF Call

\* A step of one goroutine that takes no new id: what is left to show is what it
\* knows itself, and that names and files stay distinct.
LEMMA OneMoves ==
    ASSUME Inv, TypeOK', NEW t \in Threads,
           \A s \in Threads \ {t} : pc'[s] = pc[s] /\ frame'[s] = frame[s],
           \/ UNCHANGED <<subs, loaded, mu>>
           \/ /\ mu = None \/ pc[t] \in Section
              /\ \A s \in Threads \ {t} :
                    frame[s].op = "Create" => frame[s].id \notin ids',
           frame'[t].op = "Create" => frame[t].op = "Create" /\ frame'[t].id = frame[t].id,
           frame'[t].op \in {frame[t].op, "none", "Refresh"},
           Good(t)', UniqueNamesAndFiles'
    PROVE  Inv'
<1>1. \A s \in Threads \ {t} : Good(s)'
  BY Bystander, OthersOutside
<1>2. \A s \in Threads : frame'[s].op = "Create" =>
          frame[s].op = "Create" /\ frame'[s].id = frame[s].id
  OBVIOUS
<1>3. frame'[Sched].op \in {frame[Sched].op, "none", "Refresh"}
  BY DEF Threads
<1> QED
  BY <1>1, <1>2, <1>3, SameCreators DEF Inv

\* Creators wait for ids that are not listed.
LEMMA CreatorsWait ==
    ASSUME Inv, ids' = ids
    PROVE  \A s \in Threads : frame[s].op = "Create" => frame[s].id \notin ids'
BY DEF Inv, Good, Creates

LEMMA InvAcquire ==
    ASSUME Inv, NEW t \in Threads, Acquire(t)
    PROVE  Inv'
<1>0. TypeOK'
  BY TypeAcquire
<1>1. /\ pc[t] = "lock" /\ mu = None
      /\ UNCHANGED subs /\ ids' = ids
  BY DEF Acquire, Refuse, LoadCreate, LoadUpdate, LoadDelete, LoadRefresh, Locks, ids
<1>2. UniqueNamesAndFiles'
  BY <1>1, SameUnique
<1>3. \A s \in Threads \ {t} : frame[s].op = "Create" => frame[s].id \notin ids'
  BY <1>1, CreatorsWait
<1>4. Good(t) /\ frame[t] \in Frames /\ subs \in [ids -> Recs]
  BY DEF Inv, TypeOK
<1>5. CASE Refuse(t)
  <2>1. Return(t)
    BY <1>5 DEF Refuse
  <2>2. frame'[t].op = "none"
    BY <2>1 DEF Return, IdleFrame, Inv, TypeOK
  <2> QED
    BY <1>0, <1>1, <1>2, <1>3, <2>1, <2>2, ReturnFacts, OneMoves
<1>6. ASSUME mu' = t,
             \A s \in Threads \ {t} : pc'[s] = pc[s] /\ frame'[s] = frame[s],
             frame'[t].op = frame[t].op, frame'[t].id = frame[t].id, Good(t)'
      PROVE  Inv'
  BY <1>0, <1>1, <1>2, <1>3, <1>6, OneMoves
<1>7. CASE LoadCreate(t)
  <2>1. /\ pc'[t] = "file" /\ mu' = t /\ loaded' = subs /\ frame' = frame /\ frame[t].op = "Create"
        /\ Valid(frame[t].item.set, frame[t].id)
        /\ \A s \in Threads \ {t} : pc'[s] = pc[s]
    BY <1>7 DEF LoadCreate, Locks, Goto, Inv, TypeOK
  <2>2. Good(t)'
    BY <1>1, <1>4, <2>1 DEF Good, Holds, Reads, Asks, HasItem, Fits, Valid, Listed, KeepsSettings,
                            Creates, Section, Writing, ids
  <2> QED
    BY <1>6, <2>1, <2>2
<1>8. CASE LoadUpdate(t)
  <2> DEFINE old == subs[frame[t].id]
             set == frame[t].item.set
  <2>1. /\ pc'[t] \in {"unlink", "file"} /\ mu' = t /\ loaded' = subs
        /\ frame[t].op = "Update" /\ frame[t].id \in ids
        /\ Valid(set, frame[t].id)
        /\ \A s \in Threads \ {t} : pc'[s] = pc[s]
    BY <1>8 DEF LoadUpdate, Locks, Goto, Found, Inv, TypeOK
  <2>2. old \in Recs /\ set \in Settings
    BY <1>1, <1>4, <2>1 DEF Good, Asks, Recs
  <2>3. PICK success \in {"never", "recent", "old"} :
            frame' = [frame EXCEPT ![t].item = [old EXCEPT !.set = set, !.success = success]]
    BY <1>8 DEF LoadUpdate
  <2>4. /\ frame'[t].op = "Update" /\ frame'[t].id = frame[t].id
        /\ frame'[t].item \in Recs /\ frame'[t].item.set = set
        /\ \A s \in Threads \ {t} : frame'[s] = frame[s]
    BY <2>1, <2>2, <2>3 DEF Inv, TypeOK, Frames, Recs
  <2>5. Good(t)'
    BY <1>1, <1>4, <2>1, <2>4 DEF Good, Holds, Reads, Asks, HasItem, Fits, Valid, Listed, KeepsSettings,
                            Creates, Section, Writing, ids
  <2> QED
    BY <1>6, <2>1, <2>4, <2>5
<1>9. CASE LoadDelete(t)
  <2>1. /\ pc'[t] = "open" /\ mu' = t /\ loaded' = subs
        /\ frame[t].op = "Delete" /\ frame[t].id \in ids
        /\ frame'[t].op = "Delete" /\ frame'[t].id = frame[t].id
        /\ frame'[t].item = subs[frame[t].id]
        /\ \A s \in Threads \ {t} : pc'[s] = pc[s] /\ frame'[s] = frame[s]
    BY <1>9 DEF LoadDelete, Locks, Goto, Found, Inv, TypeOK, Frames
  <2>2. frame'[t].item \in Recs
    BY <1>4, <2>1
  <2>3. Good(t)'
    BY <1>1, <1>4, <2>1, <2>2 DEF Good, Holds, Reads, Asks, HasItem, Fits, Listed, KeepsSettings,
                            Creates, Section, Writing, ids
  <2> QED
    BY <1>6, <2>1, <2>3
<1>10. CASE LoadRefresh(t)
  <2>1. /\ pc'[t] = "fetch" /\ mu' = t /\ loaded' = subs /\ frame' = frame
        /\ frame[t].op = "Refresh" /\ frame[t].id \in ids
        /\ \A s \in Threads \ {t} : pc'[s] = pc[s]
    BY <1>10 DEF LoadRefresh, Locks, Goto, Found, Inv, TypeOK
  <2>2. Good(t)'
    BY <1>1, <1>4, <2>1 DEF Good, Holds, Reads, Asks, HasItem, Fits, Listed, KeepsSettings,
                            Creates, Section, Writing, ids
  <2> QED
    BY <1>6, <2>1, <2>2
<1> QED
  BY <1>5, <1>7, <1>8, <1>9, <1>10 DEF Acquire

\* The record that is written takes its place in the list, and keeps apart.
LEMMA WriteFacts ==
    ASSUME Inv, NEW t \in Threads, Write(t)
    PROVE  /\ frame[t].op # "Delete" =>
                 /\ ids' = ids \cup {frame[t].id}
                 /\ subs'[frame[t].id] = frame[t].item
           /\ frame[t].op = "Delete" => ids' = ids \ {frame[t].id}
           /\ \A i \in ids' \ {frame[t].id} : i \in ids /\ subs'[i] = subs[i]
           /\ UniqueNamesAndFiles'
<1>0. loaded = subs
  BY DEF Write, Inv, Good, Reads, Section, Writing
<1>1. CASE frame[t].op = "Delete"
  <2>1. subs' = [i \in ids \ {frame[t].id} |-> subs[i]]
    BY <1>0, <1>1 DEF Write, ids
  <2>2. ids' = ids \ {frame[t].id}
    BY <2>1 DEF ids
  <2>3. \A i \in ids' : i \in ids /\ subs'[i] = subs[i]
    BY <2>1, <2>2
  <2>4. UniqueNamesAndFiles'
    BY <2>3 DEF Inv, UniqueNamesAndFiles
  <2> QED
    BY <1>1, <2>2, <2>3, <2>4
<1>2. CASE frame[t].op # "Delete"
  <2>1. subs' = [i \in ids \cup {frame[t].id} |->
                    IF i = frame[t].id THEN frame[t].item ELSE subs[i]]
    BY <1>0, <1>2 DEF Write, ids
  <2>2. ids' = ids \cup {frame[t].id}
    BY <2>1 DEF ids
  <2>3. subs'[frame[t].id] = frame[t].item
    BY <2>1
  <2>4. \A i \in ids' \ {frame[t].id} : i \in ids /\ subs'[i] = subs[i]
    BY <2>1, <2>2
  <2>5. \A i \in ids \ {frame[t].id} :
            subs[i].set.name # frame[t].item.set.name /\ subs[i].set.file # frame[t].item.set.file
    BY <1>2 DEF Write, Inv, Good, Fits, Valid, Writing
  <2>6. UniqueNamesAndFiles'
    BY <2>3, <2>4, <2>5 DEF Inv, UniqueNamesAndFiles
  <2> QED
    BY <1>2, <2>2, <2>3, <2>4, <2>6
<1> QED
  BY <1>1, <1>2

\* Writes of the list, by the operation that writes.
LEMMA InvWrite ==
    ASSUME Inv, NEW t \in Threads, Write(t)
    PROVE  Inv'
<1>0. TypeOK'
  BY TypeProceed DEF Proceed
<1>1. /\ pc[t] = "write" /\ pc[t] \in Section
      /\ frame[t].id \in Ids /\ frame[t].op # "none"
      /\ frame[t].item \in Recs /\ frame[t] \in Frames
      /\ frame[t].op # "Create" => frame[t].id \in ids
  BY DEF Write, Inv, TypeOK, Good, Asks, HasItem, Listed, Section, Writing
<1>2. UniqueNamesAndFiles'
  BY WriteFacts
<1>3. \A s \in Threads \ {t} : frame[s].op = "Create" => frame[s].id \notin ids'
  <2> SUFFICES ASSUME NEW s \in Threads \ {t}, frame[s].op = "Create"
               PROVE  frame[s].id \notin ids'
    OBVIOUS
  <2>1. frame[s].id \notin ids
    BY DEF Inv, Good, Creates
  <2>2. frame[s].id # frame[t].id
    BY <1>1, <2>1 DEF Inv, CreatorsDiffer
  <2> QED
    BY <2>1, <2>2, WriteFacts
<1>4. CASE frame[t].op = "Create"
  <2>1. /\ pc'[t] = "fetch" /\ mu' = mu /\ loaded' = subs'
        /\ frame' = [frame EXCEPT ![t].op = "Refresh"]
        /\ \A s \in Threads \ {t} : pc'[s] = pc[s]
    BY <1>4 DEF Write, Goto, Inv, TypeOK
  <2>2. /\ frame'[t].op = "Refresh" /\ frame'[t].id = frame[t].id
        /\ \A s \in Threads \ {t} : frame'[s] = frame[s]
    BY <1>1, <2>1 DEF Inv, TypeOK, Frames
  <2>3. frame[t].id \in ids'
    BY <1>4, WriteFacts
  <2>4. Good(t)'
    BY <1>1, <2>1, <2>2, <2>3 DEF Inv, Good, Holds, Reads, Asks, HasItem, Fits, Listed, KeepsSettings,
                                  Creates, Section, Writing
  <2> QED
    BY <1>0, <1>1, <1>2, <1>3, <2>1, <2>2, <2>4, OneMoves
<1>5. CASE frame[t].op = "Delete"
  <2>1. /\ pc'[t] = "remove" /\ mu' = mu /\ loaded' = subs' /\ frame' = frame
        /\ \A s \in Threads \ {t} : pc'[s] = pc[s]
    BY <1>5 DEF Write, Goto, Inv, TypeOK
  <2>2. Good(t)'
    BY <1>1, <1>5, <2>1 DEF Inv, Good, Holds, Reads, Asks, HasItem, Fits, Listed, KeepsSettings,
                            Creates, Section, Writing
  <2> QED
    BY <1>0, <1>1, <1>2, <1>3, <2>1, <2>2, OneMoves
<1>6. CASE frame[t].op \notin {"Create", "Delete"}
  <2>1. Return(t)
    BY <1>6 DEF Write
  <2>2. frame'[t].op = "none"
    BY <2>1 DEF Return, IdleFrame, Inv, TypeOK
  <2> QED
    BY <1>0, <1>1, <1>2, <1>3, <2>1, <2>2, ReturnFacts, OneMoves
<1> QED
  BY <1>4, <1>5, <1>6

\* An operation that ends without a change to the list.
LEMMA InvReturn ==
    ASSUME Inv, TypeOK', NEW t \in Threads, pc[t] \in Section, Return(t), UNCHANGED subs
    PROVE  Inv'
<1>1. frame'[t].op = "none"
  BY DEF Return, IdleFrame, Inv, TypeOK
<1>2. ids' = ids
  BY DEF ids
<1> QED
  BY <1>1, <1>2, CreatorsWait, ReturnFacts, SameUnique, OneMoves

LEMMA InvProceed ==
    ASSUME Inv, NEW t \in Threads, Proceed(t)
    PROVE  Inv'
<1>0. TypeOK' /\ Good(t) /\ frame[t] \in Frames /\ subs \in [ids -> Recs]
  BY TypeProceed DEF Inv, TypeOK
<1>1. CASE Unlink(t) \/ WriteFile(t) \/ Open(t)
  <2>1. /\ pc[t] \in Writing /\ pc'[t] \in Writing \ {"unlink"}
        /\ frame' = frame /\ UNCHANGED <<subs, loaded, mu>> /\ ids' = ids
        /\ \A s \in Threads \ {t} : pc'[s] = pc[s]
    BY <1>1 DEF Unlink, WriteFile, Open, Goto, Writing, Inv, TypeOK, ids
  <2>2. Good(t)'
    BY <1>0, <2>1 DEF Good, Holds, Reads, Asks, HasItem, Fits, Valid, Listed, KeepsSettings, Creates,
                      Section, Writing, ids
  <2>3. UniqueNamesAndFiles'
    BY <2>1, SameUnique
  <2> QED
    BY <1>0, <2>1, <2>2, <2>3, OneMoves
<1>2. CASE Write(t)
  BY <1>2, InvWrite
<1>3. CASE Remove(t)
  BY <1>0, <1>3, InvReturn DEF Remove, Section
<1>4. CASE FetchSucceeds(t) \/ FetchFails(t)
  <2>1. /\ pc[t] = "fetch" /\ pc'[t] \in {"file", "open"}
        /\ UNCHANGED <<subs, loaded, mu>> /\ ids' = ids
        /\ \A s \in Threads \ {t} : pc'[s] = pc[s]
    BY <1>4 DEF FetchSucceeds, FetchFails, Goto, Inv, TypeOK, ids
  <2>2. /\ frame[t].op = "Refresh" /\ frame[t].id \in ids /\ subs[frame[t].id] \in Recs
        /\ loaded = subs
    BY <1>0, <2>1 DEF Good, Reads, Asks, Listed, Section
  <2>3. PICK item : /\ item \in Recs /\ item.set = subs[frame[t].id].set
                    /\ frame' = [frame EXCEPT ![t].item = item]
    <3>1. /\ Succeeded(subs[frame[t].id]) \in Recs
          /\ Succeeded(subs[frame[t].id]).set = subs[frame[t].id].set
          /\ Failed(subs[frame[t].id]) \in Recs
          /\ Failed(subs[frame[t].id]).set = subs[frame[t].id].set
      BY <2>2 DEF Succeeded, Failed, Recs
    <3> QED
      BY <1>4, <2>2, <3>1 DEF FetchSucceeds, FetchFails
  <2>4. /\ frame'[t].op = "Refresh" /\ frame'[t].id = frame[t].id
        /\ frame'[t].item = item
        /\ \A s \in Threads \ {t} : frame'[s] = frame[s]
    BY <1>0, <2>2, <2>3 DEF Inv, TypeOK, Frames
  <2>5. Valid(item.set, frame[t].id)
    BY <2>2, <2>3 DEF Valid, Inv, UniqueNamesAndFiles
  <2>6. Valid(frame[t].item.set, frame[t].id)'
    BY <2>1, <2>4, <2>5 DEF Valid
  <2>7. Good(t)'
    BY <1>0, <2>1, <2>2, <2>3, <2>4, <2>6
       DEF Good, Holds, Reads, Asks, HasItem, Fits, Listed, KeepsSettings, Creates, Section, Writing, ids
  <2>8. UniqueNamesAndFiles'
    BY <2>1, SameUnique
  <2> QED
    BY <1>0, <2>1, <2>2, <2>4, <2>7, <2>8, OneMoves
<1> QED
  BY <1>1, <1>2, <1>3, <1>4 DEF Proceed

LEMMA InvFail ==
    ASSUME Inv, NEW t \in Threads, Fail(t)
    PROVE  Inv'
<1>0. TypeOK'
  BY TypeFail
<1>1. CASE WriteFileFails(t) \/ OpenFails(t)
  BY <1>0, <1>1, InvReturn DEF WriteFileFails, OpenFails, Section, Writing
<1>2. CASE WriteFails(t)
  <2>1. Return(t) /\ pc[t] \in Section /\ ids' = {}
    BY <1>2, LoseListFacts DEF WriteFails, Section, Writing
  <2>2. frame'[t].op = "none"
    BY <2>1 DEF Return, IdleFrame, Inv, TypeOK
  <2>3. UniqueNamesAndFiles'
    BY <2>1 DEF UniqueNamesAndFiles
  <2> QED
    BY <1>0, <2>1, <2>2, <2>3, ReturnFacts, OneMoves
<1> QED
  BY <1>1, <1>2 DEF Fail

LEMMA InvOther ==
    ASSUME Inv, Tick \/ RefreshNext \/ PassEnds \/ (\E i \in Ids : Expire(i)) \/ Crash
    PROVE  Inv'
<1>0. TypeOK' /\ Sched \in Threads
  BY TypeOther DEF Threads
<1>1. CASE Tick \/ PassEnds
  <2>1. /\ pc'[Sched] \in {"idle", "next"}
        /\ UNCHANGED <<subs, loaded, mu>>
        /\ frame'[Sched].op = frame[Sched].op
        /\ \A s \in Threads \ {Sched} : pc'[s] = pc[s] /\ frame'[s] = frame[s]
    BY <1>0, <1>1 DEF Tick, PassEnds, Goto, Inv, TypeOK, Frames
  <2>2. frame'[Sched].op # "Create" /\ Good(Sched)'
    BY <1>0, <2>1, Resting DEF Inv, SchedRefreshes
  <2> QED
    BY <1>0, <2>1, <2>2, SameUnique, OneMoves
<1>2. CASE RefreshNext
  <2>1. PICK i \in frame[Sched].todo :
            frame' = [frame EXCEPT ![Sched].op = "Refresh", ![Sched].id = i,
                                   ![Sched].todo = @ \ {i}]
    BY <1>2 DEF RefreshNext
  <2>2. i \in Ids
    BY <1>0 DEF Inv, TypeOK, Frames
  <2>3. /\ pc'[Sched] = "lock" /\ UNCHANGED <<subs, loaded, mu>>
        /\ frame'[Sched].op = "Refresh" /\ frame'[Sched].id = i
        /\ \A s \in Threads \ {Sched} : pc'[s] = pc[s] /\ frame'[s] = frame[s]
    BY <1>0, <1>2, <2>1 DEF RefreshNext, Goto, Inv, TypeOK, Frames
  <2>4. Good(Sched)'
    BY <2>2, <2>3 DEF Good, Holds, Reads, Asks, HasItem, Fits, Listed, KeepsSettings, Creates,
                      Section, Writing
  <2> QED
    BY <1>0, <2>3, <2>4, SameUnique, OneMoves
<1>3. CASE \E i \in Ids : Expire(i)
  <2>1. PICK i \in ids : subs' = [subs EXCEPT ![i].success = "old"]
    BY <1>3 DEF Expire
  <2>2. mu = None /\ UNCHANGED <<mu, pc, frame>>
    BY <1>3 DEF Expire
  <2>3. ids' = ids /\ \A j \in ids : subs'[j].set = subs[j].set
    BY <2>1 DEF Inv, TypeOK, Recs, ids
  <2>4. UniqueNamesAndFiles'
    BY <2>3 DEF Inv, UniqueNamesAndFiles
  <2>5. \A s \in Threads : frame[s].op = "Create" => frame[s].id \notin ids'
    BY <2>3, CreatorsWait
  <2>6. mu # Sched
    BY <2>2, SubscriptionAssumption
  <2>7. Good(Sched)'
    BY <1>0, <2>2, <2>5, <2>6, Bystander
  <2>8. frame[Sched].op # "Create"
    BY DEF Inv, SchedRefreshes
  <2> QED
    BY <1>0, <2>2, <2>4, <2>5, <2>7, <2>8, OneMoves
<1>4. CASE Crash
  <2>1. \A s \in Threads : pc'[s] = "idle" /\ frame'[s].op = "none"
    BY <1>4 DEF Crash, IdleFrame
  <2>2. \A s \in Threads : Good(s)'
    BY <2>1, Resting
  <2>3. CreatorsDiffer' /\ SchedRefreshes'
    BY <1>0, <2>1 DEF CreatorsDiffer, SchedRefreshes
  <2>4. UniqueNamesAndFiles'
    <3>1. CASE UNCHANGED subs
      BY <3>1, SameUnique
    <3>2. CASE LoseList
      BY <3>2, LoseListFacts DEF UniqueNamesAndFiles
    <3> QED
      BY <1>4, <3>1, <3>2 DEF Crash
  <2> QED
    BY <1>0, <2>2, <2>3, <2>4 DEF Inv
<1> QED
  BY <1>1, <1>2, <1>3, <1>4

LEMMA InvStep == Inv /\ [Next]_vars => Inv'
<1> SUFFICES ASSUME Inv, [Next]_vars PROVE Inv'
  OBVIOUS
<1>1. CASE Next
  BY <1>1, InvCall, InvAcquire, InvProceed, InvFail, InvOther DEF Next
<1>2. CASE UNCHANGED vars
  <2>1. TypeOK'
    BY TypeStep
  <2>2. \A t \in Threads : Good(t)'
    BY <1>2, Bystander DEF vars
  <2>3. UniqueNamesAndFiles'
    BY <1>2, SameUnique DEF vars
  <2>4. CreatorsDiffer' /\ SchedRefreshes'
    BY <1>2, SameCreators DEF vars
  <2> QED
    BY <2>1, <2>2, <2>3, <2>4 DEF Inv
<1> QED
  BY <1>1, <1>2

-----------------------------------------------------------------------------
(***************************************************************************)
(* Theorems                                                                *)
(***************************************************************************)
\* The inductive invariant holds in every behaviour of the store.
LEMMA InvHolds == Spec => []Inv
BY InvInit, InvStep, PTL DEF Spec

\* Every variable of subscription.Service and of its callers keeps its type.
THEOREM SubscriptionTypes == Spec => []TypeOK
<1>1. Inv => TypeOK
  BY DEF Inv
<1> QED
  BY <1>1, InvHolds, PTL

\* Create and Update validate against the list they then write, under one lock:
\* whichever writes fail, no two subscriptions share a name or a provider file.
THEOREM NamesAndFilesStayUnique == Spec => []UniqueNamesAndFiles
<1>1. Inv => UniqueNamesAndFiles
  BY DEF Inv
<1> QED
  BY <1>1, InvHolds, PTL

\* What changes the list: a write, the clock, and a write cut short.
LEMMA ListChanges ==
    ASSUME Next
    PROVE  \/ \E t \in Threads : Write(t)
           \/ \E i \in Ids : Expire(i)
           \/ LoseList
           \/ UNCHANGED subs
BY DEF Next, Call, CallCreate, CallUpdate, CallDelete, CallRefresh, Request,
       Acquire, Refuse, LoadCreate, LoadUpdate, LoadDelete, LoadRefresh,
       Proceed, Unlink, WriteFile, Open, Remove, FetchSucceeds, FetchFails,
       Fail, WriteFileFails, OpenFails, WriteFails,
       Tick, RefreshNext, PassEnds, Crash

\* One step changes settings only if it is the write of an update.
LEMMA SettingsStep ==
    ASSUME Inv, Next, NEW i \in ids \cap ids', subs'[i].set # subs[i].set
    PROVE  \E c \in Callers : pc[c] = "write" /\ frame[c].op = "Update" /\ frame[c].id = i
<1>1. CASE \E t \in Threads : Write(t)
  <2>1. PICK t \in Threads : Write(t)
    BY <1>1
  <2>2. /\ Good(t) /\ pc[t] = "write"
        /\ frame[t].op \in {"Create", "Update", "Delete", "Refresh"}
    BY <2>1 DEF Write, Inv, TypeOK, Frames, Good, Asks, Section, Writing
  <2>3. i = frame[t].id
    BY <2>1, WriteFacts
  <2>4. frame[t].op # "Create" /\ frame[t].op # "Delete"
    BY <2>1, <2>2, <2>3, WriteFacts DEF Good, Creates
  <2>5. frame[t].op # "Refresh"
    BY <2>1, <2>2, <2>3, WriteFacts DEF Good, KeepsSettings, Writing
  <2>6. t # Sched
    BY <2>2, <2>4, <2>5 DEF Inv, SchedRefreshes
  <2> QED
    BY <2>2, <2>3, <2>4, <2>5, <2>6 DEF Threads
<1>2. CASE \E j \in Ids : Expire(j)
  BY <1>2 DEF Expire, Inv, TypeOK, Recs
<1>3. CASE LoseList
  BY <1>3, LoseListFacts
<1>4. CASE UNCHANGED subs
  BY <1>4
<1> QED
  BY <1>1, <1>2, <1>3, <1>4, ListChanges

\* refreshLocked runs under the lock its caller loaded the list with, so what it
\* saves are the settings of the list: only an update changes settings.
THEOREM SettingsAreTheUsers == Spec => OnlyUpdatesChangeSettings
<1>1. Inv /\ [Next]_vars =>
          [\A i \in ids \cap ids' : subs'[i].set # subs[i].set =>
              \E c \in Callers :
                  pc[c] = "write" /\ frame[c].op = "Update" /\ frame[c].id = i]_vars
  BY SettingsStep
<1> QED
  BY <1>1, InvHolds, PTL DEF Spec, OnlyUpdatesChangeSettings

-----------------------------------------------------------------------------
(***************************************************************************)
(* The provider files.  The file of a record that is about to be saved as  *)
(* healthy has just been written, and nobody else writes files meanwhile.  *)
(***************************************************************************)
Saving(t) == pc[t] \in {"open", "write"}

Wrote(t) ==
    Saving(t) /\ frame[t].op # "Delete" /\ frame[t].item.status = "healthy" =>
        files[frame[t].item.set.file] = frame[t].item.set.url

AllWrote == \A t \in Threads : Wrote(t)

\* A step of t, or none under the mutex: the others save nothing, or nothing new.
LEMMA WroteElsewhere ==
    ASSUME Inv, AllWrote, NEW s \in Threads, pc'[s] = pc[s], frame'[s] = frame[s],
           UNCHANGED files \/ mu # s
    PROVE  Wrote(s)'
<1>1. CASE UNCHANGED files
  BY <1>1 DEF AllWrote, Wrote, Saving
<1>2. CASE mu # s
  BY <1>2 DEF Inv, Good, Holds, Reads, Wrote, Saving, Section, Writing
<1> QED
  BY <1>1, <1>2

LEMMA WroteAcquire ==
    ASSUME Inv, AllWrote, NEW t \in Threads, Acquire(t)
    PROVE  AllWrote'
<1>1. UNCHANGED files
  BY DEF Acquire, Refuse, LoadCreate, LoadUpdate, LoadDelete, LoadRefresh
<1>2. \A s \in Threads \ {t} : pc'[s] = pc[s] /\ frame'[s] = frame[s]
  BY DEF Acquire, Refuse, LoadCreate, LoadUpdate, LoadDelete, LoadRefresh, Return, Goto, Inv, TypeOK
<1>3. ~Saving(t)' \/ frame'[t].op = "Delete"
  BY DEF Acquire, Refuse, LoadCreate, LoadUpdate, LoadDelete, LoadRefresh, Locks, Return, Goto,
         Inv, TypeOK, Frames, Saving
<1> QED
  BY <1>1, <1>2, <1>3, WroteElsewhere DEF AllWrote, Wrote

LEMMA WroteProceed ==
    ASSUME Inv, AllWrote, NEW t \in Threads, Proceed(t) \/ Fail(t)
    PROVE  AllWrote'
<1>1. pc[t] \in Section /\ Good(t) /\ frame[t] \in Frames
  BY DEF Proceed, Unlink, WriteFile, Open, Write, Remove, FetchSucceeds, FetchFails,
         Fail, WriteFileFails, OpenFails, WriteFails, Inv, TypeOK, Section, Writing
<1>2. \A s \in Threads \ {t} : pc'[s] = pc[s] /\ frame'[s] = frame[s]
  BY DEF Proceed, Unlink, WriteFile, Open, Write, Remove, FetchSucceeds, FetchFails,
         Fail, WriteFileFails, OpenFails, WriteFails, Return, Goto, Inv, TypeOK
<1>3. \A s \in Threads \ {t} : mu # s
  BY <1>1, OthersOutside
<1>4. CASE WriteFile(t)
  <2>1. frame[t].item.set.file \in Filenames
    BY <1>1, <1>4 DEF WriteFile, Good, HasItem, Writing, Recs, Settings
  <2>2. Wrote(t)'
    BY <1>4, <2>1 DEF WriteFile, Inv, TypeOK, Wrote
  <2> QED
    BY <1>2, <1>3, <2>2, WroteElsewhere DEF AllWrote
<1>5. CASE Open(t)
  <2>1. Saving(t) /\ UNCHANGED <<files, frame>>
    BY <1>5 DEF Open, Saving
  <2>2. Wrote(t)'
    BY <2>1 DEF AllWrote, Wrote
  <2> QED
    BY <1>2, <1>3, <2>2, WroteElsewhere DEF AllWrote
<1>6. CASE FetchFails(t)
  <2>1. loaded[frame[t].id] \in Recs
    BY <1>1, <1>6 DEF FetchFails, Good, Listed, Reads, Asks, Section, Inv, TypeOK
  <2>2. Failed(loaded[frame[t].id]).status = "error"
    BY <2>1 DEF Failed, Recs
  <2>3. frame'[t].item.status = "error"
    BY <1>1, <1>6, <2>2 DEF FetchFails, Inv, TypeOK, Frames
  <2> QED
    BY <1>2, <1>3, <2>3, WroteElsewhere DEF AllWrote, Wrote
<1>7. CASE Unlink(t) \/ Write(t) \/ Remove(t) \/ FetchSucceeds(t) \/ Fail(t)
  <2>1. ~Saving(t)'
    BY <1>7 DEF Unlink, Write, Remove, FetchSucceeds, Fail, WriteFileFails, OpenFails, WriteFails,
                Return, Goto, Inv, TypeOK, Saving
  <2> QED
    BY <1>2, <1>3, <2>1, WroteElsewhere DEF AllWrote, Wrote
<1> QED
  BY <1>4, <1>5, <1>6, <1>7 DEF Proceed

LEMMA WroteInit == Init => AllWrote
BY DEF Init, AllWrote, Wrote, Saving

LEMMA WroteStep == Inv /\ AllWrote /\ [Next]_vars => AllWrote'
<1> SUFFICES ASSUME Inv, AllWrote, [Next]_vars PROVE AllWrote'
  OBVIOUS
<1>1. ASSUME NEW c \in Callers, Call(c) PROVE AllWrote'
  <2>1. PICK op, i, item : Request(c, op, i, item)
    BY <1>1 DEF Call, CallCreate, CallUpdate, CallDelete, CallRefresh
  <2>2. /\ UNCHANGED files /\ ~Saving(c)'
        /\ \A s \in Threads \ {c} : pc'[s] = pc[s] /\ frame'[s] = frame[s]
    BY <2>1 DEF Request, Goto, Inv, TypeOK, Saving, Threads
  <2> QED
    BY <2>2, WroteElsewhere DEF AllWrote, Wrote
<1>2. CASE Tick \/ RefreshNext \/ PassEnds
  <2>1. /\ UNCHANGED files /\ ~Saving(Sched)'
        /\ \A s \in Threads \ {Sched} : pc'[s] = pc[s] /\ frame'[s] = frame[s]
    BY <1>2 DEF Tick, RefreshNext, PassEnds, Goto, Inv, TypeOK, Saving, Threads
  <2> QED
    BY <2>1, WroteElsewhere DEF AllWrote, Wrote
<1>3. CASE (\E i \in Ids : Expire(i)) \/ UNCHANGED vars
  BY <1>3, WroteElsewhere DEF Expire, vars, AllWrote
<1>4. CASE Crash
  BY <1>4 DEF Crash, AllWrote, Wrote, Saving
<1> QED
  BY <1>1, <1>2, <1>3, <1>4, WroteAcquire, WroteProceed DEF Next

LEMMA WroteHolds == Spec => [](Inv /\ AllWrote)
BY InvInit, InvStep, WroteInit, WroteStep, PTL DEF Spec

\* One step that makes a record healthy has its file.
LEMMA HealthyStep ==
    ASSUME Inv, AllWrote, Next, NEW i \in ids',
           subs'[i].status = "healthy", subs'[i].success = "recent", subs'[i] # subs[i]
    PROVE  files'[subs'[i].set.file] = subs'[i].set.url
<1>1. CASE \E t \in Threads : Write(t)
  <2>1. PICK t \in Threads : Write(t)
    BY <1>1
  <2>2. i = frame[t].id /\ frame[t].op # "Delete"
    BY <2>1, WriteFacts
  <2>3. subs'[i] = frame[t].item /\ UNCHANGED files
    BY <2>1, <2>2, WriteFacts DEF Write
  <2>4. Wrote(t) /\ Saving(t)
    BY <2>1 DEF Write, AllWrote, Saving
  <2> QED
    BY <2>2, <2>3, <2>4 DEF Wrote
<1>2. CASE \E j \in Ids : Expire(j)
  BY <1>2 DEF Expire, Inv, TypeOK, Recs, ids
<1>3. CASE LoseList
  BY <1>3, LoseListFacts
<1>4. CASE UNCHANGED subs
  BY <1>4
<1> QED
  BY <1>1, <1>2, <1>3, <1>4, ListChanges

\* Whichever writes failed before: refreshLocked writes the provider file before
\* it records a success, so a list that says healthy is a list whose file is there.
THEOREM HealthyHasItsFile == Spec => HealthyMeansFile
<1>1. Inv /\ AllWrote /\ [Next]_vars =>
          [\A i \in ids' : subs'[i].status = "healthy" /\ subs'[i].success = "recent"
                             /\ subs'[i] # subs[i] =>
              files'[subs'[i].set.file] = subs'[i].set.url]_vars
  BY HealthyStep
<1> QED
  BY <1>1, WroteHolds, PTL DEF Spec, HealthyMeansFile

=============================================================================
