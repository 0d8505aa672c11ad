---------------------- MODULE Subscription_refinement -----------------------
(***************************************************************************)
(* The subscription service implements SubscriptionStore, for any number   *)
(* of requests, ids, names, files, failed writes and crashes.              *)
(***************************************************************************)
EXTENDS Subscription_proofs

-----------------------------------------------------------------------------
(***************************************************************************)
(* What the store has to know beyond Inv: a list that parses while an      *)
(* operation is under way, and the status each operation brings.           *)
(***************************************************************************)
Sound(t) ==
    /\ pc[t] \in Section => ~corrupt
    /\ pc[t] \in Writing \cup {"lock"} /\ frame[t].op = "Create" => frame[t].item.status = "draft"
    /\ pc[t] \in Writing /\ frame[t].op = "Update" =>
          frame[t].item.status = subs[frame[t].id].status
    /\ pc[t] \in Writing /\ frame[t].op = "Refresh" => frame[t].item.status \in {"healthy", "error"}

SInv == Inv /\ \A t \in Threads : Sound(t)

LEMMA SoundBystander ==
    ASSUME Inv, NEW s \in Threads, Sound(s),
           pc'[s] = pc[s], frame'[s] = frame[s],
           mu # s \/ UNCHANGED <<subs, corrupt>>
    PROVE  Sound(s)'
<1>1. CASE UNCHANGED <<subs, corrupt>>
  BY <1>1 DEF Sound
<1>2. CASE mu # s
  <2>1. pc[s] \notin Section
    BY <1>2 DEF Inv, Good, Holds
  <2> QED
    BY <2>1 DEF Sound, Section
<1> QED
  BY <1>1, <1>2

LEMMA SoundAtRest ==
    ASSUME NEW s \in Threads, pc'[s] \in {"idle", "next"}
    PROVE  Sound(s)'
BY DEF Sound, Section, Writing

\* The step of one goroutine that leaves the others what they know.
LEMMA SoundMover ==
    ASSUME SInv, NEW t \in Threads, Sound(t)',
           \A s \in Threads \ {t} : pc'[s] = pc[s] /\ frame'[s] = frame[s],
           UNCHANGED <<subs, corrupt>> \/ (\A s \in Threads \ {t} : mu # s)
    PROVE  \A s \in Threads : Sound(s)'
BY SoundBystander DEF SInv

LEMMA SoundReturn ==
    ASSUME SInv, NEW t \in Threads, Return(t),
           UNCHANGED <<subs, corrupt>> \/ (\A s \in Threads \ {t} : mu # s)
    PROVE  \A s \in Threads : Sound(s)'
<1>1. pc'[t] \in {"idle", "next"}
  BY DEF Return, Goto, SInv, Inv, TypeOK
<1> QED
  BY <1>1, ReturnFacts, SoundAtRest, SoundMover DEF SInv

LEMMA SoundInit == Init => SInv
<1> SUFFICES ASSUME Init PROVE SInv
  OBVIOUS
<1>1. \A t \in Threads : Sound(t)
  BY DEF Init, Sound, Section, Writing
<1> QED
  BY <1>1, InvInit DEF SInv

LEMMA SoundCall ==
    ASSUME SInv, NEW c \in Callers, Call(c)
    PROVE  \A s \in Threads : Sound(s)'
<1>1. c \in Threads
  BY DEF Threads
<1>2. ASSUME NEW op, NEW i, NEW item, Request(c, op, i, item),
             op = "Create" => item.status = "draft"
      PROVE  \A s \in Threads : Sound(s)'
  <2>1. /\ pc'[c] = "lock" /\ frame'[c].op = op /\ frame'[c].item = item
        /\ UNCHANGED <<subs, corrupt>>
        /\ \A s \in Threads \ {c} : pc'[s] = pc[s] /\ frame'[s] = frame[s]
    BY <1>1, <1>2 DEF Request, Goto, SInv, Inv, TypeOK, Frames
  <2>2. Sound(c)'
    BY <1>2, <2>1 DEF Sound, Section, Writing
  <2> QED
    BY <1>1, <2>1, <2>2, SoundMover
<1>3. CASE CallCreate(c)
  <2>1. PICK i \in Ids, s \in Settings : Request(c, "Create", i, New(s))
    BY <1>3 DEF CallCreate
  <2>2. New(s).status = "draft"
    BY DEF New
  <2> QED
    BY <1>2, <2>1, <2>2
<1>4. CASE CallUpdate(c)
  BY <1>2, <1>4 DEF CallUpdate
<1>5. CASE CallDelete(c)
  BY <1>2, <1>5 DEF CallDelete
<1>6. CASE CallRefresh(c)
  BY <1>2, <1>6 DEF CallRefresh
<1> QED
  BY <1>3, <1>4, <1>5, <1>6 DEF Call

LEMMA SoundAcquire ==
    ASSUME SInv, NEW t \in Threads, Acquire(t)
    PROVE  \A s \in Threads : Sound(s)'
<1>0. Sound(t) /\ Inv
  BY DEF SInv
<1>1. CASE Refuse(t)
  BY <1>1, SoundReturn DEF Refuse
<1>2. CASE LoadCreate(t) \/ LoadDelete(t) \/ LoadRefresh(t)
  <2>1. /\ ~corrupt /\ UNCHANGED <<subs, corrupt>>
        /\ \A s \in Threads \ {t} : pc'[s] = pc[s] /\ frame'[s] = frame[s]
    BY <1>0, <1>2 DEF LoadCreate, LoadDelete, LoadRefresh, Found, Goto, Inv, TypeOK
  <2>2. CASE LoadCreate(t)
    <3>1. /\ pc[t] = "lock" /\ frame[t].op = "Create" /\ frame' = frame /\ pc'[t] = "file"
      BY <1>0, <2>2 DEF LoadCreate, Locks, Goto, Inv, TypeOK
    <3>2. Sound(t)'
      BY <1>0, <2>1, <3>1 DEF Sound
    <3> QED
      BY <2>1, <3>2, SoundMover
  <2>3. CASE LoadDelete(t)
    <3>1. pc'[t] = "open" /\ frame'[t].op = "Delete"
      BY <1>0, <2>3 DEF LoadDelete, Locks, Goto, Inv, TypeOK, Frames
    <3>2. Sound(t)'
      BY <2>1, <3>1 DEF Sound
    <3> QED
      BY <2>1, <3>2, SoundMover
  <2>4. CASE LoadRefresh(t)
    <3>1. pc'[t] = "fetch"
      BY <1>0, <2>4 DEF LoadRefresh, Goto, Inv, TypeOK
    <3>2. Sound(t)'
      BY <2>1, <3>1 DEF Sound, Writing
    <3> QED
      BY <2>1, <3>2, SoundMover
  <2> QED
    BY <1>2, <2>2, <2>3, <2>4
<1>3. CASE LoadUpdate(t)
  <2>1. /\ ~corrupt /\ UNCHANGED <<subs, corrupt>> /\ frame[t].op = "Update"
        /\ pc'[t] \in {"unlink", "file"}
        /\ \A s \in Threads \ {t} : pc'[s] = pc[s]
    BY <1>0, <1>3 DEF LoadUpdate, Locks, Found, Goto, Inv, TypeOK
  <2>2. PICK success \in {"never", "recent", "old"} :
            frame' = [frame EXCEPT ![t].item =
                        [subs[frame[t].id] EXCEPT !.set = frame[t].item.set, !.success = success]]
    BY <1>3 DEF LoadUpdate
  <2>3. subs[frame[t].id] \in Recs
    BY <1>0, <1>3 DEF LoadUpdate, Found, Inv, TypeOK
  <2>4. /\ frame'[t].item.status = subs[frame[t].id].status
        /\ frame'[t].op = "Update" /\ frame'[t].id = frame[t].id
        /\ \A s \in Threads \ {t} : frame'[s] = frame[s]
    BY <1>0, <2>1, <2>2, <2>3 DEF Inv, TypeOK, Frames, Recs
  <2>5. Sound(t)'
    BY <2>1, <2>4 DEF Sound
  <2> QED
    BY <2>1, <2>4, <2>5, SoundMover
<1> QED
  BY <1>1, <1>2, <1>3 DEF Acquire

LEMMA SoundProceed ==
    ASSUME SInv, NEW t \in Threads, Proceed(t)
    PROVE  \A s \in Threads : Sound(s)'
<1>0. Sound(t) /\ Inv /\ Good(t) /\ frame[t] \in Frames
  BY DEF SInv, Inv, TypeOK
<1>1. CASE Unlink(t) \/ WriteFile(t) \/ Open(t)
  <2>1. /\ pc[t] \in Writing /\ pc'[t] \in Writing /\ frame' = frame
        /\ UNCHANGED <<subs, corrupt>>
        /\ \A s \in Threads \ {t} : pc'[s] = pc[s]
    BY <1>0, <1>1 DEF Unlink, WriteFile, Open, Goto, Inv, TypeOK, Writing
  <2>2. Sound(t)'
    BY <1>0, <2>1 DEF Sound, Section
  <2> QED
    BY <2>1, <2>2, SoundMover
<1>2. CASE Write(t)
  <2>1. /\ pc[t] = "write" /\ ~corrupt /\ UNCHANGED corrupt
        /\ \A s \in Threads \ {t} : mu # s
    BY <1>0, <1>2, OthersOutside DEF Write, Sound, Section, Writing
  <2>2. CASE frame[t].op \notin {"Create", "Delete"}
    BY <1>2, <2>1, <2>2, SoundReturn DEF Write
  <2>3. CASE frame[t].op \in {"Create", "Delete"}
    <3>1. /\ pc'[t] \in {"fetch", "remove"}
          /\ \A s \in Threads \ {t} : pc'[s] = pc[s] /\ frame'[s] = frame[s]
      BY <1>0, <1>2, <2>3 DEF Write, Goto, Inv, TypeOK
    <3>2. Sound(t)'
      BY <2>1, <3>1 DEF Sound, Writing
    <3> QED
      BY <2>1, <3>1, <3>2, SoundMover
  <2> QED
    BY <2>2, <2>3
<1>3. CASE Remove(t)
  BY <1>3, SoundReturn DEF Remove
<1>4. CASE FetchSucceeds(t) \/ FetchFails(t)
  <2>1. /\ pc[t] = "fetch" /\ frame[t].op = "Refresh" /\ frame[t].id \in ids
        /\ pc'[t] \in {"file", "open"}
        /\ UNCHANGED <<subs, corrupt>>
        /\ \A s \in Threads \ {t} : pc'[s] = pc[s]
    BY <1>0, <1>4 DEF FetchSucceeds, FetchFails, Goto, Inv, TypeOK, Good, Asks, Listed,
                      Section, Writing
  <2>2. subs[frame[t].id] \in Recs /\ loaded = subs
    BY <1>0, <2>1 DEF Inv, TypeOK, Good, Reads, Section
  <2>3. /\ frame'[t].op = "Refresh" /\ frame'[t].item.status \in {"healthy", "error"}
        /\ \A s \in Threads \ {t} : frame'[s] = frame[s]
    <3>1. PICK r \in {Succeeded(subs[frame[t].id]), Failed(subs[frame[t].id])} :
              frame' = [frame EXCEPT ![t].item = r]
      BY <1>4, <2>2 DEF FetchSucceeds, FetchFails
    <3>2. r.status \in {"healthy", "error"}
      BY <2>2, <3>1 DEF Succeeded, Failed, Recs
    <3>3. frame'[t] = [frame[t] EXCEPT !.item = r] /\ \A s \in Threads \ {t} : frame'[s] = frame[s]
      BY <1>0, <3>1 DEF Inv, TypeOK
    <3> QED
      BY <1>0, <2>1, <3>2, <3>3 DEF Frames
  <2>4. Sound(t)'
    BY <1>0, <2>1, <2>3 DEF Sound, Section, Writing
  <2> QED
    BY <2>1, <2>3, <2>4, SoundMover
<1> QED
  BY <1>1, <1>2, <1>3, <1>4 DEF Proceed

LEMMA SoundFail ==
    ASSUME SInv, NEW t \in Threads, Fail(t)
    PROVE  \A s \in Threads : Sound(s)'
<1>1. CASE WriteFileFails(t) \/ OpenFails(t)
  BY <1>1, SoundReturn DEF WriteFileFails, OpenFails
<1>2. CASE WriteFails(t)
  <2>1. \A s \in Threads \ {t} : mu # s
    BY <1>2, OthersOutside DEF WriteFails, SInv, Section, Writing
  <2> QED
    BY <1>2, <2>1, SoundReturn DEF WriteFails
<1> QED
  BY <1>1, <1>2 DEF Fail

LEMMA SoundOther ==
    ASSUME SInv, Tick \/ RefreshNext \/ PassEnds \/ (\E i \in Ids : Expire(i)) \/ Crash
    PROVE  \A s \in Threads : Sound(s)'
<1>0. Inv /\ Sched \in Threads
  BY DEF SInv, Threads
<1>1. CASE Tick \/ RefreshNext \/ PassEnds
  <2>0. frame \in [Threads -> Frames] /\ pc \in [Threads -> Labels]
    BY <1>0 DEF Inv, TypeOK
  <2>1. /\ pc'[Sched] \in {"idle", "next", "lock"} /\ UNCHANGED <<subs, corrupt>>
        /\ pc'[Sched] = "lock" => frame'[Sched].op = "Refresh"
        /\ \A s \in Threads \ {Sched} : pc'[s] = pc[s] /\ frame'[s] = frame[s]
    <3>1. CASE Tick
      BY <1>0, <2>0, <3>1 DEF Tick, Goto
    <3>2. CASE RefreshNext
      <4>1. PICK i \in frame[Sched].todo :
                frame' = [frame EXCEPT ![Sched].op = "Refresh", ![Sched].id = i,
                                       ![Sched].todo = @ \ {i}]
        BY <3>2 DEF RefreshNext
      <4>2. /\ frame'[Sched].op = "Refresh"
            /\ \A s \in Threads \ {Sched} : frame'[s] = frame[s]
        BY <1>0, <2>0, <4>1 DEF Frames
      <4> QED
        BY <1>0, <2>0, <3>2, <4>2 DEF RefreshNext, Goto
    <3>3. CASE PassEnds
      BY <1>0, <2>0, <3>3 DEF PassEnds, Goto
    <3> QED
      BY <1>1, <3>1, <3>2, <3>3
  <2>2. Sound(Sched)'
    BY <2>1 DEF Sound, Section, Writing
  <2> QED
    BY <1>0, <2>1, <2>2, SoundMover
<1>2. CASE \E i \in Ids : Expire(i)
  <2>1. mu = None /\ UNCHANGED <<pc, frame>>
    BY <1>2 DEF Expire
  <2>2. \A s \in Threads : mu # s
    BY <2>1, SubscriptionAssumption DEF Threads
  <2> QED
    BY <1>0, <2>1, <2>2, SoundBystander DEF SInv
<1>3. CASE Crash
  BY <1>3, SoundAtRest DEF Crash
<1> QED
  BY <1>1, <1>2, <1>3

LEMMA SoundStep == SInv /\ [Next]_vars => SInv'
<1> SUFFICES ASSUME SInv, [Next]_vars PROVE SInv'
  OBVIOUS
<1>1. Inv'
  BY InvStep DEF SInv
<1>2. CASE Next
  BY <1>1, <1>2, SoundCall, SoundAcquire, SoundProceed, SoundFail, SoundOther DEF Next, SInv
<1>3. CASE UNCHANGED vars
  BY <1>1, <1>3, SoundBystander DEF vars, SInv
<1> QED
  BY <1>2, <1>3

LEMMA SoundHolds == Spec => []SInv
BY SoundInit, SoundStep, PTL DEF Spec

-----------------------------------------------------------------------------
(***************************************************************************)
(* The steps of the store                                                  *)
(***************************************************************************)
rec == [i \in ids |-> [set |-> subs[i].set, status |-> subs[i].status]]

LEMMA SameRecords ==
    ASSUME UNCHANGED <<subs, corrupt>>
    PROVE  UNCHANGED Store!store
BY DEF Store!store, ids

LEMMA LosingLoses ==
    ASSUME LoseList
    PROVE  Store!StoreLose
<1>1. ids' = {}
  BY LoseListFacts
<1>2. rec' = [i \in {} |-> [set |-> {}, status |-> "draft"]]
  BY <1>1 DEF rec
<1> QED
  BY <1>2 DEF rec, LoseList, Store!StoreLose

\* The write of the list is the operation of the store.
LEMMA WriteOperates ==
    ASSUME SInv, NEW t \in Threads, Write(t)
    PROVE  Store!StoreNext
<1>1. /\ Inv /\ Sound(t) /\ Good(t)
      /\ pc[t] = "write" /\ ~corrupt /\ corrupt' = corrupt
      /\ frame[t].id \in Ids /\ frame[t].item \in Recs
      /\ frame[t].op \in {"Create", "Update", "Delete", "Refresh"}
      /\ frame[t].op # "Create" => frame[t].id \in ids
      /\ loaded = subs
  BY DEF SInv, Sound, Write, Inv, TypeOK, Frames, Good, Reads, Asks, HasItem, Listed, Section, Writing
<1>2. PICK i \in Ids, item \in Recs : i = frame[t].id /\ item = frame[t].item
  BY <1>1
<1>0. /\ Inv /\ Sound(t) /\ Good(t)
      /\ pc[t] = "write" /\ ~corrupt /\ corrupt' = corrupt
      /\ i = frame[t].id /\ item = frame[t].item
      /\ frame[t].op \in {"Create", "Update", "Delete", "Refresh"}
      /\ frame[t].op # "Create" => i \in ids
      /\ loaded = subs
  BY <1>1, <1>2
<1>3. CASE frame[t].op = "Delete"
  <2>1. subs' = [j \in ids \ {i} |-> subs[j]]
    BY <1>0, <1>3 DEF Write, ids
  <2>2. ids' = ids \ {i}
    BY <2>1 DEF ids
  <2>3. rec' = [j \in ids \ {i} |-> rec[j]]
    BY <2>1, <2>2 DEF rec
  <2>4. Store!StoreDelete(i)
    BY <1>0, <1>3, <2>3 DEF rec, Store!StoreDelete, Store!Listed
  <2> QED
    BY <1>0, <2>4 DEF Store!StoreNext
<1>4. CASE frame[t].op # "Delete"
  <2>1. subs' = [j \in ids \cup {i} |-> IF j = i THEN item ELSE subs[j]]
    BY <1>0, <1>4 DEF Write, ids
  <2>2. ids' = ids \cup {i}
    BY <2>1 DEF ids
  <2> DEFINE entry == [set |-> item.set, status |-> item.status]
  <2>3. rec' = [j \in ids \cup {i} |-> IF j = i THEN entry ELSE rec[j]]
    BY <2>1, <2>2 DEF rec
  <2>4. Store!With(i, entry) = [j \in ids \cup {i} |-> IF j = i THEN entry ELSE rec[j]]
    BY DEF rec, Store!With, Store!Listed
  <2>5. rec' = Store!With(i, entry) /\ (~corrupt)' = ~corrupt /\ ~corrupt
    BY <1>0, <2>3, <2>4
  <2>6. Store!Distinct(item.set, i)
    BY <1>0, <1>4 DEF Good, Fits, Valid, Writing, Store!Distinct, Store!Listed
  <2>7. item.set \in Store!StoreSettings
    BY <1>0 DEF Recs, Settings, Store!StoreSettings
  <2>8. CASE frame[t].op = "Create"
    <3>1. entry = [set |-> item.set, status |-> "draft"] /\ i \notin ids
      BY <1>0, <2>8 DEF Sound, Good, Creates, Writing
    <3>2. Store!StoreCreate(i, item.set)
      BY <2>5, <2>6, <3>1 DEF rec, Store!StoreCreate, Store!Listed
    <3> QED
      BY <1>0, <2>7, <3>2 DEF Store!StoreNext
  <2>9. CASE frame[t].op = "Update"
    <3>1. i \in ids /\ item.status = subs[i].status
      BY <1>0, <2>9 DEF Sound, Writing
    <3>2. entry = [rec[i] EXCEPT !.set = item.set]
      BY <3>1 DEF rec
    <3>3. Store!StoreUpdate(i, item.set)
      BY <2>5, <2>6, <3>1, <3>2 DEF rec, Store!StoreUpdate, Store!Listed
    <3> QED
      BY <1>0, <2>7, <3>3 DEF Store!StoreNext
  <2>10. CASE frame[t].op = "Refresh"
    <3>1. i \in ids /\ item.status \in {"healthy", "error"} /\ item.set = subs[i].set
      BY <1>0, <2>10 DEF Sound, Good, KeepsSettings, Writing
    <3>2. entry = [rec[i] EXCEPT !.status = item.status]
      BY <3>1 DEF rec
    <3>3. Store!StoreRefresh(i, item.status)
      BY <2>5, <3>1, <3>2 DEF rec, Store!StoreRefresh, Store!Listed
    <3>4. item.status \in Store!Statuses
      BY <3>1 DEF Store!Statuses
    <3> QED
      BY <1>0, <3>3, <3>4 DEF Store!StoreNext
  <2> QED
    BY <1>0, <1>4, <2>8, <2>9, <2>10
<1> QED
  BY <1>3, <1>4

LEMMA ExpiryIsHidden ==
    ASSUME Inv, NEW i \in Ids, Expire(i)
    PROVE  UNCHANGED Store!store
<1>1. /\ subs' = [subs EXCEPT ![i].success = "old"] /\ corrupt' = corrupt /\ i \in ids
      /\ subs \in [ids -> Recs]
  BY DEF Expire, Inv, TypeOK
<1>2. /\ ids' = ids
      /\ \A j \in ids : subs'[j].set = subs[j].set /\ subs'[j].status = subs[j].status
  BY <1>1 DEF ids, Recs
<1>3. rec' = rec
  BY <1>2 DEF rec
<1> QED
  BY <1>1, <1>3 DEF rec, Store!store

LEMMA StepOperates == SInv /\ [Next]_vars => [Store!StoreNext]_(Store!store)
<1> SUFFICES ASSUME SInv, [Next]_vars
             PROVE  Store!StoreNext \/ UNCHANGED Store!store
  OBVIOUS
<1>1. CASE \E t \in Threads : Write(t)
  BY <1>1, WriteOperates
<1>2. CASE \E i \in Ids : Expire(i)
  BY <1>2, ExpiryIsHidden DEF SInv
<1>3. CASE LoseList
  BY <1>3, LosingLoses DEF Store!StoreNext
<1>4. CASE UNCHANGED <<subs, corrupt>>
  BY <1>4, SameRecords
<1> QED
  BY <1>1, <1>2, <1>3, <1>4
     DEF Next, Call, CallCreate, CallUpdate, CallDelete, CallRefresh, Request,
         Acquire, Refuse, LoadCreate, LoadUpdate, LoadDelete, LoadRefresh,
         Proceed, Unlink, WriteFile, Open, Remove, FetchSucceeds, FetchFails,
         Fail, WriteFileFails, OpenFails, WriteFails,
         Tick, RefreshNext, PassEnds, Crash, vars

LEMMA InitOperates == Init => Store!StoreInit
<1> SUFFICES ASSUME Init PROVE Store!StoreInit
  OBVIOUS
<1>1. ids = {}
  BY NoSubsType DEF Init, ids
<1>2. rec = [i \in {} |-> [set |-> {}, status |-> "draft"]]
  BY <1>1 DEF rec
<1> QED
  BY <1>2 DEF rec, Init, Store!StoreInit

\* The service implements the store the web interface is written against: each
\* step of any caller, the scheduler, a failed write or a crash is one whole
\* operation on the list, valid against the list it changes, or none.
THEOREM ServiceImplementsStore == Spec => ImplementsStore
<1>1. Init => Store!StoreInit
  BY InitOperates
<1>2. SInv /\ [Next]_vars => [Store!StoreNext]_(Store!store)
  BY StepOperates
<1> QED
  BY <1>1, <1>2, SoundHolds, PTL DEF Spec, ImplementsStore, Store!StoreSpec

=============================================================================
