--------------------------- MODULE MCWebLive_proofs ---------------------------
(***************************************************************************)
(* Proofs about the Logs page and about the status, for any sources,       *)
(* sockets and timers, any uses of the hook and polls under way, and any   *)
(* number of switches, outages and failures; then about the two of them,   *)
(* one open at a time.  They need no fairness.                             *)
(***************************************************************************)
EXTENDS MCWebLive, TLAPS

(***************************************************************************)
(* LogStream: an action of LogNext either keeps what is shown, or changes  *)
(* the one stream it is about and the state shown together.                *)
(***************************************************************************)
StreamRecords == [state : StreamStates, source : Sources]

\* A stream that enters another state is a stream still, and the others are
\* what they were.
LEMMA BecomesKeeps ==
    ASSUME LogTypeOK, NEW w \in Streams, NEW state \in StreamStates, Becomes(w, state)
    PROVE  /\ streams' \in [Streams -> StreamRecords]
           /\ streams'[w].state = state
           /\ \A v \in Streams \ {w} : streams'[v] = streams[v]
  BY DEF LogTypeOK, Becomes, StreamRecords

\* The cleanup closes and opens nothing but what it names.
LEMMA ClosedKeeps ==
    ASSUME LogTypeOK
    PROVE  /\ Closed \in [Streams -> StreamRecords]
           /\ \A v \in Streams : Closed[v].state \notin {"connecting", "open", "greeted", "live", "failed"}
                                 \/ Closed[v] = streams[v]
  <1>1. \A v \in Streams : [streams[v] EXCEPT !.state = ClosedStream] \in StreamRecords
    BY DEF LogTypeOK, StreamRecords, StreamStates, ClosedStream
  <1>2. \A v \in Streams : [streams[v] EXCEPT !.state = "closing"] \in StreamRecords
    BY DEF LogTypeOK, StreamRecords, StreamStates
  <1>3. \A v \in Streams : streams[v] \in StreamRecords
    BY DEF LogTypeOK, StreamRecords
  <1>4. Closed \in [Streams -> StreamRecords]
    BY <1>1, <1>2, <1>3 DEF Closed
  <1>5. \A v \in Streams : /\ [streams[v] EXCEPT !.state = ClosedStream].state = "none"
                           /\ [streams[v] EXCEPT !.state = "closing"].state = "closing"
    BY <1>3 DEF StreamRecords, ClosedStream
  <1> QED BY <1>4, <1>5 DEF Closed

LEMMA StatesShown == Connecting \in {"connecting", "reconnecting"}
  BY DEF Connecting

-----------------------------------------------------------------------------
LEMMA LogTypeInit == LogInit => LogTypeOK
  <1> SUFFICES ASSUME LogInit PROVE LogTypeOK
    OBVIOUS
  <1>1. PICK w \in Streams : /\ wsRef = w
                             /\ streams = [x \in Streams |-> [state |-> IF x = w THEN "connecting" ELSE "none",
                                                              source |-> logSource]]
    BY DEF LogInit, ClosedStream
  <1>2. \A x \in Streams : (IF x = w THEN "connecting" ELSE "none") \in StreamStates
    BY DEF StreamStates
  <1>3. streams \in [Streams -> [state : StreamStates, source : Sources]]
    BY <1>1, <1>2 DEF LogInit
  <1> QED
    BY <1>1, <1>3 DEF LogInit, LogTypeOK

LEMMA LogTypeStep == LogTypeOK /\ [LogNext]_logVars => LogTypeOK'
  <1> SUFFICES ASSUME LogTypeOK, [LogNext]_logVars PROVE LogTypeOK'
    OBVIOUS
  <1> USE DEF LogTypeOK
  <1>1. CASE Unmount
    BY <1>1, ClosedKeeps DEF Unmount, StreamRecords
  <1>2. CASE BackendChanges
    BY <1>2 DEF BackendChanges, logView
  <1>3. ASSUME NEW source \in Sources, SwitchSource(source) PROVE LogTypeOK'
    <2>1. PICK w \in Streams : /\ streams' = [Closed EXCEPT ![w] = [state |-> "connecting", source |-> source]]
                               /\ wsRef' = w
      BY <1>3 DEF SwitchSource
    <2>2. streams' \in [Streams -> StreamRecords]
      BY <2>1, ClosedKeeps DEF StreamRecords, StreamStates
    <2> QED BY <1>3, <2>1, <2>2 DEF SwitchSource, StreamRecords
  <1>4. ASSUME NEW w \in Streams, TimerFires(w) PROVE LogTypeOK'
    <2>1. streams' \in [Streams -> StreamRecords]
      BY <1>4, BecomesKeeps DEF TimerFires, StreamStates, ClosedStream
    <2> QED BY <1>4, <2>1, StatesShown DEF TimerFires, StreamRecords
  <1>5. ASSUME NEW w \in Streams, OnOpen(w) PROVE LogTypeOK'
    <2>1. streams' \in [Streams -> StreamRecords]
      BY <1>5, BecomesKeeps DEF OnOpen, StreamStates
    <2> QED BY <1>5, <2>1 DEF OnOpen, StreamRecords
  <1>6. ASSUME NEW w \in Streams, OnGreeting(w) PROVE LogTypeOK'
    <2>1. streams' \in [Streams -> StreamRecords]
      BY <1>6, BecomesKeeps DEF OnGreeting, StreamStates
    <2> QED BY <1>6, <2>1, StatesShown DEF OnGreeting, StreamRecords
  <1>7. ASSUME NEW w \in Streams, OnConnected(w) PROVE LogTypeOK'
    <2>1. streams' \in [Streams -> StreamRecords]
      BY <1>7, BecomesKeeps DEF OnConnected, StreamStates
    <2> QED BY <1>7, <2>1 DEF OnConnected, StreamRecords
  <1>8. ASSUME NEW w \in Streams, OnErrorStatus(w) PROVE LogTypeOK'
    <2>1. streams' \in [Streams -> StreamRecords]
      BY <1>8, BecomesKeeps DEF OnErrorStatus, StreamStates
    <2> QED BY <1>8, <2>1 DEF OnErrorStatus, StreamRecords
  <1>9. ASSUME NEW w \in Streams, OnWarning(w) PROVE LogTypeOK'
    BY <1>9 DEF OnWarning
  <1>10. ASSUME NEW w \in Streams, OnClose(w) PROVE LogTypeOK'
    <2>1. streams' \in [Streams -> StreamRecords]
      BY <1>10, BecomesKeeps DEF OnClose, StreamStates, ClosedStream
    <2> QED BY <1>10, <2>1 DEF OnClose, StreamRecords
  <1>11. CASE UNCHANGED logVars
    BY <1>11 DEF logVars, logView
  <1> QED BY <1>1, <1>2, <1>3, <1>4, <1>5, <1>6, <1>7, <1>8, <1>9, <1>10, <1>11 DEF LogNext

\* Type correctness of the hook: whatever order the events of sockets and timers
\* come in, the state shown is one that the page knows.
THEOREM LogTypes == LogSpec => []LogTypeOK
  BY LogTypeInit, LogTypeStep, PTL DEF LogSpec

-----------------------------------------------------------------------------
LEMMA LiveInit == LogInit => LiveMeansOpen
  BY DEF LogInit, LiveMeansOpen

\* Whatever closes a stream, or takes it out of a state in which it is open,
\* shows another state in the same step, or leaves the page.
LEMMA LiveStep == LogTypeOK /\ LiveMeansOpen /\ [LogNext]_logVars => LiveMeansOpen'
  <1> SUFFICES ASSUME LogTypeOK, LiveMeansOpen, [LogNext]_logVars PROVE LiveMeansOpen'
    OBVIOUS
  <1> USE DEF LiveMeansOpen
  <1>1. CASE Unmount
    BY <1>1 DEF Unmount
  <1>2. CASE BackendChanges
    BY <1>2 DEF BackendChanges, logView, In
  <1>3. ASSUME NEW source \in Sources, SwitchSource(source) PROVE LiveMeansOpen'
    BY <1>3 DEF SwitchSource
  <1>4. ASSUME NEW w \in Streams, TimerFires(w) PROVE LiveMeansOpen'
    BY <1>4, StatesShown DEF TimerFires
  <1>5. ASSUME NEW w \in Streams, OnOpen(w) PROVE LiveMeansOpen'
    <2>1. streams'[w].state = "open"
      BY <1>5, BecomesKeeps DEF OnOpen, StreamStates
    <2> QED BY <2>1 DEF In
  <1>6. ASSUME NEW w \in Streams, OnGreeting(w) PROVE LiveMeansOpen'
    BY <1>6, StatesShown DEF OnGreeting
  <1>7. ASSUME NEW w \in Streams, OnConnected(w) PROVE LiveMeansOpen'
    <2>1. streams'[w].state = "live"
      BY <1>7, BecomesKeeps DEF OnConnected, StreamStates
    <2> QED BY <2>1 DEF In
  <1>8. ASSUME NEW w \in Streams, OnErrorStatus(w) PROVE LiveMeansOpen'
    BY <1>8 DEF OnErrorStatus
  <1>9. ASSUME NEW w \in Streams, OnWarning(w) PROVE LiveMeansOpen'
    BY <1>9 DEF OnWarning
  <1>10. ASSUME NEW w \in Streams, OnClose(w) PROVE LiveMeansOpen'
    BY <1>10 DEF OnClose
  <1>11. CASE UNCHANGED logVars
    BY <1>11 DEF logVars, logView, In
  <1> QED BY <1>1, <1>2, <1>3, <1>4, <1>5, <1>6, <1>7, <1>8, <1>9, <1>10, <1>11 DEF LogNext

\* The page says LIVE only while one of the sockets of useLogs is open, however
\* many there are and whichever closed last.
THEOREM LiveIsOpen == LogSpec => []LiveMeansOpen
  BY LogTypeInit, LogTypeStep, LiveInit, LiveStep, PTL DEF LogSpec

-----------------------------------------------------------------------------
\* A timer that fires after the cleanup finds mountedRef false; nothing else
\* makes a socket of what is none.
LEMMA UnmountedStep ==
    LogTypeOK /\ [LogNext]_logVars
        => (~streamMounted => \A w \in Streams : HasSocket(w)' => HasSocket(w))
  <1> SUFFICES ASSUME LogTypeOK, [LogNext]_logVars, ~streamMounted, NEW v \in Streams, HasSocket(v)'
               PROVE  HasSocket(v)
    OBVIOUS
  <1> USE DEF HasSocket, In
  <1>1. CASE Unmount
    BY <1>1 DEF Unmount
  <1>2. CASE BackendChanges
    BY <1>2 DEF BackendChanges, logView
  <1>3. ASSUME NEW source \in Sources, SwitchSource(source) PROVE HasSocket(v)
    BY <1>3 DEF SwitchSource
  <1>4. ASSUME NEW w \in Streams, TimerFires(w) PROVE HasSocket(v)
    <2>1. Becomes(w, ClosedStream)
      BY <1>4 DEF TimerFires
    <2> QED BY <2>1, BecomesKeeps DEF StreamStates, ClosedStream
  <1>5. ASSUME NEW w \in Streams, OnOpen(w) PROVE HasSocket(v)
    BY <1>5, BecomesKeeps DEF OnOpen, StreamStates
  <1>6. ASSUME NEW w \in Streams, OnGreeting(w) PROVE HasSocket(v)
    BY <1>6, BecomesKeeps DEF OnGreeting, StreamStates
  <1>7. ASSUME NEW w \in Streams, OnConnected(w) PROVE HasSocket(v)
    BY <1>7, BecomesKeeps DEF OnConnected, StreamStates
  <1>8. ASSUME NEW w \in Streams, OnErrorStatus(w) PROVE HasSocket(v)
    BY <1>8, BecomesKeeps DEF OnErrorStatus, StreamStates
  <1>9. ASSUME NEW w \in Streams, OnWarning(w) PROVE HasSocket(v)
    BY <1>9 DEF OnWarning
  <1>10. ASSUME NEW w \in Streams, OnClose(w) PROVE HasSocket(v)
    <2>1. Becomes(w, ClosedStream)
      BY <1>10 DEF OnClose
    <2> QED BY <2>1, BecomesKeeps DEF StreamStates, ClosedStream
  <1>11. CASE UNCHANGED logVars
    BY <1>11 DEF logVars
  <1> QED BY <1>1, <1>2, <1>3, <1>4, <1>5, <1>6, <1>7, <1>8, <1>9, <1>10, <1>11 DEF LogNext

\* After the page is left, no timer that reconnectRef has forgotten makes a
\* connection, however many there are.
THEOREM LeftPageIsQuiet == LogSpec => NothingOpensAfterUnmount
  <1>1. LogTypeOK /\ [LogNext]_logVars
           => [~streamMounted => \A w \in Streams : HasSocket(w)' => HasSocket(w)]_logVars
    BY UnmountedStep
  <1> QED BY <1>1, LogTypeInit, LogTypeStep, PTL DEF LogSpec, NothingOpensAfterUnmount

-----------------------------------------------------------------------------
(***************************************************************************)
(* CoreStatus                                                              *)
(***************************************************************************)
PollRecords == [stage : {"none", "sent", "served"}, running : BOOLEAN]

(***************************************************************************)
(* What the frame shows depends on the answers that are still on their way *)
(* as much as on those that have come: as long as the core has not         *)
(* changed, every answer under way tells what the core is; the last good   *)
(* status is the core's; and without an error it is the one on show.       *)
(***************************************************************************)
AnswersTellTheCore ==
    coreChanges = 0 => \A p \in Hooks \X PollSlots :
                          polls[p].stage = "served" => polls[p].running = coreRuns

LastGoodIsTheCore ==
    coreChanges = 0 => lastGoodStatus \in {{}, {coreRuns}}

ShownIsLastGood ==
    ~statusError[ShellHook] => lastGoodStatus \in {{}, {shown[ShellHook]}}

ShellInv == StatusTypeOK /\ AnswersTellTheCore /\ LastGoodIsTheCore /\ ShownIsLastGood

USE StatusAssumption DEF StatusAssumption

-----------------------------------------------------------------------------
LEMMA StatusTypeInit == StatusInit \/ StatusAbsent => StatusTypeOK
  <1>1. ASSUME coreRuns \in BOOLEAN, NEW hooks \in SUBSET Hooks, StatusStart(hooks) PROVE StatusTypeOK
    BY <1>1 DEF StatusStart, StatusTypeOK, NoPoll
  <1>2. StatusInit => StatusTypeOK
    BY <1>1 DEF StatusInit
  <1>3. StatusAbsent => StatusTypeOK
    BY <1>1 DEF StatusAbsent
  <1> QED BY <1>2, <1>3

LEMMA ShowsTyped ==
    ASSUME StatusTypeOK, NEW h \in Hooks, NEW running \in BOOLEAN, NEW error \in BOOLEAN,
           Shows(h, running, error)
    PROVE  /\ shown' \in [Hooks -> BOOLEAN]
           /\ statusError' \in [Hooks -> BOOLEAN] /\ statusLoading' \in [Hooks -> BOOLEAN]
           /\ lastGoodStatus' \in {{}, {TRUE}, {FALSE}}
  BY DEF StatusTypeOK, Shows

LEMMA CoreTyped ==
    ASSUME StatusTypeOK, NEW runs \in BOOLEAN, CoreBecomes(runs)
    PROVE  /\ coreRuns' \in BOOLEAN /\ coreChanges' \in Nat
           /\ coreChanges' = 0 => coreChanges = 0 /\ coreRuns' = coreRuns
  BY DEF StatusTypeOK, CoreBecomes

LEMMA NoPollTyped ==
    /\ NoPoll \in PollRecords /\ NoPoll.stage = "none"
    /\ [NoPoll EXCEPT !.stage = "sent"] \in PollRecords
    /\ [NoPoll EXCEPT !.stage = "sent"].stage = "sent"
  BY DEF NoPoll, PollRecords

\* The five steps of a poll, told apart by what they put in its slot.
LEMMA PollStepTyped ==
    ASSUME StatusTypeOK, NEW h \in Hooks, NEW k \in PollSlots,
           Tick(h, k) \/ Refetch(h, k) \/ ServePoll(h, k) \/ PollAnswered(h, k) \/ PollFails(h, k)
    PROVE  /\ polls' \in [Hooks \X PollSlots -> PollRecords]
           /\ \A p \in Hooks \X PollSlots : p # <<h, k>> => polls'[p] = polls[p]
           /\ polls'[<<h, k>>].stage = "served" => polls'[<<h, k>>].running = coreRuns
           /\ UNCHANGED coreVars
  <1>1. /\ UNCHANGED coreVars
        /\ \E poll \in PollRecords : /\ PollBecomes(h, k, poll)
                                     /\ poll.stage = "served" => poll.running = coreRuns
    <2>1. CASE Tick(h, k) \/ Refetch(h, k)
      <3> DEFINE sent == [NoPoll EXCEPT !.stage = "sent"]
      <3>1. PollBecomes(h, k, sent) /\ UNCHANGED coreVars
        BY <2>1 DEF Tick, Refetch, Fetch
      <3>2. sent \in PollRecords /\ sent.stage # "served"
        BY NoPollTyped
      <3> HIDE DEF sent
      <3> QED BY <3>1, <3>2
    <2>2. CASE ServePoll(h, k)
      <3> DEFINE served == [stage |-> "served", running |-> coreRuns]
      <3>1. PollBecomes(h, k, served) /\ UNCHANGED coreVars
        BY <2>2 DEF ServePoll
      <3>2. served \in PollRecords /\ served.running = coreRuns
        BY DEF StatusTypeOK, PollRecords
      <3> HIDE DEF served
      <3> QED BY <3>1, <3>2
    <2>3. CASE PollAnswered(h, k) \/ PollFails(h, k)
      <3>1. PollBecomes(h, k, NoPoll) /\ UNCHANGED coreVars
        BY <2>3 DEF PollAnswered, PollFails
      <3>2. NoPoll \in PollRecords /\ NoPoll.stage # "served"
        BY NoPollTyped
      <3> QED BY <3>1, <3>2
    <2> QED BY <2>1, <2>2, <2>3
  <1>2. PICK poll \in PollRecords : /\ PollBecomes(h, k, poll)
                                    /\ poll.stage = "served" => poll.running = coreRuns
    BY <1>1
  <1>3. polls \in [Hooks \X PollSlots -> PollRecords] /\ <<h, k>> \in Hooks \X PollSlots
    BY DEF StatusTypeOK, PollRecords
  <1>4. polls' = [polls EXCEPT ![<<h, k>>] = poll]
    BY <1>2 DEF PollBecomes
  <1>5. /\ polls' \in [Hooks \X PollSlots -> PollRecords] /\ polls'[<<h, k>>] = poll
        /\ \A p \in Hooks \X PollSlots : p # <<h, k>> => polls'[p] = polls[p]
    BY <1>3, <1>4
  <1> QED BY <1>1, <1>2, <1>5

-----------------------------------------------------------------------------
LEMMA ShellInit == StatusInit \/ StatusAbsent => ShellInv
  <1> SUFFICES ASSUME StatusInit \/ StatusAbsent PROVE ShellInv
    OBVIOUS
  <1>1. StatusTypeOK
    BY StatusTypeInit
  <1>2. \A p \in Hooks \X PollSlots : polls[p].stage = "none"
    BY DEF StatusInit, StatusAbsent, StatusStart, NoPoll
  <1> QED BY <1>1, <1>2 DEF StatusInit, StatusAbsent, StatusStart, ShellInv, AnswersTellTheCore,
                            LastGoodIsTheCore, ShownIsLastGood

\* What a hook shows of an answer that tells the core.
LEMMA ShowsKeeps ==
    ASSUME ShellInv, NEW h \in Hooks, NEW running \in BOOLEAN, NEW error \in BOOLEAN,
           Shows(h, running, error), UNCHANGED coreVars,
           ~error => (coreChanges = 0 => running = coreRuns)
    PROVE  LastGoodIsTheCore' /\ ShownIsLastGood'
  <1> USE DEF ShellInv, LastGoodIsTheCore, ShownIsLastGood, coreVars, StatusTypeOK
  <1>1. CASE h \notin polling
    BY <1>1 DEF Shows
  <1>2. CASE h \in polling /\ h # ShellHook
    BY <1>2 DEF Shows
  <1>3. CASE h \in polling /\ h = ShellHook /\ ~error
    BY <1>3 DEF Shows
  <1>4. CASE h \in polling /\ h = ShellHook /\ error
    BY <1>4 DEF Shows
  <1> QED BY <1>1, <1>2, <1>3, <1>4

\* A step of the page's actions, which touches neither answers nor what is shown,
\* though it may change the core.
LEMMA ActionKeeps ==
    ASSUME ShellInv, UNCHANGED <<polls, shown, statusError, lastGoodStatus>>,
           coreChanges' = 0 => coreChanges = 0 /\ coreRuns' = coreRuns
    PROVE  AnswersTellTheCore' /\ LastGoodIsTheCore' /\ ShownIsLastGood'
  BY DEF ShellInv, AnswersTellTheCore, LastGoodIsTheCore, ShownIsLastGood

\* A step of one poll.
LEMMA PollKeeps ==
    ASSUME ShellInv, NEW h \in Hooks, NEW k \in PollSlots,
           Tick(h, k) \/ Refetch(h, k) \/ ServePoll(h, k) \/ PollAnswered(h, k) \/ PollFails(h, k)
    PROVE  ShellInv'
  <1>1. /\ polls' \in [Hooks \X PollSlots -> PollRecords]
        /\ \A p \in Hooks \X PollSlots : p # <<h, k>> => polls'[p] = polls[p]
        /\ polls'[<<h, k>>].stage = "served" => polls'[<<h, k>>].running = coreRuns
        /\ UNCHANGED coreVars
    BY PollStepTyped DEF ShellInv
  <1>2. AnswersTellTheCore'
    BY <1>1 DEF ShellInv, AnswersTellTheCore, coreVars
  <1>3. polls[<<h, k>>] \in PollRecords
    BY DEF ShellInv, StatusTypeOK, PollRecords
  <1>4. CASE Tick(h, k) \/ Refetch(h, k) \/ ServePoll(h, k)
    <2>1. UNCHANGED <<polling, shown, statusError, statusLoading, lastGoodStatus, actionLoading, actionStage>>
      BY <1>4 DEF Tick, Refetch, ServePoll, statusView, actionVars
    <2>2. refetches' \in Nat
      BY <1>4 DEF Tick, Refetch, ServePoll, actionVars, ShellInv, StatusTypeOK
    <2>3. StatusTypeOK'
      BY <1>1, <2>1, <2>2 DEF ShellInv, StatusTypeOK, PollRecords, coreVars
    <2>4. LastGoodIsTheCore' /\ ShownIsLastGood'
      BY <1>1, <2>1 DEF ShellInv, LastGoodIsTheCore, ShownIsLastGood, coreVars
    <2> QED BY <1>2, <2>3, <2>4 DEF ShellInv
  <1>5. ASSUME NEW running \in BOOLEAN, NEW error \in BOOLEAN, Shows(h, running, error),
               UNCHANGED <<polling, actionVars>>,
               ~error => (coreChanges = 0 => running = coreRuns)
        PROVE  ShellInv'
    <2>1. LastGoodIsTheCore' /\ ShownIsLastGood'
      BY <1>1, <1>5, ShowsKeeps
    <2>2. StatusTypeOK'
      BY <1>1, <1>5, ShowsTyped DEF ShellInv, StatusTypeOK, PollRecords, coreVars, actionVars
    <2> QED BY <1>2, <2>1, <2>2 DEF ShellInv
  <1>6. CASE PollAnswered(h, k)
    BY <1>3, <1>5, <1>6 DEF PollAnswered, ShellInv, AnswersTellTheCore, PollRecords
  <1>7. CASE PollFails(h, k)
    BY <1>5, <1>7 DEF PollFails
  <1> QED BY <1>4, <1>6, <1>7

LEMMA ShellStep == ShellInv /\ [StatusNext]_statusVars => ShellInv'
  <1> SUFFICES ASSUME ShellInv, [StatusNext]_statusVars PROVE ShellInv'
    OBVIOUS
  <1>0. StatusTypeOK
    BY DEF ShellInv
  <1>1. CASE ServeAction
    <2>1. UNCHANGED <<statusView, polls, actionLoading, refetches>>
      BY <1>1 DEF ServeAction
    <2>2. /\ coreRuns' \in BOOLEAN /\ coreChanges' \in Nat
          /\ coreChanges' = 0 => coreChanges = 0 /\ coreRuns' = coreRuns
      <3>1. CASE \E runs \in BOOLEAN : CoreBecomes(runs)
        BY <1>0, <3>1, CoreTyped
      <3>2. CASE UNCHANGED coreVars
        BY <1>0, <3>2 DEF coreVars, StatusTypeOK
      <3> QED BY <1>1, <3>1, <3>2 DEF ServeAction, ServeStop, ServeKill, ServeStart
    <2>3. actionStage' \in {"stopped", "started", "done", "failed"}
      BY <1>1 DEF ServeAction, ServeStop, ServeKill, ServeStart
    <2>4. StatusTypeOK'
      BY <1>0, <2>1, <2>2, <2>3 DEF StatusTypeOK, statusView
    <2> QED BY <2>1, <2>2, <2>4, ActionKeeps DEF ShellInv, statusView
  <1>2. CASE ActionAnswered
    <2>1. UNCHANGED <<coreVars, statusView, polls>>
      BY <1>2 DEF ActionAnswered
    <2>2. actionLoading' = "none" /\ actionStage' = "none" /\ refetches' \in Nat
      BY <1>0, <1>2 DEF ActionAnswered, StatusTypeOK
    <2>3. StatusTypeOK'
      BY <1>0, <2>1, <2>2 DEF StatusTypeOK, statusView, coreVars
    <2> QED BY <2>1, <2>3, ActionKeeps DEF ShellInv, statusView, coreVars
  <1>3. CASE CoreElsewhere
    <2>1. UNCHANGED <<statusView, polls, actionVars>> /\ CoreBecomes(~coreRuns)
      BY <1>3 DEF CoreElsewhere
    <2>2. (~coreRuns) \in BOOLEAN
      OBVIOUS
    <2>3. /\ coreRuns' \in BOOLEAN /\ coreChanges' \in Nat
          /\ coreChanges' = 0 => coreChanges = 0 /\ coreRuns' = coreRuns
      BY <1>0, <2>1, <2>2, CoreTyped
    <2>4. StatusTypeOK'
      BY <1>0, <2>1, <2>3 DEF StatusTypeOK, statusView, actionVars
    <2> QED BY <2>1, <2>3, <2>4, ActionKeeps DEF ShellInv, statusView
  <1>4. ASSUME NEW h \in Hooks, LeavePage(h) PROVE ShellInv'
    <2>1. /\ UNCHANGED <<coreVars, shown, statusError, statusLoading, lastGoodStatus, polls, actionLoading,
                         actionStage>>
          /\ polling' = polling \ {h} /\ refetches' = 0
      BY <1>4 DEF LeavePage
    <2>2. StatusTypeOK'
      BY <1>0, <2>1 DEF StatusTypeOK, coreVars
    <2> QED BY <2>1, <2>2, ActionKeeps DEF ShellInv, coreVars
  <1>5. ASSUME NEW h \in Hooks, NEW action \in CoreActions, HandleAction(h, action) PROVE ShellInv'
    <2>1. /\ UNCHANGED <<coreVars, statusView, polls, refetches>>
          /\ actionLoading' = action /\ actionStage' = "sent"
      BY <1>5 DEF HandleAction
    <2>2. StatusTypeOK'
      BY <1>0, <2>1 DEF StatusTypeOK, statusView, coreVars
    <2> QED BY <2>1, <2>2, ActionKeeps DEF ShellInv, statusView, coreVars
  <1>6. ASSUME NEW h \in Hooks, NEW k \in PollSlots,
               Tick(h, k) \/ Refetch(h, k) \/ ServePoll(h, k) \/ PollAnswered(h, k) \/ PollFails(h, k)
        PROVE  ShellInv'
    BY <1>6, PollKeeps
  <1>7. CASE UNCHANGED statusVars
    <2>1. UNCHANGED <<coreVars, statusView, polls, actionVars>>
      BY <1>7 DEF statusVars
    <2>2. StatusTypeOK'
      BY <1>0, <2>1 DEF StatusTypeOK, statusView, coreVars, actionVars
    <2> QED BY <2>1, <2>2, ActionKeeps DEF ShellInv, statusView, coreVars
  <1> QED BY <1>1, <1>2, <1>3, <1>4, <1>5, <1>6, <1>7 DEF StatusNext

\* Type correctness of the hooks, the frame and the buttons of the Mihomo page.
THEOREM StatusTypes == StatusSpec => []StatusTypeOK
  <1>1. ShellInv => StatusTypeOK
    BY DEF ShellInv
  <1> QED BY <1>1, ShellInit, ShellStep, PTL DEF StatusSpec

LEMMA ShellTells == ShellInv => ShellShowsTheCore
  <1> SUFFICES ASSUME ShellInv, lastGoodStatus # {}, coreChanges = 0 PROVE ShellShows = coreRuns
    BY DEF ShellShowsTheCore
  <1>1. lastGoodStatus = {coreRuns}
    BY DEF ShellInv, LastGoodIsTheCore
  <1>2. CASE statusError[ShellHook]
    <2>1. (CHOOSE running \in {coreRuns} : TRUE) = coreRuns
      OBVIOUS
    <2> QED BY <1>1, <1>2, <2>1 DEF ShellShows
  <1>3. CASE ~statusError[ShellHook]
    <2>1. {coreRuns} = {shown[ShellHook]}
      BY <1>1, <1>3 DEF ShellInv, ShownIsLastGood
    <2>2. coreRuns = shown[ShellHook]
      BY <2>1
    <2> QED BY <1>3, <2>2 DEF ShellShows
  <1> QED BY <1>2, <1>3

\* However many polls overlap, fail or come late, the frame shows a core that
\* does not change as it is, once it has read its status.
THEOREM TheFrameShowsTheCore == StatusSpec => []ShellShowsTheCore
  BY ShellTells, ShellInit, ShellStep, PTL DEF StatusSpec

-----------------------------------------------------------------------------
(***************************************************************************)
(* Together: one of the two is open, the other leaves its variables as     *)
(* they are.                                                               *)
(***************************************************************************)
LEMMA AbsentStream == LogAbsent => LogTypeOK /\ LiveMeansOpen
  <1> SUFFICES ASSUME LogAbsent PROVE LogTypeOK /\ LiveMeansOpen
    OBVIOUS
  <1>1. streams \in [Streams -> [state : StreamStates, source : Sources]]
    BY DEF LogAbsent, StreamStates, ClosedStream
  <1> QED BY <1>1 DEF LogAbsent, LogTypeOK, LiveMeansOpen

LEMMA LiveSteps ==
    ASSUME [WebLiveNext]_liveVars
    PROVE  [LogNext]_logVars /\ [StatusNext]_statusVars
  BY DEF WebLiveNext, liveVars

LEMMA WebLiveInvariant == WebLiveSpec => [](LogTypeOK /\ LiveMeansOpen /\ ShellInv)
  <1>1. WebLiveInit => LogTypeOK /\ LiveMeansOpen /\ ShellInv
    BY LogTypeInit, LiveInit, AbsentStream, ShellInit DEF WebLiveInit
  <1>2. LogTypeOK /\ LiveMeansOpen /\ ShellInv /\ [WebLiveNext]_liveVars
           => (LogTypeOK /\ LiveMeansOpen /\ ShellInv)'
    BY LiveSteps, LogTypeStep, LiveStep, ShellStep
  <1> QED BY <1>1, <1>2, PTL DEF WebLiveSpec

\* Every variable of the two has its type, whichever is open.
THEOREM WebLiveTypes == WebLiveSpec => []WebLiveTypeOK
  <1>1. LogTypeOK /\ ShellInv => WebLiveTypeOK
    BY DEF WebLiveTypeOK, ShellInv
  <1> QED BY <1>1, WebLiveInvariant, PTL

\* LIVE means an open socket, and the frame shows the core as it is, whichever
\* of the pages is open.
THEOREM WebLiveShowsWhatIs == WebLiveSpec => []LiveMeansOpen /\ []ShellShowsTheCore
  BY WebLiveInvariant, ShellTells, PTL

\* Nothing connects after the Logs page is left, and nothing while it is not
\* open.
THEOREM WebLiveLeftPageIsQuiet == WebLiveSpec => NothingOpensAfterUnmount
  <1>1. LogTypeOK /\ [WebLiveNext]_liveVars
           => [~streamMounted => \A w \in Streams : HasSocket(w)' => HasSocket(w)]_logVars
    BY LiveSteps, UnmountedStep
  <1> QED BY <1>1, WebLiveInvariant, PTL DEF WebLiveSpec, NothingOpensAfterUnmount

=============================================================================
