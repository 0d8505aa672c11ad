----------------------------- MODULE LogStream -----------------------------
(***************************************************************************)
(* The hook useLogs (src/web/src/hooks/use-logs.ts) of the Logs page, over *)
(* the sockets of services/ws.ts and the streams of                        *)
(* handler/stream/stream.go.                                               *)
(*                                                                         *)
(* A stream is a socket or, once that has closed, the timer that will      *)
(* connect again: the timer calls the connect() of the endpoint the socket *)
(* had.  A switch of the source runs the effect's cleanup and the effect   *)
(* one after the other, so that mountedRef and manualCloseRef are back to  *)
(* what they were when the old socket's onclose comes; but for that        *)
(* instant manualCloseRef is the negation of mountedRef, which is          *)
(* streamMounted here.  The lines and the length of the backoff are left   *)
(* out: nothing that connects or closes depends on them.                   *)
(***************************************************************************)
EXTENDS Naturals, FiniteSets

CONSTANTS
    Sources,        \* the endpoints
    AppLog,         \* the one of the application's log, which is a file
    NoStream,
    Streams,        \* sockets and timers there are at once
    MaxSwitches,    \* bound on switches of the source
    MaxOutages      \* bound on what goes wrong with the backend

ASSUME LogAssumption ==
    /\ AppLog \in Sources /\ NoStream \notin Streams /\ MaxSwitches \in Nat /\ MaxOutages \in Nat
    /\ Cardinality(Streams) > MaxSwitches

VARIABLES
    logSource,         \* logSource of the page, the hook's endpoint
    streamMounted,     \* mountedRef
    streams,
    wsRef,
    reconnectRef,
    reconnecting,      \* reconnectAttemptRef is not zero
    connectionState,
    backend,           \* refuses sockets, accepts them without a stream, streams
    switches, outages

logView == <<logSource, streamMounted, wsRef, reconnectRef, reconnecting, connectionState>>
logVars == <<logView, streams, backend, switches, outages>>

StreamStates ==
    {"none", "connecting",
     "open",       \* onopen has been called
     "greeted",    \* the status "connecting" has been received
     "live",       \* the status "connected" has been received
     "failed",     \* the status "error" has been received
     "closing",    \* close() has been called, onclose has not
     "waiting"}    \* the timer runs

ClosedStream == "none"

LogTypeOK ==
    /\ logSource \in Sources /\ streamMounted \in BOOLEAN /\ reconnecting \in BOOLEAN
    /\ streams \in [Streams -> [state : StreamStates, source : Sources]]
    /\ {wsRef, reconnectRef} \subseteq Streams \cup {NoStream}
    /\ connectionState \in {"connecting", "connected", "reconnecting", "offline"}
    /\ backend \in {"down", "idle", "live"}

-----------------------------------------------------------------------------
Unbounded == UNCHANGED <<switches, outages>>

In(w, states) == streams[w].state \in states

HasSocket(w) == In(w, {"connecting", "open", "greeted", "live", "failed"})

Becomes(w, state) == streams' = [streams EXCEPT ![w].state = state]

Connecting == IF reconnecting THEN "reconnecting" ELSE "connecting"

-----------------------------------------------------------------------------
(***************************************************************************)
(* What the page does                                                      *)
(***************************************************************************)
\* The cleanup closes the socket and stops the timer that the references name.
Closed ==
    [w \in Streams |->
        IF w = reconnectRef /\ In(w, {"waiting"}) THEN [streams[w] EXCEPT !.state = ClosedStream]
        ELSE IF w = wsRef /\ HasSocket(w) THEN [streams[w] EXCEPT !.state = "closing"]
        ELSE streams[w]]

\* The cleanup, and the effect for the other endpoint.
SwitchSource(source) ==
    /\ streamMounted /\ switches < MaxSwitches /\ switches' = switches + 1
    /\ source # logSource /\ logSource' = source
    /\ \E w \in Streams :
          /\ Closed[w].state = ClosedStream
          /\ streams' = [Closed EXCEPT ![w] = [state |-> "connecting", source |-> source]]
          /\ wsRef' = w
    /\ reconnectRef' = NoStream /\ reconnecting' = FALSE /\ connectionState' = "connecting"
    /\ UNCHANGED <<streamMounted, backend, outages>>

\* The user leaves the page.
Unmount ==
    /\ streamMounted /\ streamMounted' = FALSE
    /\ streams' = Closed /\ reconnectRef' = NoStream
    /\ UNCHANGED <<logSource, wsRef, reconnecting, connectionState, backend>> /\ Unbounded

\* Mutant: a timer that nobody has stopped connects whether or not the page is
\* still there.
TimerFiresAnyway(w) ==
    /\ In(w, {"waiting"})
    /\ Becomes(w, "connecting") /\ wsRef' = w /\ connectionState' = Connecting
    /\ UNCHANGED <<logSource, streamMounted, reconnectRef, reconnecting, backend>> /\ Unbounded

\* connect() of the timer.
TimerFires(w) ==
    /\ In(w, {"waiting"})
    /\ IF streamMounted
       THEN Becomes(w, "connecting") /\ wsRef' = w /\ connectionState' = Connecting
       ELSE Becomes(w, ClosedStream) /\ UNCHANGED <<wsRef, connectionState>>
    /\ UNCHANGED <<logSource, streamMounted, reconnectRef, reconnecting, backend>> /\ Unbounded

-----------------------------------------------------------------------------
(***************************************************************************)
(* Events of a socket                                                      *)
(***************************************************************************)
OnOpen(w) ==
    /\ In(w, {"connecting"}) /\ backend # "down"
    /\ Becomes(w, "open")
    /\ connectionState' = "connected" /\ reconnecting' = FALSE
    /\ UNCHANGED <<logSource, streamMounted, wsRef, reconnectRef, backend>> /\ Unbounded

\* The stream handler says that it is connecting to what it streams.
OnGreeting(w) ==
    /\ In(w, {"open"})
    /\ Becomes(w, "greeted") /\ connectionState' = Connecting
    /\ UNCHANGED <<logSource, streamMounted, wsRef, reconnectRef, reconnecting, backend>> /\ Unbounded

OnConnected(w) ==
    /\ In(w, {"greeted"}) /\ backend = "live"
    /\ Becomes(w, "live")
    /\ connectionState' = "connected" /\ reconnecting' = FALSE
    /\ UNCHANGED <<logSource, streamMounted, wsRef, reconnectRef, backend>> /\ Unbounded

\* Mutant: the word of the server is shown as it is.
OnErrorStatusAsSent(w) ==
    /\ In(w, {"greeted", "live"}) /\ backend = "idle"
    /\ Becomes(w, "failed") /\ connectionState' = "error"
    /\ UNCHANGED <<logSource, streamMounted, wsRef, reconnectRef, reconnecting, backend>> /\ Unbounded

\* The status "error"; the handler then closes the socket.
OnErrorStatus(w) ==
    /\ In(w, {"greeted", "live"}) /\ backend = "idle"
    /\ Becomes(w, "failed") /\ connectionState' = "offline"
    /\ UNCHANGED <<logSource, streamMounted, wsRef, reconnectRef, reconnecting, backend>> /\ Unbounded

\* The application's log was rotated: the status "warning" on a stream that goes on.
OnWarning(w) ==
    /\ In(w, {"live"}) /\ streams[w].source = AppLog
    /\ outages < MaxOutages /\ outages' = outages + 1
    /\ connectionState' = "reconnecting"
    /\ UNCHANGED <<logSource, streamMounted, streams, wsRef, reconnectRef, reconnecting, backend, switches>>

\* The socket is closed by close(), by the handler, after an error or at the
\* end of what it streams, or because the backend is gone.
Closes(w) ==
    \/ In(w, {"closing", "failed"})
    \/ In(w, {"live"}) /\ backend = "idle"
    \/ HasSocket(w) /\ backend = "down"

\* Mutant: the state is set by the next connect() only.
OnCloseUnnoticed(w) ==
    /\ Closes(w)
    /\ Becomes(w, IF streamMounted THEN "waiting" ELSE ClosedStream)
    /\ reconnecting' = (reconnecting \/ streamMounted)
    /\ reconnectRef' = IF streamMounted THEN w ELSE reconnectRef
    /\ UNCHANGED <<logSource, streamMounted, wsRef, connectionState, backend>> /\ Unbounded

\* Mutant: a second attempt that fails is the last.
OnCloseGivesUp(w) ==
    LET again == streamMounted /\ ~reconnecting
    IN  /\ Closes(w)
        /\ Becomes(w, IF again THEN "waiting" ELSE ClosedStream)
        /\ reconnecting' = (reconnecting \/ again)
        /\ reconnectRef' = IF again THEN w ELSE reconnectRef
        /\ connectionState' = IF again THEN "reconnecting" ELSE "offline"
        /\ UNCHANGED <<logSource, streamMounted, wsRef, backend>> /\ Unbounded

OnClose(w) ==
    /\ Closes(w)
    /\ Becomes(w, IF streamMounted THEN "waiting" ELSE ClosedStream)
    /\ reconnecting' = (reconnecting \/ streamMounted)
    /\ reconnectRef' = IF streamMounted THEN w ELSE reconnectRef
    /\ connectionState' = IF streamMounted THEN "reconnecting" ELSE "offline"
    /\ UNCHANGED <<logSource, streamMounted, wsRef, backend>> /\ Unbounded

\* The backend stops, comes back, or has nothing to stream: the core is not
\* running or there is no log file.
BackendChanges ==
    /\ outages < MaxOutages /\ outages' = outages + 1
    /\ backend' \in {"down", "idle", "live"} \ {backend}
    /\ UNCHANGED <<logView, streams, switches>>

-----------------------------------------------------------------------------
LogInit ==
    /\ logSource \in Sources /\ streamMounted = TRUE
    /\ \E w \in Streams :
          /\ wsRef = w
          /\ streams = [x \in Streams |-> [state |-> IF x = w THEN "connecting" ELSE ClosedStream,
                                           source |-> logSource]]
    /\ reconnectRef = NoStream /\ reconnecting = FALSE /\ connectionState = "connecting"
    /\ backend \in {"down", "idle", "live"}
    /\ switches = 0 /\ outages = 0

\* Another page is open.
LogAbsent ==
    /\ logSource \in Sources /\ streamMounted = FALSE
    /\ streams = [x \in Streams |-> [state |-> ClosedStream, source |-> logSource]]
    /\ wsRef = NoStream /\ reconnectRef = NoStream /\ reconnecting = FALSE
    /\ connectionState = "offline" /\ backend = "live" /\ switches = 0 /\ outages = 0

LogNext ==
    \/ Unmount \/ BackendChanges
    \/ \E source \in Sources : SwitchSource(source)
    \/ \E w \in Streams :
          \/ TimerFires(w) \/ OnOpen(w) \/ OnGreeting(w) \/ OnConnected(w)
          \/ OnErrorStatus(w) \/ OnWarning(w) \/ OnClose(w)

\* Timers run off, and a socket is opened, served or closed in the end.
LogFairness ==
    \A w \in Streams :
        /\ WF_logVars(TimerFires(w)) /\ WF_logVars(OnOpen(w)) /\ WF_logVars(OnGreeting(w))
        /\ WF_logVars(OnConnected(w)) /\ WF_logVars(OnErrorStatus(w)) /\ WF_logVars(OnClose(w))

LogSpec == LogInit /\ [][LogNext]_logVars /\ LogFairness

-----------------------------------------------------------------------------
(***************************************************************************)
(* Properties                                                              *)
(***************************************************************************)
\* The page says LIVE only while a socket is open, whichever of several
\* sockets has opened or closed last.
LiveMeansOpen ==
    (streamMounted /\ connectionState = "connected") => \E w \in Streams : In(w, {"open", "live"})

\* Once the page is left nothing connects any more, though a timer that was
\* overwritten in reconnectRef still runs.
NothingOpensAfterUnmount ==
    [][~streamMounted => \A w \in Streams : HasSocket(w)' => HasSocket(w)]_logVars

\* When the backend streams and the page stays, a stream of the chosen source
\* is live in the end, after whatever outages and switches.
StreamComesBack ==
    <>[](streamMounted /\ backend = "live")
        => <>[](\E w \in Streams : In(w, {"live"}) /\ streams[w].source = logSource)

\* hooks/codemap.md: "cleanup closes WebSocket".
CleanupClosesSockets == ~streamMounted => \A w \in Streams : ~HasSocket(w)

=============================================================================
