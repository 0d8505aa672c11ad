----------------------------- MODULE Connections -----------------------------
(***************************************************************************)
(* The Connections page (src/web/src/app/connections/page.tsx) over the    *)
(* connections the core has open.  Of a connection its id is kept, which   *)
(* the core never uses twice; search, filters and sums only show the rows. *)
(*                                                                         *)
(* A close that succeeds goes on with a reload and ends when that has been *)
(* answered: it is one call here that goes on from one to the other.       *)
(***************************************************************************)
EXTENDS Naturals

CONSTANTS
    Conns, NoConn,
    ConnSlots,       \* calls under way at once
    MaxConnInputs,   \* bound on inputs
    MaxConnMishaps   \* bound on failed calls

ASSUME ConnectionsAssumption ==
    /\ NoConn \notin Conns
    /\ MaxConnInputs \in Nat /\ MaxConnMishaps \in Nat

VARIABLES
    openConns, gone,   \* the core's connections, and those it had
    connRows,          \* data.connections, {} before the first answer
    snapshot,          \* there is data
    connError,
    loadingConns, refreshingConns,
    selectedConn,      \* selectedId
    closeTarget, closing,
    connCalls,
    connInputs, connMishaps

connView == <<connRows, snapshot, connError, loadingConns, refreshingConns, selectedConn,
              closeTarget, closing>>
connVars == <<openConns, gone, connView, connCalls, connInputs, connMishaps>>

OptionalConn == Conns \cup {NoConn}

ConnCalls ==
    [op : {"none", "init", "refresh", "close"},
     served : BOOLEAN,
     conn : OptionalConn,     \* the one to close; of a refresh, the one it follows
     list : SUBSET Conns]     \* the answer of a load

NoConnCall == [op |-> "none", served |-> FALSE, conn |-> NoConn, list |-> {}]

ConnectionsTypeOK ==
    /\ openConns \subseteq Conns /\ gone \subseteq Conns /\ openConns \cap gone = {}
    /\ connRows \subseteq Conns
    /\ snapshot \in BOOLEAN /\ connError \in BOOLEAN
    /\ loadingConns \in BOOLEAN /\ refreshingConns \in BOOLEAN
    /\ selectedConn \in OptionalConn /\ closeTarget \in OptionalConn /\ closing \in OptionalConn
    /\ connCalls \in [ConnSlots -> ConnCalls]

-----------------------------------------------------------------------------
ConnInput == connInputs < MaxConnInputs /\ connInputs' = connInputs + 1 /\ UNCHANGED connMishaps

ConnMishap == connMishaps < MaxConnMishaps /\ connMishaps' = connMishaps + 1 /\ UNCHANGED connInputs

NoConnInput == UNCHANGED <<connInputs, connMishaps>>

ConnSend(s, call) == connCalls' = [connCalls EXCEPT ![s] = call]

ConnFree(s) == connCalls[s].op = "none"

ConnsQuiet == \A s \in ConnSlots : ConnFree(s)

ConnServed(s, op) == connCalls[s].op = op /\ connCalls[s].served

\* The dialog covers the page.
NoCloseDialog == closeTarget = NoConn

-----------------------------------------------------------------------------
(***************************************************************************)
(* Inputs                                                                  *)
(***************************************************************************)
\* Refresh, or Retry beside an error.
RefreshConns(s) ==
    /\ ConnInput /\ NoCloseDialog /\ ~refreshingConns /\ ConnFree(s)
    /\ ConnSend(s, [NoConnCall EXCEPT !.op = "refresh"])
    /\ refreshingConns' = TRUE
    /\ UNCHANGED <<openConns, gone, connRows, snapshot, connError, loadingConns, selectedConn,
                   closeTarget, closing>>

\* A click on a row, which selects it or no longer does.
SelectConn(c) ==
    /\ ConnInput /\ NoCloseDialog /\ ~loadingConns /\ c \in connRows
    /\ selectedConn' = IF selectedConn = c THEN NoConn ELSE c
    /\ UNCHANGED <<openConns, gone, connRows, snapshot, connError, loadingConns,
                   refreshingConns, closeTarget, closing, connCalls>>

\* Close of a row, or of the inspector, which shows the selected row.
AskClose(c) ==
    /\ ConnInput /\ NoCloseDialog /\ ~loadingConns /\ c \in connRows /\ closing # c
    /\ closeTarget' = c
    /\ UNCHANGED <<openConns, gone, connRows, snapshot, connError, loadingConns,
                   refreshingConns, selectedConn, closing, connCalls>>

\* Cancel, the cross or Escape: a close that was confirmed goes on.
CancelClose ==
    /\ ConnInput /\ closeTarget # NoConn
    /\ closeTarget' = NoConn
    /\ UNCHANGED <<openConns, gone, connRows, snapshot, connError, loadingConns,
                   refreshingConns, selectedConn, closing, connCalls>>

ConfirmClose(s) ==
    /\ ConnInput /\ closeTarget # NoConn /\ closing # closeTarget
    /\ ConnFree(s)
    /\ ConnSend(s, [NoConnCall EXCEPT !.op = "close", !.conn = closeTarget])
    /\ closing' = closeTarget
    /\ UNCHANGED <<openConns, gone, connRows, snapshot, connError, loadingConns,
                   refreshingConns, selectedConn, closeTarget>>

-----------------------------------------------------------------------------
(***************************************************************************)
(* The core                                                                *)
(***************************************************************************)
\* To close what is gone already is no error.
ServeConns(s) ==
    LET call == connCalls[s]
    IN  /\ NoConnInput /\ ~ConnFree(s) /\ ~call.served
        /\ openConns' = IF call.op = "close" THEN openConns \ {call.conn} ELSE openConns
        /\ gone' = gone \cup (openConns \ openConns')
        /\ ConnSend(s, [call EXCEPT !.served = TRUE,
                                    !.list = IF call.op = "close" THEN {} ELSE openConns])
        /\ UNCHANGED connView

\* A client connects, or a connection ends by itself.
CoreConnections ==
    /\ \E c \in Conns \ gone :
          /\ openConns' = IF c \in openConns THEN openConns \ {c} ELSE openConns \cup {c}
          /\ gone' = gone \cup (openConns \cap {c})
    /\ NoConnInput /\ UNCHANGED <<connView, connCalls>>

-----------------------------------------------------------------------------
(***************************************************************************)
(* Answers                                                                 *)
(***************************************************************************)
\* The end of a load; one that follows a close ends that too.
LoadOver(s) ==
    LET call == connCalls[s]
    IN  /\ ConnSend(s, NoConnCall)
        /\ loadingConns' = (loadingConns /\ call.op # "init")
        /\ refreshingConns' = (refreshingConns /\ call.op # "refresh")
        /\ closing' = IF call.conn # NoConn THEN NoConn ELSE closing
        /\ UNCHANGED <<openConns, gone, selectedConn, closeTarget>>

ConnsLoaded(s) ==
    /\ NoConnInput /\ (ConnServed(s, "init") \/ ConnServed(s, "refresh"))
    /\ connRows' = connCalls[s].list /\ snapshot' = TRUE /\ connError' = FALSE
    /\ LoadOver(s)

\* "Keeping the last successful connection snapshot visible."
ConnsLoadFails(s) ==
    /\ ConnMishap /\ connCalls[s].op \in {"init", "refresh"}
    /\ connError' = TRUE /\ UNCHANGED <<connRows, snapshot>>
    /\ LoadOver(s)

\* Whatever dialog is open goes; the rows are loaded, and awaited.
ConnClosed(s) ==
    LET c == connCalls[s].conn
    IN  /\ NoConnInput /\ ConnServed(s, "close")
        /\ selectedConn' = IF selectedConn = c THEN NoConn ELSE selectedConn
        /\ closeTarget' = NoConn
        /\ ConnSend(s, [NoConnCall EXCEPT !.op = "refresh", !.conn = c])
        /\ refreshingConns' = TRUE
        /\ UNCHANGED <<openConns, gone, connRows, snapshot, connError, loadingConns, closing>>

\* The dialog stays.
ConnCloseFails(s) ==
    /\ ConnMishap /\ connCalls[s].op = "close"
    /\ closing' = NoConn
    /\ ConnSend(s, NoConnCall)
    /\ UNCHANGED <<openConns, gone, connRows, snapshot, connError, loadingConns,
                   refreshingConns, selectedConn, closeTarget>>

-----------------------------------------------------------------------------
ConnectionsStart(loading) ==
    /\ gone = {} /\ connRows = {} /\ snapshot = FALSE /\ connError = FALSE
    /\ loadingConns = (loading # {}) /\ refreshingConns = FALSE
    /\ selectedConn = NoConn /\ closeTarget = NoConn /\ closing = NoConn
    /\ connCalls = [s \in ConnSlots |-> IF s \in loading THEN [NoConnCall EXCEPT !.op = "init"] ELSE NoConnCall]
    /\ connInputs = 0 /\ connMishaps = 0

\* The page has just been opened and loads.
ConnectionsInit == openConns \in SUBSET Conns /\ \E s \in ConnSlots : ConnectionsStart({s})

\* The page is not open.
ConnectionsAbsent == openConns = {} /\ ConnectionsStart({})

ConnectionsNext ==
    \/ CancelClose \/ CoreConnections
    \/ \E c \in Conns : SelectConn(c) \/ AskClose(c)
    \/ \E s \in ConnSlots :
          \/ RefreshConns(s) \/ ConfirmClose(s)
          \/ ServeConns(s)
          \/ ConnsLoaded(s) \/ ConnsLoadFails(s) \/ ConnClosed(s) \/ ConnCloseFails(s)

ConnectionsSpec == ConnectionsInit /\ [][ConnectionsNext]_connVars

-----------------------------------------------------------------------------
(***************************************************************************)
(* Properties                                                              *)
(***************************************************************************)
\* Whatever fails, no button stays held and no skeleton up once the calls are over.
ConnectionsComeToRest ==
    ConnsQuiet => ~loadingConns /\ ~refreshingConns /\ closing = NoConn

=============================================================================
