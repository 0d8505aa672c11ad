----------------------------- MODULE MCWebLive -----------------------------
(***************************************************************************)
(* The Logs page, or the frame and the Mihomo page: one of them is open.   *)
(***************************************************************************)
EXTENDS LogStream, CoreStatus

liveVars == <<logVars, statusVars>>

WebLiveInit == (LogInit /\ StatusAbsent) \/ (LogAbsent /\ StatusInit)

\* What is not open does nothing: no stream, no interval.
WebLiveNext ==
    \/ polling = {} /\ LogNext /\ UNCHANGED statusVars
    \/ polling # {} /\ StatusNext /\ UNCHANGED logVars

WebLiveSpec == WebLiveInit /\ [][WebLiveNext]_liveVars /\ LogFairness /\ StatusFairness

\* Every variable has its type.
WebLiveTypeOK == LogTypeOK /\ StatusTypeOK

=============================================================================
