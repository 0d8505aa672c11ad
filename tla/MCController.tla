---------------------------- MODULE MCController ----------------------------
(***************************************************************************)
(* Controller under a bounded environment: MaxEvents requests, signals and *)
(* deaths of the controller or a core in a behaviour.  What the program    *)
(* does on its own, and every boot, is not bounded.                        *)
(***************************************************************************)
EXTENDS Controller

CONSTANT MaxEvents
ASSUME MaxEventsAssumption == MaxEvents \in Nat

VARIABLE events

mcvars == <<cvars, events>>

Environment ==
    \/ Sigterm \/ Crash
    \/ phase \in Accepting /\ (\E c \in Requests : Call(c)) /\ UNCHANGED phase
    \/ \E p \in Procs : CoreDies(p) /\ UNCHANGED phase

Program ==
    \/ MainStep
    \/ \E t \in Threads : ServiceStep(t)
    \/ \E p \in Procs : Waiter(p) /\ UNCHANGED phase
    \/ \E p \in Procs : ReapOrphan(p)

MCInit == CInit /\ events = 0

MCNext ==
    \/ events < MaxEvents /\ Environment /\ events' = events + 1
    \/ Program /\ UNCHANGED events

MCSpec == MCInit /\ [][MCNext]_mcvars
MCFairSpec == MCSpec /\ CFairness

=============================================================================
