------------------------------ MODULE UnlockTest ------------------------------
(***************************************************************************)
(* The Unlock & Connectivity Test page (src/web/src/app/unlock-test/       *)
(* page.tsx) over the service that probes the targets one at a time        *)
(* (src/backend/internal/service/unlocktest/service.go).                   *)
(*                                                                         *)
(* Of a result is kept whether it is awaited; verdict, region and time     *)
(* only show.  The targets are the server's configuration, each with an    *)
(* id, and do not change: the server answers the run of all targets with   *)
(* an array and that of one with an object, so that the branches of the    *)
(* page for any other answer (:85-87 and :113) are not taken.  A target    *)
(* without an id would be run as all targets, and stay PROBING.            *)
(***************************************************************************)
EXTENDS Naturals

CONSTANTS
    Targets,
    TestSlots,        \* calls under way at once
    MaxTestInputs,    \* bound on inputs
    MaxTestMishaps    \* bound on failed calls

ASSUME UnlockTestAssumption == MaxTestInputs \in Nat /\ MaxTestMishaps \in Nat

VARIABLES
    targets,        \* those listed
    targetsLoading,
    isTestingAll,
    results,        \* of each target, whether it is shown as PROBING
    testCalls,
    testInputs, testMishaps

testView == <<targets, targetsLoading, isTestingAll, results>>
testVars == <<testView, testCalls, testInputs, testMishaps>>

TestCalls ==
    [op : {"none", "list", "all", "single"},
     asked : SUBSET Targets,       \* to be tested
     open : SUBSET Targets]        \* not probed yet

NoTestCall == [op |-> "none", asked |-> {}, open |-> {}]

UnlockTestTypeOK ==
    /\ targets \subseteq Targets /\ targetsLoading \in BOOLEAN /\ isTestingAll \in BOOLEAN
    /\ results \in [Targets -> BOOLEAN]
    /\ testCalls \in [TestSlots -> TestCalls]

-----------------------------------------------------------------------------
TestInput == testInputs < MaxTestInputs /\ testInputs' = testInputs + 1 /\ UNCHANGED testMishaps

TestMishap == testMishaps < MaxTestMishaps /\ testMishaps' = testMishaps + 1 /\ UNCHANGED testInputs

NoTestInput == UNCHANGED <<testInputs, testMishaps>>

TestSend(s, call) == testCalls' = [testCalls EXCEPT ![s] = call]

TestFree(s) == testCalls[s].op = "none"

TestsQuiet == \A s \in TestSlots : TestFree(s)

TestRun(op, T) == [op |-> op, asked |-> T, open |-> T]

\* What is shown of the targets in T.
Shows(T, loading) == results' = [t \in Targets |-> IF t \in T THEN loading ELSE results[t]]

-----------------------------------------------------------------------------
(***************************************************************************)
(* Inputs.  TEST ALL may be pressed while single targets are tested.       *)
(***************************************************************************)
RunAllTests(s) ==
    /\ TestInput /\ TestFree(s) /\ ~targetsLoading /\ targets # {} /\ ~isTestingAll
    /\ TestSend(s, TestRun("all", Targets))
    /\ isTestingAll' = TRUE
    /\ Shows(targets, TRUE)
    /\ UNCHANGED <<targets, targetsLoading>>

RunSingleTest(s, t) ==
    /\ TestInput /\ TestFree(s) /\ t \in targets /\ ~targetsLoading
    /\ ~results[t] /\ ~isTestingAll
    /\ TestSend(s, TestRun("single", {t}))
    /\ Shows({t}, TRUE)
    /\ UNCHANGED <<targets, targetsLoading, isTestingAll>>

-----------------------------------------------------------------------------
(***************************************************************************)
(* The service                                                             *)
(***************************************************************************)
\* RunTest, under the service's mutex for as long as it takes; RunAll runs it
\* for every target at once, so that the mutex puts them in some order.
RunTest(s, t) ==
    /\ NoTestInput /\ t \in testCalls[s].open
    /\ TestSend(s, [testCalls[s] EXCEPT !.open = @ \ {t}])
    /\ UNCHANGED testView

-----------------------------------------------------------------------------
(***************************************************************************)
(* Answers                                                                 *)
(***************************************************************************)
TestAnswered(s, op) == testCalls[s].op = op /\ testCalls[s].open = {} /\ TestSend(s, NoTestCall)

\* A list that fails is an empty list.
TargetsListed(s) ==
    /\ TestAnswered(s, "list")
    /\ \/ NoTestInput /\ targets' = Targets
       \/ TestMishap /\ targets' = {}
    /\ targetsLoading' = FALSE
    /\ Shows(Targets, FALSE)
    /\ UNCHANGED isTestingAll

\* The answer takes the place of all results.
AllTested(s) ==
    /\ NoTestInput /\ TestAnswered(s, "all")
    /\ Shows(Targets, FALSE)
    /\ isTestingAll' = FALSE
    /\ UNCHANGED <<targets, targetsLoading>>

\* What is probed for another call is no longer shown as probed either.
AllTestsFail(s) ==
    /\ TestMishap /\ testCalls[s].op = "all" /\ TestSend(s, NoTestCall)
    /\ Shows(targets, FALSE)
    /\ isTestingAll' = FALSE
    /\ UNCHANGED <<targets, targetsLoading>>

SingleTested(s) ==
    /\ NoTestInput /\ TestAnswered(s, "single")
    /\ Shows(testCalls[s].asked, FALSE)
    /\ UNCHANGED <<targets, targetsLoading, isTestingAll>>

\* Shown as failed; the service may have probed or not.
SingleTestFails(s) ==
    /\ TestMishap /\ testCalls[s].op = "single" /\ TestSend(s, NoTestCall)
    /\ Shows(testCalls[s].asked, FALSE)
    /\ UNCHANGED <<targets, targetsLoading, isTestingAll>>

-----------------------------------------------------------------------------
UnlockTestStart(listing) ==
    /\ targets = {} /\ targetsLoading = (listing # {}) /\ isTestingAll = FALSE
    /\ results = [t \in Targets |-> FALSE]
    /\ testCalls = [s \in TestSlots |-> IF s \in listing THEN TestRun("list", {}) ELSE NoTestCall]
    /\ testInputs = 0 /\ testMishaps = 0

\* The page has just been opened and lists the targets.
UnlockTestInit == \E s \in TestSlots : UnlockTestStart({s})

\* The page is not open.
UnlockTestAbsent == UnlockTestStart({})

UnlockTestNext ==
    \E s \in TestSlots :
       \/ RunAllTests(s) \/ TargetsListed(s) \/ AllTested(s) \/ AllTestsFail(s)
       \/ SingleTested(s) \/ SingleTestFails(s)
       \/ \E t \in Targets : RunSingleTest(s, t) \/ RunTest(s, t)

UnlockTestSpec == UnlockTestInit /\ [][UnlockTestNext]_testVars

-----------------------------------------------------------------------------
(***************************************************************************)
(* Properties                                                              *)
(***************************************************************************)
\* Whatever fails, nothing is PROBING and no button held once the calls are
\* over, though the tests of all targets and of single ones run into each other.
TestsComeToRest ==
    TestsQuiet => ~targetsLoading /\ ~isTestingAll /\ \A t \in Targets : ~results[t]

=============================================================================
