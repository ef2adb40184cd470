------------------------ MODULE SequentialTestSuite ------------------------
(***************************************************************************)
(* SequentialTestSuite of edb/tools/test/runner.py: the suite              *)
(* ParallelTextTestRunner.run picks when num_workers is 1.  run() points   *)
(* the test cluster at the first server connection, then runs every item   *)
(* _sort_tests produced through one StreamingTestSuite, in the calling     *)
(* process, calling the ParallelTextTestResult directly.  An item is a     *)
(* single test or, for a SERIALIZED class, a unittest.TestSuite of its     *)
(* tests; StreamingTestSuite._run hands such a suite to TestSuite.run,     *)
(* which applies the same class-fixture steps to each of its tests and     *)
(* checks result.shouldStop before each one.  After every item run()       *)
(* checks stop_requested.  The model therefore walks the tests of the     *)
(* task list one at a time.                                                *)
(*                                                                         *)
(* `open` is a ghost variable: the classes whose setUpClass succeeded and  *)
(* whose tearDownClass has not run yet.                                    *)
(***************************************************************************)
EXTENDS TestResult

CONSTANT NumConns   \* number of server connections the runner started

ASSUME NumConns \in Nat

VARIABLES
    spc,          \* where SequentialTestSuite.run is
    idx,          \* the item of the task list being run
    pos,          \* the test of that item being run
    pending,      \* result calls of the current test not yet made
    prev,         \* result._previousTestClass
    setupFailed,  \* classes with _classSetupFailed set
    open          \* classes set up and not torn down

vars == <<spc, idx, pos, pending, prev, setupFailed, open, resultVars>>

TypeOK ==
    /\ spc \in {"start", "test", "report", "returned", "raised"}
    /\ idx \in 1..Len(Tasks)
    /\ pos \in 1..Len(Tasks[idx])
    /\ pending \in Seq(Msg)
    /\ prev \in Classes \cup {NoClass}
    /\ setupFailed \subseteq Classes
    /\ open \subseteq Classes
    /\ testsRun \in Nat
    /\ recorded \in [Tests \cup Classes -> Nat]
    /\ stopRequested \in BOOLEAN

Init ==
    /\ spc = "start"
    /\ idx = 1
    /\ pos = 1
    /\ pending = <<>>
    /\ prev = NoClass
    /\ setupFailed = {}
    /\ open = {}
    /\ testsRun = 0
    /\ recorded = [x \in Tests \cup Classes |-> 0]
    /\ stopRequested = FALSE

Current == Tasks[idx][pos]

(* next(iter(self.server_conns)) raises StopIteration when the runner     *)
(* started no servers, which it does when no test case needs set-up.      *)
Start ==
    /\ spc = "start"
    /\ spc' = IF NumConns > 0 THEN "test" ELSE "raised"
    /\ UNCHANGED <<idx, pos, pending, prev, setupFailed, open, resultVars>>

(* test.run(result): startTest, the outcome, then record_test_stats in    *)
(* StreamingTestSuite._run, after the calls td of the class change.       *)
RunCase(t, td) ==
    \E o \in Outcomes :
        pending' = td \o <<[meth |-> "startTest", test |-> t], [meth |-> o, test |-> t],
                           [meth |-> "record_test_stats", test |-> t]>>

(* _tearDownPreviousClass calls tearDownClass of the previous class when  *)
(* the class changes and the previous class was set up; when it raises,   *)
(* unittest reports an addError for that class.                           *)
TearDownCalls(c) ==
    IF c # prev /\ prev \in open
    THEN {<<>>, <<[meth |-> "addError", test |-> prev]>>}
    ELSE {<<>>}

(* StreamingTestSuite._run (or TestSuite.run, for a test of a SERIALIZED  *)
(* suite) on the current test: when its class is not the previous one,    *)
(* tearDownClass of the previous class runs unless its setUpClass failed   *)
(* (and may raise), and setUpClass of the new class runs, a failure being  *)
(* reported as an addError for the class; a test of a class whose         *)
(* setUpClass failed returns without running.                              *)
RunTest ==
    LET t == Current
        c == ClassOf[t]
    IN
    /\ spc = "test"
    /\ \E td \in TearDownCalls(c) :
       \/ /\ c = prev
          /\ IF c \in setupFailed THEN pending' = <<>> ELSE RunCase(t, td)
          /\ UNCHANGED <<setupFailed, open>>
       \/ /\ c # prev
          /\ \/ /\ setupFailed' = setupFailed \ {c}
                /\ open' = (open \ {prev}) \cup {c}
                /\ RunCase(t, td)
             \/ /\ setupFailed' = setupFailed \cup {c}
                /\ open' = open \ {prev}
                /\ pending' = td \o <<[meth |-> "addError", test |-> c]>>
    /\ prev' = c
    /\ spc' = "report"
    /\ UNCHANGED <<idx, pos, resultVars>>

(* One call on ParallelTextTestResult.                                     *)
Report ==
    /\ spc = "report"
    /\ pending # <<>>
    /\ ApplyResult(Head(pending))
    /\ pending' = Tail(pending)
    /\ UNCHANGED <<spc, idx, pos, prev, setupFailed, open>>

(* Mutant of NextTest: the index runs past the end of the task list.      *)
NextTestPastEnd ==
    /\ spc = "report"
    /\ pending = <<>>
    /\ \/ /\ stopRequested
          /\ spc' = "returned"
          /\ UNCHANGED <<idx, pos>>
       \/ /\ ~stopRequested
          /\ pos < Len(Tasks[idx])
          /\ pos' = pos + 1
          /\ spc' = "test"
          /\ UNCHANGED idx
       \/ /\ ~stopRequested
          /\ pos = Len(Tasks[idx])
          /\ idx' = idx + 1
          /\ pos' = 1
          /\ spc' = "test"
    /\ UNCHANGED <<pending, prev, setupFailed, open, resultVars>>

(* Mutant of NextTest: the loop ends one item early.                       *)
NextTestSkipLast ==
    /\ spc = "report"
    /\ pending = <<>>
    /\ \/ /\ stopRequested \/ (pos = Len(Tasks[idx]) /\ idx + 1 >= Len(Tasks))
          /\ spc' = "returned"
          /\ UNCHANGED <<idx, pos>>
       \/ /\ ~stopRequested
          /\ pos < Len(Tasks[idx])
          /\ pos' = pos + 1
          /\ spc' = "test"
          /\ UNCHANGED idx
       \/ /\ ~stopRequested
          /\ pos = Len(Tasks[idx])
          /\ idx + 1 < Len(Tasks)
          /\ idx' = idx + 1
          /\ pos' = 1
          /\ spc' = "test"
    /\ UNCHANGED <<pending, prev, setupFailed, open, resultVars>>

(* The test's calls are made: TestSuite.run breaks on result.shouldStop   *)
(* before the next test of a SERIALIZED suite, and run() breaks on        *)
(* stop_requested after an item; otherwise the next test, or the end of   *)
(* the list, where run() returns.                                          *)
NextTest ==
    /\ spc = "report"
    /\ pending = <<>>
    /\ \/ /\ stopRequested \/ (pos = Len(Tasks[idx]) /\ idx = Len(Tasks))
          /\ spc' = "returned"
          /\ UNCHANGED <<idx, pos>>
       \/ /\ ~stopRequested
          /\ pos < Len(Tasks[idx])
          /\ pos' = pos + 1
          /\ spc' = "test"
          /\ UNCHANGED idx
       \/ /\ ~stopRequested
          /\ pos = Len(Tasks[idx])
          /\ idx < Len(Tasks)
          /\ idx' = idx + 1
          /\ pos' = 1
          /\ spc' = "test"
    /\ UNCHANGED <<pending, prev, setupFailed, open, resultVars>>

Next == Start \/ RunTest \/ Report \/ NextTest

(* One thread runs the suite; it never waits on anything.                  *)
Spec == Init /\ [][Next]_vars /\ WF_vars(Next)

-----------------------------------------------------------------------------
(* Properties.                                                             *)

(* The suite keeps the promise of AbstractSuite, like ParallelTestSuite.  *)
Suite == INSTANCE AbstractSuite WITH returned <- (spc = "returned")

SuiteRefinement == Suite!ASpec

(* When run() returns, every class that was set up has been torn down,    *)
(* as unittest.TestSuite.run does for its last class.                      *)
FixturesTornDown == spc = "returned" => open = {}

=============================================================================
