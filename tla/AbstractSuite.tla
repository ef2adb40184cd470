---------------------------- MODULE AbstractSuite ----------------------------
(***************************************************************************)
(* What a test suite of edb/tools/test/runner.py promises the result      *)
(* object it is given, whether it runs the tests in a pool of worker      *)
(* processes (ParallelTestSuite) or in the calling process                *)
(* (SequentialTestSuite): the result methods are called in an order a     *)
(* single run of the tests could produce, each test gets at most one       *)
(* outcome and only after its startTest, and run() returns only when a     *)
(* stop was requested or every test has its outcome or its class's        *)
(* setUpClass error.  Each suite is shown to implement this specification *)
(* by an INSTANCE of it whose `returned` is the suite's own "run() has     *)
(* returned".                                                              *)
(***************************************************************************)
EXTENDS TestResult

VARIABLE returned   \* the suite's run() has returned

avars == <<testsRun, recorded, stopRequested, returned>>

(* Tests that have their outcome.                                          *)
Reported == {t \in Tests : recorded[t] > 0}

(* Every test has its outcome, or its class's setUpClass failed and it was *)
(* never started; and every started test has its outcome.                 *)
Complete ==
    /\ testsRun = Cardinality(Reported)
    /\ \A t \in Tests : recorded[t] > 0 \/ recorded[ClassOf[t]] > 0

AInit ==
    /\ testsRun = 0
    /\ recorded = [x \in Tests \cup Classes |-> 0]
    /\ stopRequested = FALSE
    /\ returned = FALSE

(* startTest of a test not yet started.                                    *)
StartTest ==
    /\ ~returned
    /\ testsRun < Cardinality(Tests)
    /\ testsRun' = testsRun + 1
    /\ UNCHANGED <<recorded, stopRequested, returned>>

(* The one outcome of a started test; a failure or an error requests a    *)
(* stop under failfast.                                                    *)
Outcome(t, o) ==
    /\ ~returned
    /\ recorded[t] = 0
    /\ Cardinality(Reported) < testsRun
    /\ recorded' = [recorded EXCEPT ![t] = 1]
    /\ stopRequested' = (stopRequested \/
                         (Failfast /\ o \in {"addFailure", "addError"}))
    /\ UNCHANGED <<testsRun, returned>>

(* An error reported for a class fixture.                                  *)
ClassError(c) ==
    /\ ~returned
    /\ recorded' = [recorded EXCEPT ![c] = @ + 1]
    /\ stopRequested' = (stopRequested \/ Failfast)
    /\ UNCHANGED <<testsRun, returned>>

(* run() returns: after a stop request, or with every test accounted for. *)
Return ==
    /\ ~returned
    /\ stopRequested \/ Complete
    /\ returned' = TRUE
    /\ UNCHANGED <<testsRun, recorded, stopRequested>>

ANext ==
    \/ StartTest
    \/ \E t \in Tests, o \in Outcomes : Outcome(t, o)
    \/ \E c \in Classes : ClassError(c)
    \/ Return

(* The safety part: what may happen.                                       *)
SafetySpec == AInit /\ [][ANext]_avars

(* And a suite whose tests are accounted for does return.                 *)
ASpec == SafetySpec /\ WF_avars(Return)
=============================================================================
