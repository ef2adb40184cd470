----------------------------- MODULE TestResult -----------------------------
(***************************************************************************)
(* ParallelTextTestResult (edb/tools/test/runner.py), the result object   *)
(* of the main process.  Only what the suites and the properties read is   *)
(* kept: result.testsRun, the outcome calls made for each test or class,  *)
(* and suite.stop_requested (with result.shouldStop, which unittest's      *)
(* failfast decorator sets at the same moment).                            *)
(***************************************************************************)
EXTENDS TestCases

VARIABLES
    testsRun,       \* result.testsRun
    recorded,       \* recorded[x]: outcome calls made for test or class x
    stopRequested   \* suite.stop_requested

resultVars == <<testsRun, recorded, stopRequested>>

(* The unittest result methods ChannelingTestResultMeta forwards.         *)
Meths == {"startTest", "record_test_stats"} \cup Outcomes \cup {"addError"}
Msg == [meth : Meths, test : Tests \cup Classes]

(* The ParallelTextTestResult method a call names: startTest counts the   *)
(* test; every outcome method records it (and reports it to the renderer); *)
(* addFailure and addError set suite.stop_requested under failfast;        *)
(* record_test_stats only keeps timing.                                    *)
ApplyResult(m) ==
    /\ testsRun' = IF m.meth = "startTest" THEN testsRun + 1 ELSE testsRun
    /\ recorded' = IF m.meth \in Outcomes \cup {"addError"}
                   THEN [recorded EXCEPT ![m.test] = @ + 1]
                   ELSE recorded
    /\ stopRequested' = (stopRequested \/
                         (Failfast /\ m.meth \in {"addFailure", "addError"}))
=============================================================================
