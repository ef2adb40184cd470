\* Without failfast the run always completes: the main thread returns
\* once every task is collected and the monitor has drained the queue.
CONSTANTS
    Workers = {w1, w2}
    A = A
    B = B
    a1 = a1
    a2 = a2
    b1 = b1
    b2 = b2
    Classes <- MCClasses
    Tests <- SmallTests
    ClassOf <- SmallClassOf
    CaseOrder <- MCCaseOrder
    Cases <- SmallCases
    Serialized <- MCSerialized
    Outcomes = {"addSuccess", "addFailure"}
    Failfast = FALSE
    NumConns = 2
    MaxCrashes = 0
    NoHolder = NoHolder
    NoClass = NoClass

SPECIFICATION Spec
INVARIANT TypeOK
INVARIANT SerializedExclusive
PROPERTY SuiteRefinement
PROPERTY RunnerReturns
\* The runner stops for good once ParallelTestSuite.run has returned.
CHECK_DEADLOCK FALSE
