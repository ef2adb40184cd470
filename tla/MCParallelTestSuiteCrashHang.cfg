\* A worker process dies while running a task: the task is never completed
\* and ParallelTestSuite.run never returns.
CONSTANTS
    Workers = {w1, w2}
    A = A
    B = B
    a1 = a1
    a2 = a2
    b1 = b1
    b2 = b2
    Classes <- MCClasses
    Tests <- SmallTests
    ClassOf <- SmallClassOf
    CaseOrder <- MCCaseOrder
    Cases <- SmallCases
    Serialized <- MCSerialized
    Outcomes = {"addSuccess", "addFailure"}
    Failfast = FALSE
    NumConns = 2
    MaxCrashes = 1
    NoHolder = NoHolder
    NoClass = NoClass

SPECIFICATION Spec
PROPERTY RunnerReturns
\* The hang is a stuttering main thread; deadlock is the same symptom.
CHECK_DEADLOCK FALSE
