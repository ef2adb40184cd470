\* With failfast, pool.terminate() may kill a worker between the acquire and
\* the release of the result queue's write lock; the main thread's put of the
\* sentinel then waits on that lock forever.
CONSTANTS
    Workers = {w1, w2}
    A = A
    B = B
    a1 = a1
    a2 = a2
    b1 = b1
    b2 = b2
    Classes <- MCClasses
    Tests <- SmallTests
    ClassOf <- SmallClassOf
    CaseOrder <- MCCaseOrder
    Cases <- SmallCases
    Serialized <- MCSerialized
    Outcomes = {"addSuccess", "addFailure"}
    Failfast = TRUE
    NumConns = 2
    MaxCrashes = 0
    NoHolder = NoHolder
    NoClass = NoClass

SPECIFICATION Spec
PROPERTY RunnerReturns
\* The hang is a state with no enabled step; it is reported through the
\* liveness property rather than as a deadlock.
CHECK_DEADLOCK FALSE
