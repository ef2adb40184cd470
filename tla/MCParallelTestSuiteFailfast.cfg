\* With failfast and no server connections (test cases without setup): a
\* failure stops the pool while workers may still be running.  A worker
\* process may also die once, anywhere: the pool replaces it, and the
\* results already in the main process stay consistent.
CONSTANTS
    Workers = {w1, w2}
    A = A
    B = B
    a1 = a1
    a2 = a2
    b1 = b1
    b2 = b2
    Classes <- MCClasses
    Tests <- SmallTests
    ClassOf <- SmallClassOf
    CaseOrder <- MCCaseOrder
    Cases <- SmallCases
    Serialized <- MCSerialized
    Outcomes = {"addSuccess", "addFailure"}
    Failfast = TRUE
    NumConns = 0
    MaxCrashes = 1
    NoHolder = NoHolder
    NoClass = NoClass

SPECIFICATION Spec
INVARIANT OutcomesComplete
PROPERTY SuiteSafetyRefinement
\* After pool.terminate() a worker killed while it holds the result
\* queue's write lock leaves the main thread blocked for good: that hang is
\* what MCParallelTestSuiteHang checks; here only the safety properties are.
CHECK_DEADLOCK FALSE
