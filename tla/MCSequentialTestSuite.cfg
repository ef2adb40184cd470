\* Without failfast: every test runs, and setUpClass of either class may fail.
CONSTANTS
    A = A
    B = B
    C = C
    D = D
    a1 = a1
    a2 = a2
    b1 = b1
    b2 = b2
    c1 = c1
    d1 = d1
    d2 = d2
    Classes <- MCClasses
    Tests <- MCTests
    ClassOf <- MCClassOf
    CaseOrder <- MCCaseOrder
    Cases <- MCCases
    Serialized <- MCSerialized
    Outcomes = {"addSuccess", "addFailure", "addError", "addSkip"}
    Failfast = FALSE
    NumConns = 1
    NoClass = NoClass

SPECIFICATION Spec
INVARIANT TypeOK
PROPERTY SuiteRefinement
\* run() returning, or raising, ends the process's use of the suite.
CHECK_DEADLOCK FALSE
