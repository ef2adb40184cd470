------------------------------ MODULE TestCases ------------------------------
(***************************************************************************)
(* The test cases ParallelTextTestRunner.run hands to a suite, and the    *)
(* task list _sort_tests makes of them (edb/tools/test/runner.py).  Both   *)
(* ParallelTestSuite and SequentialTestSuite run this list.                *)
(***************************************************************************)
EXTENDS Naturals, Sequences, FiniteSets, SequencesExt

CONSTANTS
    Classes,      \* the test case classes
    Tests,        \* the test cases
    ClassOf,      \* ClassOf[t]: the class of test t
    CaseOrder,    \* the classes in the insertion order of the `cases` dict
    Cases,        \* Cases[c]: the tests of class c, in order
    Serialized,   \* classes with SERIALIZED = True
    Outcomes,     \* the result calls test.run can end with
    Failfast,     \* the runner's failfast flag
    NoClass       \* no class fixture set up yet

ASSUME /\ Serialized \subseteq Classes
       /\ Outcomes \subseteq {"addSuccess", "addFailure", "addError", "addSkip"}
       /\ Failfast \in BOOLEAN

(* Mutant of SortTests: a SERIALIZED class's tests become separate tasks. *)
SortTestsUngrouped ==
    FlattenSeq([i \in 1..Len(CaseOrder) |->
                 [j \in 1..Len(Cases[CaseOrder[i]]) |->
                    <<Cases[CaseOrder[i]][j]>>]])

(* _sort_tests: SERIALIZED classes first, each as one suite, then every   *)
(* test of the other classes as a task of its own.                        *)
SortTests ==
    LET ser == SelectSeq(CaseOrder, LAMBDA c : c \in Serialized)
        par == SelectSeq(CaseOrder, LAMBDA c : c \notin Serialized)
    IN  [i \in 1..Len(ser) |-> Cases[ser[i]]]
        \o FlattenSeq([i \in 1..Len(par) |->
                        [j \in 1..Len(Cases[par[i]]) |-> <<Cases[par[i]][j]>>]])

Tasks == SortTests
=============================================================================
