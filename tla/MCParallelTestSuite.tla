------------------------ MODULE MCParallelTestSuite ------------------------
(* Two workers, a SERIALIZED class A with two tests and a class B with two *)
(* tests: _sort_tests yields the tasks <<a1, a2>>, <<b1>>, <<b2>>, so a    *)
(* worker that ran B's first test can meet class A nowhere, and the two    *)
(* B tasks can run on different workers and each set up class B.          *)
EXTENDS ParallelTestSuite

CONSTANTS A, B, a1, a2, b1, b2

MCClasses == {A, B}
MCTests == {a1, a2, b1, b2}
MCClassOf == (a1 :> A) @@ (a2 :> A) @@ (b1 :> B) @@ (b2 :> B)
MCCaseOrder == <<A, B>>
MCCases == (A :> <<a1, a2>>) @@ (B :> <<b1, b2>>)
MCSerialized == {A}

(* A smaller suite for the failfast runs: A = <<a1, a2>> serialized, B =  *)
(* <<b1>>.                                                                 *)
SmallTests == {a1, a2, b1}
SmallClassOf == (a1 :> A) @@ (a2 :> A) @@ (b1 :> B)
SmallCases == (A :> <<a1, a2>>) @@ (B :> <<b1>>)
=============================================================================
