----------------------- MODULE MCSequentialTestSuite -----------------------
(* SERIALIZED classes A (tests a1, a2) and D (tests d1, d2), and classes  *)
(* B (tests b1, b2) and C (test c1), in the dict order A, B, C, D:        *)
(* _sort_tests yields the items <<a1, a2>>, <<d1, d2>>, <<b1>>, <<b2>>,   *)
(* <<c1>>, so the suite runs two TestSuite items out of dict order, then  *)
(* single tests, and changes class four times.                            *)
EXTENDS SequentialTestSuite

CONSTANTS A, B, C, D, a1, a2, b1, b2, c1, d1, d2

MCClasses == {A, B, C, D}
MCTests == {a1, a2, b1, b2, c1, d1, d2}
MCClassOf == (a1 :> A) @@ (a2 :> A) @@ (b1 :> B) @@ (b2 :> B) @@ (c1 :> C)
             @@ (d1 :> D) @@ (d2 :> D)
MCCaseOrder == <<A, B, C, D>>
MCCases == (A :> <<a1, a2>>) @@ (B :> <<b1, b2>>) @@ (C :> <<c1>>)
           @@ (D :> <<d1, d2>>)
MCSerialized == {A, D}
=============================================================================
