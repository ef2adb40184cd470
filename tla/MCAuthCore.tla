----------------------------- MODULE MCAuthCore -----------------------------
(* Instantiates AuthCore for TLC: model values for factors, codes,        *)
(* verifiers and requests are bound in the .cfg files.                     *)
EXTENDS AuthCore

(* The two concurrent /token requests are interchangeable.               *)
MCSymmetry == Permutations(Requests)
=============================================================================
