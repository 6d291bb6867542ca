---------------------------- MODULE MCIPProfile ----------------------------
(* Model-checking harness for IPProfile.                                   *)
EXTENDS IPProfile, TLC

\* The workers are interchangeable.
WorkerSymmetry == Permutations(Workers)
=============================================================================
