------------------------------ MODULE MCWriter ------------------------------
(* Model-checking harness for Writer.                                      *)
EXTENDS Writer, TLC

\* The producers are interchangeable.
ProducerSymmetry == Permutations(Producers)
=============================================================================
