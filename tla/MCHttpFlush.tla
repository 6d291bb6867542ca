----------------------------- MODULE MCHttpFlush ----------------------------
(* Model-checking harness for HttpFlush.                                   *)
EXTENDS HttpFlush, TLC

\* Streams are interchangeable keys, and so are requests.
FlushSymmetry == Permutations(Streams) \cup Permutations(Requests)
=============================================================================
