-------------------------- MODULE MCTcpConnection --------------------------
(* Model-checking harness for TcpConnection.                               *)
EXTENDS TcpConnection

\* A server banner that reveals HTTP, so the decoder upgrade happens.
MCBanners == {{"HTTP"}}

\* skip as ReassembledSG sees it: -1 (stream start not seen) and a gap.
MCSkipValues == {-1, 1}
=============================================================================
