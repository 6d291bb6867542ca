----------------------------- MODULE AppendLog -----------------------------
(***************************************************************************)
(* What an audit record file promises (spec 4.1 and 6): records are        *)
(* appended one at a time while the file is open; the file durably holds  *)
(* a prefix of what was appended, which grows only by whole records; the  *)
(* file is closed only once it holds everything appended, and nothing is  *)
(* appended after that. A panic on a failed write may end the program at  *)
(* any time.                                                               *)
(***************************************************************************)
EXTENDS Sequences, SequencesExt

CONSTANTS Records   \* records that may be written

VARIABLES
    log,        \* every record appended, in order (header first)
    stored,     \* the part of log the file holds
    closed,     \* the file has been closed
    halted      \* the program stopped on a panic

avars == <<log, stored, closed, halted>>

\* The file keeps what it holds or grows to a longer prefix of l.
Grown(l) == {stored} \cup {SubSeq(l, 1, n) : n \in Len(stored) + 1 .. Len(l)}

\* A record is appended; a writer without buffers stores it at once.
Append1(r) ==
    /\ ~closed /\ ~halted
    /\ log' = Append(log, r)
    /\ stored' \in Grown(log')
    /\ UNCHANGED <<closed, halted>>

Persist ==
    /\ ~halted
    /\ stored' \in Grown(log) \ {stored}
    /\ UNCHANGED <<log, closed, halted>>

Close ==
    /\ ~closed /\ ~halted
    /\ stored = log
    /\ closed' = TRUE
    /\ UNCHANGED <<log, stored, halted>>

Halt ==
    /\ ~halted
    /\ halted' = TRUE
    /\ UNCHANGED <<log, stored, closed>>

AInit ==
    /\ log \in Seq(Records) /\ Len(log) = 1
    /\ stored \in {<<>>, log}
    /\ closed = FALSE /\ halted = FALSE

ANext == (\E r \in Records : Append1(r)) \/ Persist \/ Close \/ Halt

ASpec == AInit /\ [][ANext]_avars
=============================================================================
