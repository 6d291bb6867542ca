------------------------------ MODULE Writer -------------------------------
(***************************************************************************)
(* The audit record Writer of netcap (src/writer.go). A record written     *)
(* with Write goes through the layers NewWriter stacked: the gzip writer   *)
(* (compress), the bufio writer (buffer), and the file. Write holds w.mu;  *)
(* Close takes w.mu only around closing the gzip writer, then flushes the  *)
(* buffer and closes the file without it. Producers are the goroutines     *)
(* that emit records; one closer goroutine calls Close.                    *)
(* The layers hold records, not bytes: the delimited framing and the CSV   *)
(* projection write one record per call, so only the order and the fate   *)
(* of whole records matter to the properties. The channel writer mode is   *)
(* not modelled.                                                           *)
(***************************************************************************)
EXTENDS Integers, Sequences, FiniteSets

CONSTANTS
    Producers,          \* goroutines that call Write
    RecordsPerProducer, \* records each producer writes
    CloseAfterProducers \* Close is only called once every producer is done

Header == <<"header", 0>>

VARIABLES
    compress, buffer,   \* the Writer's configuration
    gz,                 \* records written into the gzip writer, not yet emitted
    buf,                \* records in the bufio writer, not yet flushed
    file,               \* records that reached the file
    gzClosed, fileClosed,
    sent,               \* per producer: records it has written
    written,            \* history: records whose Write returned, in order
    closer,             \* progress of Close
    crashed             \* a panic ended the program

vars == <<compress, buffer, gz, buf, file, gzClosed, fileClosed, sent, written,
          closer, crashed>>

(* The layer a record enters: the top of the stack NewWriter built.        *)
(* Appending to a layer is what the writer below it sees next.             *)
Put(rec) ==
    IF compress THEN /\ gz' = Append(gz, rec) /\ UNCHANGED <<buf, file>>
    ELSE IF buffer THEN /\ buf' = Append(buf, rec) /\ UNCHANGED <<gz, file>>
    ELSE /\ file' = Append(file, rec) /\ UNCHANGED <<gz, buf>>

(* Writing into a closed gzip writer or a closed file returns an error,    *)
(* and Write panics on it; the bufio writer accepts data after the file    *)
(* closed as long as it does not need to flush.                            *)
WriteFails ==
    IF compress THEN gzClosed ELSE IF buffer THEN FALSE ELSE fileClosed

(* Writer.Write -> WriteProto or WriteCSV, under w.mu.                     *)
Write(p) ==
    /\ ~crashed
    /\ sent[p] < RecordsPerProducer
    /\ IF WriteFails
       THEN /\ crashed' = TRUE
            /\ UNCHANGED <<gz, buf, file, sent, written>>
       ELSE /\ Put(<<p, sent[p] + 1>>)
            /\ sent' = [sent EXCEPT ![p] = @ + 1]
            /\ written' = Append(written, <<p, sent[p] + 1>>)
            /\ UNCHANGED crashed
    /\ UNCHANGED <<compress, buffer, gzClosed, fileClosed, closer>>

(* pgzip emits a finished block to the writer below it.                    *)
GzipEmit ==
    /\ ~crashed /\ gz # <<>> /\ ~gzClosed
    /\ IF buffer THEN /\ buf' = Append(buf, Head(gz)) /\ UNCHANGED file
                 ELSE /\ file' = Append(file, Head(gz)) /\ UNCHANGED buf
    /\ gz' = Tail(gz)
    /\ UNCHANGED <<compress, buffer, gzClosed, fileClosed, sent, written, closer, crashed>>

(* bufio flushes when its buffer fills up, inside a Write or a gzip emit.  *)
BufFull ==
    /\ ~crashed /\ buf # <<>> /\ ~fileClosed
    /\ file' = file \o buf
    /\ buf' = <<>>
    /\ UNCHANGED <<compress, buffer, gz, gzClosed, fileClosed, sent, written, closer, crashed>>

AllSent == \A p \in Producers : sent[p] = RecordsPerProducer

\* Mutant of CloseGzip: the gzip writer is closed without being flushed,
\* dropping the data it still holds.
CloseGzipWithoutFlush ==
    /\ ~crashed /\ closer = "idle"
    /\ CloseAfterProducers => AllSent
    /\ IF compress THEN /\ gz' = <<>> /\ gzClosed' = TRUE
                   ELSE UNCHANGED <<gz, gzClosed>>
    /\ closer' = "flush"
    /\ UNCHANGED <<compress, buffer, buf, file, fileClosed, sent, written, crashed>>

(* Writer.Close, first step: CloseGzipWriters under w.mu (Flush, Close).   *)
CloseGzip ==
    /\ ~crashed /\ closer = "idle"
    /\ CloseAfterProducers => AllSent
    /\ IF compress
       THEN /\ IF buffer THEN /\ buf' = buf \o gz /\ UNCHANGED file
                         ELSE /\ file' = file \o gz /\ UNCHANGED buf
            /\ gz' = <<>>
            /\ gzClosed' = TRUE
       ELSE UNCHANGED <<gz, buf, file, gzClosed>>
    /\ closer' = "flush"
    /\ UNCHANGED <<compress, buffer, fileClosed, sent, written, crashed>>

\* Mutant of FlushBuffer: the buffer is flushed only when there is no gzip
\* layer, as if closing the gzip writer flushed the buffer below it.
FlushBufferUnlessCompressed ==
    /\ ~crashed /\ closer = "flush"
    /\ IF buffer /\ ~compress THEN /\ file' = file \o buf /\ buf' = <<>>
                              ELSE UNCHANGED <<file, buf>>
    /\ closer' = "file"
    /\ UNCHANGED <<compress, buffer, gz, gzClosed, fileClosed, sent, written, crashed>>

(* Writer.Close, second step: FlushWriters(w.bWriter), without w.mu.       *)
FlushBuffer ==
    /\ ~crashed /\ closer = "flush"
    /\ IF buffer THEN /\ file' = file \o buf /\ buf' = <<>>
                 ELSE UNCHANGED <<file, buf>>
    /\ closer' = "file"
    /\ UNCHANGED <<compress, buffer, gz, gzClosed, fileClosed, sent, written, crashed>>

(* Writer.Close, last step: CloseFile reports the name and the size.       *)
CloseFile ==
    /\ ~crashed /\ closer = "file"
    /\ fileClosed' = TRUE
    /\ closer' = "closed"
    /\ UNCHANGED <<compress, buffer, gz, buf, file, gzClosed, sent, written, crashed>>

(* Nothing is left to do: the writer is closed and the producers are done, *)
(* or a panic ended the program.                                           *)
Finished ==
    /\ crashed \/ (closer = "closed" /\ AllSent)
    /\ UNCHANGED vars

(* NewWriter for a file (not a channel) in each of its four layer stacks,  *)
(* with the file header already written by WriteHeader.                    *)
Init ==
    /\ compress \in BOOLEAN /\ buffer \in BOOLEAN
    /\ gz = IF compress THEN <<Header>> ELSE <<>>
    /\ buf = IF ~compress /\ buffer THEN <<Header>> ELSE <<>>
    /\ file = IF ~compress /\ ~buffer THEN <<Header>> ELSE <<>>
    /\ gzClosed = FALSE /\ fileClosed = FALSE
    /\ sent = [p \in Producers |-> 0]
    /\ written = <<>>
    /\ closer = "idle"
    /\ crashed = FALSE

Next ==
    \/ \E p \in Producers : Write(p)
    \/ GzipEmit \/ BufFull
    \/ CloseGzip \/ FlushBuffer \/ CloseFile
    \/ Finished

Spec == Init /\ [][Next]_vars

-----------------------------------------------------------------------------
(* Spec 4.1 and 6, as the append-only log AppendLog: the records written   *)
(* so far are what the file, the bufio buffer and the gzip writer hold, in *)
(* that order; moving data down the layers never changes that sequence,   *)
(* the file only grows by a prefix of it, and Close completes only once    *)
(* the file holds all of it.                                               *)
AL == INSTANCE AppendLog
        WITH Records <- {Header} \cup (Producers \X (1..RecordsPerProducer)),
             log <- file \o buf \o gz, stored <- file,
             closed <- fileClosed, halted <- crashed

ImplementsAppendLog == AL!ASpec

(* Spec section 8: once Close has returned, the file holds the header and  *)
(* then exactly the records whose Write returned, in the order written.    *)
CloseDeliversAll ==
    (closer = "closed" /\ ~crashed) => file = <<Header>> \o written
=============================================================================
