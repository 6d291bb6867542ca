--------------------------- MODULE TcpConnection ---------------------------
(***************************************************************************)
(* One bi-directional TCP connection of the netcap reassembly engine       *)
(* (src/unnamed/part_004, package encoder):                                *)
(*   - the single packet-ingress goroutine running ReassemblePacket, which *)
(*     calls tcpConnection.Accept, ReassembledSG (feedData) and, on the    *)
(*     closing packet, ReassemblyComplete;                                 *)
(*   - the two stream-reader goroutines, one per reader object, that       *)
(*     receive fragments from their data channel and append them to their *)
(*     DataSlice (spec section 4.6; reader code is not under src/);        *)
(*   - the end-of-capture sequence of CleanupReassembly.                   *)
(* The gopacket assembler, the TCP FSM and the option checker are library  *)
(* code: their verdicts are inputs of the packet step.                     *)
(***************************************************************************)
EXTENDS Integers, Sequences, FiniteSets, SequencesExt

CONSTANTS
    Timestamps,          \* capture timestamps a packet may carry
    MaxPackets,          \* bound on the packets of the capture
    ChanCap,             \* capacity of a reader's data channel
    SkipValues,          \* values of skip the assembler may report
    Banners,             \* server banners, as sets of keywords found in them
    InitialDecoder,      \* decoder the stream factory chose from the ports
    Disabled,            \* protocols whose decoding is switched off
    AllowMissingInit, IgnoreFSMerr, NoOptCheck, Checksum, WaitForConnections,
    FlushEvery,          \* c.FlushEvery: packets between periodic flushes
    CloseInactiveTimeOut \* c.CloseInactiveTimeOut, in timestamp units

ASSUME /\ Timestamps \subseteq Nat /\ MaxPackets \in Nat \ {0}
       /\ ChanCap \in Nat \ {0} /\ SkipValues \subseteq {-1, 0, 1}
       /\ InitialDecoder \in {"tcp", "http", "ssh", "pop3", "https"}
       /\ Disabled \subseteq {"http", "ssh", "pop3"}
       /\ FlushEvery \in Nat \ {0} /\ CloseInactiveTimeOut \in Nat

\* The two reader objects of the connection. Reader "A" follows the network
\* flow of the endpoint that sent the first packet ("orig"), "B" the other.
Readers == {"A", "B"}
Sides   == {"orig", "resp"}
NetOf   == [A |-> "orig", B |-> "resp"]
Other(r) == IF r = "A" THEN "B" ELSE "A"
Dirs    == {"c2s", "s2c"}
NoFrag  == [id |-> 0]
NoTs    == -1
Phases  == {"capture", "wait", "flush", "exit"}

Frag == [id : 1..MaxPackets, ts : Timestamps, dir : Dirs, side : Sides]

VARIABLES
    count,          \* TCP packets of this connection seen
    others,         \* TCP packets of other connections seen; count in the
                    \* code is count + others
    stats,          \* rejectFsm, rejectOpt, rejectConnFsm of reassemblyStats
    fsmerr,         \* t.fsmerr
    firstPacket,    \* t.firstPacket
    lastPkt,        \* timestamp and sender of the last packet (assembler)
    client,         \* which reader object t.client points to
    chan,           \* DataChan() of each reader
    inflight,       \* fragment a reader has received and not yet stored
    data,           \* DataSlice() of each reader
    closed,         \* the reader's channel has been closed
    done,           \* the reader goroutine has finished (wait group)
    completed,      \* ReassemblyComplete has run
    savedConv,      \* the fragments of the saved conversation, in order
    decoder,        \* t.decoder
    fed,            \* history: ids of all fragments passed to feedData
    phase           \* progress of the ingress goroutine / CleanupReassembly

vars == <<count, others, stats, fsmerr, firstPacket, lastPkt, client, chan,
          inflight, data, closed, done, completed, savedConv, decoder,
          fed, phase>>

Server == Other(client)

(* tcpConnection.Accept: FSM check, option check, checksum, with their     *)
(* statistics. Returns the new statistics and the verdict.                 *)
Accept(fsmOk, optOk, csumOk) ==
    LET passFsm == fsmOk \/ IgnoreFSMerr
        optRej  == passFsm /\ ~optOk
        passOpt == passFsm /\ (optOk \/ NoOptCheck)
        csumRej == passOpt /\ Checksum /\ ~csumOk
    IN [rejectFsm     |-> stats.rejectFsm + (IF fsmOk THEN 0 ELSE 1),
        rejectOpt     |-> stats.rejectOpt + (IF optRej THEN 1 ELSE 0)
                                          + (IF csumRej THEN 1 ELSE 0),
        rejectConnFsm |-> stats.rejectConnFsm
                           + (IF ~fsmOk /\ ~fsmerr THEN 1 ELSE 0),
        accept        |-> passOpt /\ ~csumRej]

(* ReassembledSG's decision to hand data to a reader: the skip policy, the *)
(* disabled protocols and the HTTPS exclusion, and a non-empty payload.    *)
Delivers(skip, hasData) ==
    /\ \/ skip = 0
       \/ skip = -1 /\ AllowMissingInit
    /\ InitialDecoder \notin Disabled
    /\ InitialDecoder # "https"
    /\ hasData

(* The direction sg.Info() reports for a packet sent by side. It is the   *)
(* assembler's, fixed by the connection's first packet (always from orig *)
(* here), and does not follow netcap's flip of t.client.                  *)
DirOf(side) == IF side = "orig" THEN "c2s" ELSE "s2c"

(* The reader feedData sends a fragment of direction d to.                 *)
ReaderFor(d) == IF d = "c2s" THEN client ELSE Server

Retag(s, d) == [i \in DOMAIN s |-> [s[i] EXCEPT !.dir = d]]

Ids(s) == {s[i].id : i \in DOMAIN s}

(* Decoder upgrade by sniffing the server banner.                          *)
Upgrade(dec, banner) ==
    IF dec # "tcp" THEN dec
    ELSE CASE "HTTP" \in banner -> "http"
           [] "SSH"  \in banner -> "ssh"
           [] "POP"  \in banner -> "pop3"
           [] OTHER             -> dec

(* One pass of Go's insertionSort (which sort.Sort runs on slices of up to *)
(* 12 elements, 6 before Go 1.19): the new element is swapped left while   *)
(* its capture timestamp is Before that of its left neighbour.             *)
RECURSIVE InsertTs(_, _)
InsertTs(x, s) ==
    IF s = <<>> \/ ~(x.ts < Last(s).ts) THEN Append(s, x)
    ELSE Append(InsertTs(x, Front(s)), Last(s))

(* sort.Sort(h.merged) by fragment timestamp.                              *)
RECURSIVE SortByTs(_)
SortByTs(s) == IF s = <<>> THEN s ELSE InsertTs(Last(s), SortByTs(Front(s)))

(* tcpConnection.ReassemblyComplete with the context (timestamp, network   *)
(* flow) of the packet that triggered it: flip when that packet is older   *)
(* than the first one and comes from the server side, save the merged      *)
(* conversation (ConversationRaw), close both channels, upgrade decoder.   *)
ReassemblyComplete(fp, ctx, banner) ==
    LET older   == fp # ctx.ts /\ fp > ctx.ts
        flip    == older /\ NetOf[client] # ctx.side
        client2 == IF flip THEN Server ELSE client
        data2   == IF flip
                   THEN [r \in Readers |->
                          Retag(data[r], IF r = client2 THEN "c2s" ELSE "s2c")]
                   ELSE data
    IN /\ firstPacket' = IF older THEN ctx.ts ELSE fp
       /\ client' = client2
       /\ data' = data2
       /\ savedConv' = SortByTs(data2[client2] \o data2[Other(client2)])
       /\ closed' = [r \in Readers |-> TRUE]
       /\ decoder' = Upgrade(decoder, banner)
       /\ completed' = TRUE

\* Mutant of CanSend: the channel is taken to hold one more element than
\* its capacity.
CanSendPastCapacity(r) == Len(chan[r]) <= ChanCap

(* The send on a reader's DataChan() in feedData completes without         *)
(* blocking: the buffered channel has room.                                *)
CanSend(r) == Len(chan[r]) < ChanCap

(* ReassemblePacket for a TCP packet of this connection: Accept, then the  *)
(* ReassembledSG delivery to the reader of its direction (a blocking send  *)
(* on that reader's channel), then ReassemblyComplete if the assembler     *)
(* closes the connection on it (FIN/RST). After completion the connection  *)
(* stays in the pool: later packets only pass through Accept. The periodic *)
(* flush this packet may trigger leaves this connection alone: its last    *)
(* packet is the flush's reference time, never older than TC.              *)
ReassemblePacket(side, ts, fsmOk, optOk, csumOk, hasData, skip, fin, banner) ==
    LET acc  == Accept(fsmOk, optOk, csumOk)
        d    == DirOf(side)
        r    == ReaderFor(d)
        frag == [id |-> count + 1, ts |-> ts, dir |-> d, side |-> side]
        feed == acc.accept /\ ~completed /\ Delivers(skip, hasData)
        fp   == IF count = 0 THEN ts ELSE firstPacket
    IN
    /\ phase = "capture"
    /\ count + others < MaxPackets
    /\ count = 0 => side = "orig"
    /\ feed => CanSend(r)
    /\ count' = count + 1
    /\ stats' = [k \in {"rejectFsm", "rejectOpt", "rejectConnFsm"} |-> acc[k]]
    /\ fsmerr' = (fsmerr \/ ~fsmOk)
    /\ lastPkt' = [ts |-> ts, side |-> side]
    /\ chan' = IF feed THEN [chan EXCEPT ![r] = Append(@, frag)] ELSE chan
    /\ fed' = IF feed THEN fed \cup {frag.id} ELSE fed
    /\ IF acc.accept /\ ~completed /\ fin
       THEN ReassemblyComplete(fp, [ts |-> ts, side |-> side], banner)
       ELSE /\ firstPacket' = fp
            /\ UNCHANGED <<client, data, closed, completed, savedConv, decoder>>
    /\ UNCHANGED <<others, inflight, done, phase>>

(* The flush at the end of ReassemblePacket, for a packet with timestamp   *)
(* ref that made count a multiple of c.FlushEvery: FlushWithOptions closes *)
(* the connections last seen before TC = ref - CloseInactiveTimeOut, and   *)
(* the assembler completes this one with the context of its last packet.  *)
(* Stalled out-of-order data (cutoff T) is not modelled.                   *)
PeriodicFlush(ref) ==
    IF /\ (count + others') % FlushEvery = 0
       /\ count > 0 /\ ~completed
       /\ lastPkt.ts < ref - CloseInactiveTimeOut
    THEN \E banner \in Banners : ReassemblyComplete(firstPacket, lastPkt, banner)
    ELSE UNCHANGED <<firstPacket, client, data, closed, completed, savedConv,
                     decoder>>

(* ReassemblePacket for a TCP packet of another connection of the pool: it *)
(* advances count and may trigger the periodic flush. A packet the         *)
(* defragmenter holds back (a fragment, or no IPv4 layer) returns after    *)
(* count++ and before the flush check.                                     *)
OtherPacket(ts, held) ==
    /\ phase = "capture"
    /\ count + others < MaxPackets
    /\ others' = others + 1
    /\ IF held
       THEN UNCHANGED <<firstPacket, client, data, closed, completed, savedConv,
                        decoder>>
       ELSE PeriodicFlush(ts)
    /\ UNCHANGED <<count, stats, fsmerr, lastPkt, chan, inflight, done, fed, phase>>

(* Stream reader goroutine: receive the next fragment from the channel.    *)
Receive(r) ==
    /\ ~done[r]
    /\ chan[r] # <<>>
    /\ inflight[r] = NoFrag
    /\ inflight' = [inflight EXCEPT ![r] = Head(chan[r])]
    /\ chan' = [chan EXCEPT ![r] = Tail(@)]
    /\ UNCHANGED <<count, others, stats, fsmerr, firstPacket, lastPkt, client, data,
                   closed, done, completed, savedConv, decoder, fed, phase>>

(* Stream reader goroutine: append the received fragment to its DataSlice. *)
Store(r) ==
    /\ inflight[r] # NoFrag
    /\ data' = [data EXCEPT ![r] = Append(@, inflight[r])]
    /\ inflight' = [inflight EXCEPT ![r] = NoFrag]
    /\ UNCHANGED <<count, others, stats, fsmerr, firstPacket, lastPkt, client, chan,
                   closed, done, completed, savedConv, decoder, fed, phase>>

(* Stream reader goroutine: the channel is closed and drained; it exits    *)
(* and signals the stream factory's wait group.                            *)
Exit(r) ==
    /\ closed[r] /\ chan[r] = <<>> /\ inflight[r] = NoFrag /\ ~done[r]
    /\ done' = [done EXCEPT ![r] = TRUE]
    /\ UNCHANGED <<count, others, stats, fsmerr, firstPacket, lastPkt, client, chan,
                   inflight, data, closed, completed, savedConv, decoder, fed,
                   phase>>

ReadersDone == count = 0 \/ \A r \in Readers : done[r]

(* End of the capture: CleanupReassembly(wait, ...) waits for the stream   *)
(* readers, then flushes, when WaitForConnections or its wait argument is *)
(* set; otherwise it skips the final flush. The caller's wait is an input. *)
EndOfCapture ==
    /\ phase = "capture"
    /\ \E wait \in BOOLEAN :
          phase' = IF WaitForConnections \/ wait THEN "wait" ELSE "exit"
    /\ UNCHANGED <<count, others, stats, fsmerr, firstPacket, lastPkt, client, chan,
                   inflight, data, closed, done, completed, savedConv, decoder,
                   fed>>

(* waitForConns() delivered: every reader goroutine has finished.          *)
WaitDone ==
    /\ phase = "wait" /\ ReadersDone
    /\ phase' = "flush"
    /\ UNCHANGED <<count, others, stats, fsmerr, firstPacket, lastPkt, client, chan,
                   inflight, data, closed, done, completed, savedConv, decoder,
                   fed>>

\* Mutant of WaitTimeout: the select has no timeout case.
WaitWithoutTimeout ==
    /\ phase = "wait" /\ ReadersDone
    /\ phase' = "flush"
    /\ UNCHANGED <<count, others, stats, fsmerr, firstPacket, lastPkt, client, chan,
                   inflight, data, closed, done, completed, savedConv, decoder,
                   fed>>

(* time.After(DefaultReassemblyTimeout) fired first.                       *)
WaitTimeout ==
    /\ phase = "wait"
    /\ phase' = "flush"
    /\ UNCHANGED <<count, others, stats, fsmerr, firstPacket, lastPkt, client, chan,
                   inflight, data, closed, done, completed, savedConv, decoder,
                   fed>>

(* assembler.FlushAll(): a connection whose halves are still open is      *)
(* completed with the context of its last packet.                          *)
FlushAll ==
    /\ phase = "flush"
    /\ phase' = "exit"
    /\ IF count > 0 /\ ~completed
       THEN \E banner \in Banners : ReassemblyComplete(firstPacket, lastPkt, banner)
       ELSE UNCHANGED <<firstPacket, client, data, closed, completed,
                        savedConv, decoder>>
    /\ UNCHANGED <<count, others, stats, fsmerr, lastPkt, chan, inflight, done, fed>>

(* CleanupReassembly has returned and every goroutine that can still run   *)
(* has finished: nothing more happens.                                     *)
Finished ==
    /\ phase = "exit"
    /\ \A r \in Readers : chan[r] = <<>> /\ inflight[r] = NoFrag
                          /\ (closed[r] => done[r])
    /\ UNCHANGED vars

Init ==
    /\ count = 0 /\ others = 0
    /\ stats = [k \in {"rejectFsm", "rejectOpt", "rejectConnFsm"} |-> 0]
    /\ fsmerr = FALSE
    /\ firstPacket = NoTs
    /\ lastPkt = [ts |-> NoTs, side |-> "orig"]
    /\ client = "A"
    /\ chan = [r \in Readers |-> <<>>]
    /\ inflight = [r \in Readers |-> NoFrag]
    /\ data = [r \in Readers |-> <<>>]
    /\ closed = [r \in Readers |-> FALSE]
    /\ done = [r \in Readers |-> FALSE]
    /\ completed = FALSE
    /\ savedConv = <<>>
    /\ decoder = InitialDecoder
    /\ fed = {}
    /\ phase = "capture"

Next ==
    \/ \E side \in Sides, ts \in Timestamps, fsmOk, optOk, hasData, fin \in BOOLEAN,
          csumOk \in (IF Checksum THEN BOOLEAN ELSE {TRUE}),
          skip \in SkipValues, banner \in Banners :
          ReassemblePacket(side, ts, fsmOk, optOk, csumOk, hasData, skip, fin, banner)
    \/ \E ts \in Timestamps, held \in BOOLEAN : OtherPacket(ts, held)
    \/ \E r \in Readers : Receive(r) \/ Store(r) \/ Exit(r)
    \/ EndOfCapture
    \/ WaitDone
    \/ WaitTimeout
    \/ FlushAll
    \/ Finished

(* Reader goroutines are scheduled by the Go runtime; the timeout and the  *)
(* flush run on the main goroutine once cleanup has started.               *)
Fairness ==
    /\ \A r \in Readers : WF_vars(Receive(r)) /\ WF_vars(Store(r)) /\ WF_vars(Exit(r))
    /\ WF_vars(WaitDone) /\ WF_vars(WaitTimeout) /\ WF_vars(FlushAll)

Spec == Init /\ [][Next]_vars /\ Fairness

-----------------------------------------------------------------------------
TypeOK ==
    /\ count + others \in 0..MaxPackets
    /\ stats \in [{"rejectFsm", "rejectOpt", "rejectConnFsm"} -> 0..2 * MaxPackets]
    /\ fsmerr \in BOOLEAN
    /\ firstPacket \in Timestamps \cup {NoTs}
    /\ client \in Readers
    /\ \A r \in Readers : /\ chan[r] \in Seq(Frag) /\ Len(chan[r]) <= ChanCap
                          /\ inflight[r] \in Frag \cup {NoFrag}
                          /\ data[r] \in Seq(Frag)
    /\ closed \in [Readers -> BOOLEAN] /\ done \in [Readers -> BOOLEAN]
    /\ completed \in BOOLEAN /\ savedConv \in Seq(Frag)
    /\ decoder \in {"tcp", "http", "ssh", "pop3", "https"}
    /\ fed \subseteq 1..MaxPackets /\ phase \in Phases

(* The cleanup after the capture returns even while reader goroutines of  *)
(* connections that are still open cannot finish.                          *)
CleanupTerminates == (phase = "wait") ~> (phase = "exit")

(* Spec 4.8 and scenario 1: the conversation saved at completion holds     *)
(* every payload fragment that was delivered to the connection's readers.  *)
ConversationComplete == completed => Ids(savedConv) = fed

(* Spec section 8: after a session flip, every stored fragment's direction *)
(* matches the client/server role of the reader that stores it.            *)
FlipTagsConsistent ==
    completed => \A r \in Readers : \A i \in DOMAIN data[r] :
                    data[r][i].dir = IF r = client THEN "c2s" ELSE "s2c"

(* Spec 4.7 and section 5: at end of capture the assembler is flushed     *)
(* before the reader tasks are waited for, and cleanup never returns with *)
(* a connection left open: CleanupReassembly either waits first and       *)
(* flushes afterwards, or, with neither WaitForConnections nor wait set,  *)
(* does not flush at all.                                                  *)
FlushedBeforeWait == phase \in {"wait", "exit"} => (count = 0 \/ completed)
=============================================================================
