----------------------------- MODULE HttpFlush -----------------------------
(***************************************************************************)
(* The deinit function of httpEncoder (src/unnamed/part_004): after the   *)
(* final FlushAll and the wait for the reader goroutines, it takes         *)
(* reqMutex then resMutex and drains httpResMap and httpReqMap into audit  *)
(* records. Go ranges over a map in no fixed order, so the stream handled  *)
(* next is a nondeterministic choice.                                      *)
(* The HTTP readers that fill the maps are not under src/: per spec 4.6    *)
(* each response carries the request it was matched with, or none, and a  *)
(* request that was matched is not left in httpReqMap as well.             *)
(***************************************************************************)
EXTENDS Integers, Sequences, FiniteSets, SequencesExt

CONSTANTS
    Streams,    \* Stream keys (pairs of network and transport flows)
    Requests,   \* *http.Request values
    CSV,        \* d.csv: the encoder writes CSV rows
    MaxPerStream

Nil == "nil"
\* A response as the pairing pass sees it: res.Request or nil.
Response == [req : Requests \cup {Nil}]
\* An audit record: the request fields (setRequest) and whether response
\* fields were filled in.
Record == [req : Requests \cup {Nil}, res : BOOLEAN]

VARIABLES
    reqMap,     \* httpReqMap: stream -> requests still unmatched
    resMap,     \* httpResMap: stream -> responses
    resTodo,    \* streams of httpResMap the first range has not reached
    reqTodo,    \* streams of httpReqMap the second range has not reached
    out,        \* records written through csvWriter or aWriter
    numRecords, \* d.numRecords
    pc,         \* "pairs", "leftover", "done" or "panicked"
    input       \* history: the maps as deinit found them

vars == <<reqMap, resMap, resTodo, reqTodo, out, numRecords, pc, input>>

(* What a response with a request writes: types.HTTP with the response     *)
(* fields and setRequest(h, res.Request).                                  *)
Paired(res) == [req |-> res.req, res |-> TRUE]

(* sum := len(httpResMap) + len(httpReqMap): the number of streams.        *)
Sum == Cardinality(DOMAIN resMap) + Cardinality(DOMAIN reqMap)

\* Mutant of SkipWhenEmpty: the early exit only looks at the responses.
SkipWhenNoResponses == Cardinality(DOMAIN resMap) = 0

(* if sum == 0 { goto done }                                               *)
SkipWhenEmpty == Sum = 0

(* One iteration of `for s, resArr := range httpResMap`: every response    *)
(* with a Request is written (CSV row or delimited proto) and counted;     *)
(* the others are kept as httpResMap[s] = newRes.                          *)
PairStream(s) ==
    LET paired == SelectSeq(resMap[s], LAMBDA r : r.req # Nil)
    IN /\ pc = "pairs" /\ s \in resTodo
       /\ out' = out \o [i \in 1..Len(paired) |-> Paired(paired[i])]
       /\ numRecords' = numRecords + Len(paired)
       /\ resMap' = [resMap EXCEPT ![s] = SelectSeq(@, LAMBDA r : r.req = Nil)]
       /\ resTodo' = resTodo \ {s}
       /\ UNCHANGED <<reqMap, reqTodo, pc, input>>

(* The range over httpResMap is over. The pass over leftover responses is *)
(* commented out in the code, so the leftover requests come next.          *)
PairsDone ==
    /\ pc = "pairs" /\ resTodo = {}
    /\ pc' = "leftover"
    /\ UNCHANGED <<reqMap, resMap, resTodo, reqTodo, out, numRecords, input>>

(* One iteration of `for _, reqArr := range httpReqMap`: each non-nil      *)
(* request is counted and written with d.aWriter.PutProto, also in CSV     *)
(* mode, where the encoder has no delimited writer (a nil dereference).    *)
LeftoverStream(s) ==
    LET reqs == SelectSeq(reqMap[s], LAMBDA q : q # Nil)
    IN /\ pc = "leftover" /\ s \in reqTodo
       /\ IF CSV /\ reqs # <<>>
          THEN /\ pc' = "panicked"
               /\ UNCHANGED <<out, numRecords, reqTodo>>
          ELSE /\ out' = out \o [i \in 1..Len(reqs) |-> [req |-> reqs[i], res |-> FALSE]]
               /\ numRecords' = numRecords + Len(reqs)
               /\ reqTodo' = reqTodo \ {s}
               /\ UNCHANGED pc
       /\ UNCHANGED <<reqMap, resMap, resTodo, input>>

(* done: both mutexes are released and the statistics printed.            *)
LeftoverDone ==
    /\ pc = "leftover" /\ reqTodo = {}
    /\ pc' = "done"
    /\ UNCHANGED <<reqMap, resMap, resTodo, reqTodo, out, numRecords, input>>

(* A Go map from Stream keys to slices, as a function on the keys present. *)
MapsOf(S) == UNION {[D -> BoundedSeq(S, MaxPerStream)] : D \in SUBSET Streams}

(* The maps as the readers leave them (spec 4.6): each request appears at *)
(* most once, either unmatched in httpReqMap or as the Request of one      *)
(* response.                                                               *)
ReaderMaps ==
    { m \in [req : MapsOf(Requests \cup {Nil}), res : MapsOf(Response)] :
        LET atReq == {<<s, i>> \in Streams \X (1..MaxPerStream) :
                          s \in DOMAIN m.req /\ i <= Len(m.req[s]) /\ m.req[s][i] # Nil}
            atRes == {<<s, i>> \in Streams \X (1..MaxPerStream) :
                          s \in DOMAIN m.res /\ i <= Len(m.res[s]) /\ m.res[s][i].req # Nil}
            reqOf(p) == m.req[p[1]][p[2]]
            resOf(p) == m.res[p[1]][p[2]].req
        IN /\ \A p, q \in atReq : reqOf(p) = reqOf(q) => p = q
           /\ \A p, q \in atRes : resOf(p) = resOf(q) => p = q
           /\ \A p \in atReq, q \in atRes : reqOf(p) # resOf(q) }

(* deinit reaches the pairing with both locks held.                        *)
Init ==
    /\ input \in ReaderMaps
    /\ reqMap = input.req /\ resMap = input.res
    /\ resTodo = DOMAIN resMap /\ reqTodo = DOMAIN reqMap
    /\ out = <<>> /\ numRecords = 0
    /\ pc = IF SkipWhenEmpty THEN "done" ELSE "pairs"

(* deinit has returned, or the program stopped on its panic.               *)
Finished == pc \in {"done", "panicked"} /\ UNCHANGED vars

Next ==
    \/ \E s \in DOMAIN resMap : PairStream(s)
    \/ \E s \in DOMAIN reqMap : LeftoverStream(s)
    \/ PairsDone \/ LeftoverDone
    \/ Finished

Spec == Init /\ [][Next]_vars

-----------------------------------------------------------------------------
\* The requests the readers left, unmatched or as a response's Request.
InputRequests ==
    UNION {Range(input.req[s]) : s \in DOMAIN input.req}
      \cup {r.req : r \in UNION {Range(input.res[s]) : s \in DOMAIN input.res}}

Written(q) == {i \in DOMAIN out : out[i].req = q}

(* Spec section 8 (round trip) and 4.6: when deinit is done, every request *)
(* the readers parsed is in exactly one audit record, paired with its      *)
(* response if it had one, and d.numRecords counts exactly the records     *)
(* written, whatever order the maps are ranged in.                         *)
FlushComplete ==
    pc = "done" =>
        /\ \A q \in InputRequests \ {Nil} : Cardinality(Written(q)) = 1
        /\ numRecords = Len(out)

(* The deinit of the HTTP encoder finishes without a panic: a CSV-mode     *)
(* encoder never writes through its delimited proto writer.                *)
NoPanicInCsv == pc # "panicked"
=============================================================================
