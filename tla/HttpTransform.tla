--------------------------- MODULE HttpTransform ---------------------------
(***************************************************************************)
(* maltego.HTTPTransform (src/maltego/http.go): a Maltego local transform  *)
(* that reads the HTTP audit record file next to the given path, first     *)
(* HTTP.ncap.gz and, failing that, HTTP.ncap; checks its header; runs an   *)
(* optional count pass and then the transform pass over every record, and  *)
(* reports completion. The transform callbacks are those of                *)
(* cmd/transform: toHTTPHostsFiltered and GetHTTPUserAgents.               *)
(* A file is its header type, the records it holds, and how it ends: a    *)
(* clean end (io.EOF), a record cut short (io.ErrUnexpectedEOF, as left by *)
(* a writer that never closed its gzip stream), or corrupt data.           *)
(***************************************************************************)
EXTENDS Integers, Sequences, SequencesExt

CONSTANTS
    IPs,            \* SrcIP values; IPAddr is the one the transform is for
    IPAddr,
    Hosts,          \* Host values, "" included
    Agents,         \* UserAgent values, "" included
    Whitelist,      \* hosts resolvers.IsWhitelistedDomain accepts
    MaxRecords

Rec == [src : IPs, host : Hosts, ua : Agents]
Ends == {"eof", "short", "corrupt"}
AuditFile == [type : {"HTTP", "other", "unreadable"}, recs : BoundedSeq(Rec, MaxRecords), end : Ends]

VARIABLES
    gz, plain,      \* the two candidate files (NoFile if absent)
    name,           \* httpAuditRecords: the file name in use
    callback,       \* the transform callback and whether a count func is given
    pass,           \* "count" or "transform" while reading
    pos,            \* records read by the current pass
    entities,       \* entities added to the Maltego transform
    pc              \* "start", "reading", "completed", "notfound", "died", "panicked"

vars == <<gz, plain, name, callback, pass, pos, entities, pc>>

NoFile == [type |-> "none"]
File == IF name = "gz" THEN gz ELSE plain

(* toHTTPHostsFiltered's callback: a website entity for each host the      *)
(* address requested that is not whitelisted.                              *)
HostsEntity(r) ==
    IF r.src = IPAddr /\ r.host # "" /\ r.host \notin Whitelist
    THEN <<[kind |-> "website", val |-> r.host]>> ELSE <<>>

(* GetHTTPUserAgents' callback: a user agent entity for each non-empty     *)
(* User-Agent the address sent.                                            *)
AgentEntity(r) ==
    IF r.src = IPAddr /\ r.ua # "" THEN <<[kind |-> "agent", val |-> r.ua]>> ELSE <<>>

Transform(r) == IF callback.fn = "hosts" THEN HostsEntity(r) ELSE AgentEntity(r)

\* Mutant of Open: the fallback opens HTTP.ncap but keeps the .gz name, so
\* netio.Open of that name fails and panics.
OpenWithoutRename ==
    /\ pc = "start"
    /\ name' = "gz"
    /\ pc' = CASE gz # NoFile /\ gz.type = "HTTP"    -> "reading"
               [] gz # NoFile                        -> "died"
               [] plain = NoFile                     -> "notfound"
               [] OTHER                              -> "panicked"
    /\ pass' = IF callback.count THEN "count" ELSE "transform"
    /\ UNCHANGED <<gz, plain, callback, pos, entities>>

(* Open the file (os.Open with the .gz fallback), check the extension,    *)
(* netio.Open it and read the header; die unless it holds HTTP records.    *)
(* The name always ends in .ncap or .ncap.gz, so the extension check and  *)
(* netio.Open of a file os.Open found do not fail.                        *)
Open ==
    LET n == IF gz # NoFile THEN "gz" ELSE "plain"
        f == IF n = "gz" THEN gz ELSE plain
    IN /\ pc = "start"
       /\ name' = n
       /\ pc' = CASE f = NoFile        -> "notfound"
                  [] f.type # "HTTP"   -> "died"
                  [] OTHER             -> "reading"
       /\ pass' = IF callback.count THEN "count" ELSE "transform"
       /\ UNCHANGED <<gz, plain, callback, pos, entities>>

(* The end of a read loop: io.EOF and io.ErrUnexpectedEOF break out of it, *)
(* any other error panics. After the count pass the file is closed and     *)
(* opened again, its header skipped; after the transform pass it is        *)
(* closed and "completed!" is reported.                                    *)
LoopEnd ==
    /\ pos' = 0
    /\ IF File.end = "corrupt"
       THEN /\ pc' = "panicked" /\ UNCHANGED pass
       ELSE IF pass = "count"
            THEN /\ pass' = "transform" /\ UNCHANGED pc
            ELSE /\ pc' = "completed" /\ UNCHANGED pass

\* Mutant of ReadNext: the callback runs before the error check, so at
\* io.EOF it sees the record left over from the previous call.
ReadNextBeforeCheck ==
    /\ pc = "reading"
    /\ IF pos < Len(File.recs)
       THEN /\ pos' = pos + 1
            /\ entities' = IF pass = "transform"
                           THEN entities \o Transform(File.recs[pos + 1]) ELSE entities
            /\ UNCHANGED <<pass, pc>>
       ELSE /\ LoopEnd
            /\ entities' = IF pass = "transform" /\ pos > 0
                           THEN entities \o Transform(File.recs[pos]) ELSE entities
    /\ UNCHANGED <<gz, plain, name, callback>>

(* One iteration of a read loop: r.Next(http) either yields the next       *)
(* record, on which count (a no-op for these callers) or transform is      *)
(* called, or returns the error that ends the loop.                        *)
ReadNext ==
    /\ pc = "reading"
    /\ IF pos < Len(File.recs)
       THEN /\ pos' = pos + 1
            /\ entities' = IF pass = "transform"
                           THEN entities \o Transform(File.recs[pos + 1]) ELSE entities
            /\ UNCHANGED <<pass, pc>>
       ELSE /\ LoopEnd /\ UNCHANGED entities
    /\ UNCHANGED <<gz, plain, name, callback>>

Init ==
    /\ gz \in AuditFile \cup {NoFile}
    \* HTTP.ncap is only read when HTTP.ncap.gz is absent.
    /\ plain \in IF gz = NoFile THEN AuditFile \cup {NoFile} ELSE {NoFile}
    /\ name = "gz"
    \* Both callers under src/ pass a nil count func; HTTPTransform is
    \* exported, and count = TRUE stands for a caller that passes one.
    /\ callback \in [fn : {"hosts", "agents"}, count : BOOLEAN]
    /\ pass = "count" /\ pos = 0
    /\ entities = <<>>
    /\ pc = "start"

(* The process has exited.                                                 *)
Exited == pc \in {"completed", "notfound", "died", "panicked"} /\ UNCHANGED vars

Next == Open \/ ReadNext \/ Exited

(* A local transform runs to its end as one sequential process.            *)
Spec == Init /\ [][Next]_vars /\ WF_vars(Next)

-----------------------------------------------------------------------------
(* What the transform adds for a whole file, record by record.             *)
Expected(f) == FlattenSeq([i \in DOMAIN f.recs |-> Transform(f.recs[i])])

(* toHTTPHostsFiltered and GetHTTPUserAgents report "completed!" only      *)
(* after adding exactly one callback result per record of the file, in     *)
(* file order, whether or not a count pass ran first.                      *)
EntitiesMatchFile == pc = "completed" => entities = Expected(File)

(* An HTTP audit record file that exists, under either name, and is not    *)
(* corrupt is always transformed to the end.                               *)
CompletesOnReadableFile ==
    LET f == IF gz # NoFile THEN gz ELSE plain
    IN (f # NoFile /\ f.type = "HTTP" /\ f.end # "corrupt") => <>(pc = "completed")
=============================================================================
