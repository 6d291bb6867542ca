----------------------------- MODULE IPProfile -----------------------------
(***************************************************************************)
(* The process-wide IP profile registry of netcap (src/unnamed/part_003,   *)
(* getIPProfile and AtomicIPProfileMap). Several packet workers observe    *)
(* packets concurrently (spec 4.2 and 5); each call either updates the     *)
(* profile found in ipProfiles.Items under the profile's own mutex, or     *)
(* builds a fresh profile and installs it in the map. getIPProfile itself  *)
(* takes no lock on the map: the lookup and the install are two steps,    *)
(* and the install is itself a Go map assignment that another worker's    *)
(* lookup or assignment can overlap, which the Go runtime may detect and  *)
(* answer with a fatal error ("concurrent map read and map write").       *)
(* Profiles are objects: objs is the heap of allocated profiles, items     *)
(* maps an address to the profile object the map currently holds.         *)
(***************************************************************************)
EXTENDS Integers, Sequences, FiniteSets, FiniteSetsExt

CONSTANTS
    Workers,    \* goroutines that call getIPProfile
    IPs,        \* source addresses
    Ports,      \* transport ports
    Lens,       \* packet lengths
    Hashes,     \* JA3 hashes a packet may produce
    SNINames,   \* server names a client hello may carry ("" included)
    Protos,     \* protocols the DPI may report
    MaxObs      \* bound on the getIPProfile calls

NoHash == "none"
NoPort == [total |-> 0, tcp |-> 0, udp |-> 0]
NoBuilt == [ip |-> "none", prof |-> "none"]
Layers == {"tcp", "udp", "none"}

Packet == [ip : IPs, tl : Layers, src : Ports, dst : Ports, len : Lens,
           ja3 : Hashes \cup {NoHash}, hello : BOOLEAN, sni : SNINames,
           dpi : SUBSET Protos]

VARIABLES
    objs,       \* allocated profile objects (the heap)
    items,      \* ipProfiles.Items: address -> index in objs, 0 if absent
    pc,         \* per worker: "idle", "install" or "writing" (assignment in progress)
    built,      \* per worker: the profile it built after a miss
    lookups,    \* history: resolvers.LookupJa3 calls per address and hash
    calls,      \* getIPProfile calls started
    crashed     \* the runtime aborted the process on a map data race

vars == <<objs, items, pc, built, lookups, calls, crashed>>

(* Some other worker is in the middle of assigning to ipProfiles.Items.   *)
MapBeingWritten(w) == \E v \in Workers \ {w} : pc[v] = "writing"

(* The Port record after one more packet of length len on transport tl.    *)
CountPort(port, tl, len) ==
    [total |-> port.total + len,
     tcp   |-> port.tcp + (IF tl = "tcp" THEN 1 ELSE 0),
     udp   |-> port.udp + (IF tl = "udp" THEN 1 ELSE 0)]

(* Adding the packet to the src or dst port map: an existing entry is      *)
(* counted, a missing one created with NumTotal = dataLen.                 *)
AddPort(ports, port, pk) == [ports EXCEPT ![port] = CountPort(@, pk.tl, pk.len)]

\* Mutant of NewJa3: the hash is added without the ja3Hash != "" check.
NewJa3WithoutEmptyCheck(known, pk) == known \cup {pk.ja3}

(* The JA3 hash, looked up only when the profile does not hold it yet.     *)
NewJa3(known, pk) == IF pk.ja3 # NoHash THEN known \cup {pk.ja3} ELSE known

(* Existing profile: the whole update done while holding p.Lock().         *)
UpdateProfile(p, pk) ==
    [p EXCEPT
        !.numPackets = @ + 1,
        !.bytes      = @ + pk.len,
        !.srcPorts   = IF pk.tl # "none" THEN AddPort(@, pk.src, pk) ELSE @,
        !.dstPorts   = IF pk.tl # "none" THEN AddPort(@, pk.dst, pk) ELSE @,
        !.snis       = IF pk.hello /\ pk.sni # "" THEN [@ EXCEPT ![pk.sni] = @ + 1] ELSE @,
        !.ja3        = NewJa3(@, pk),
        !.protocols  = @ \cup pk.dpi]

EmptyPorts == [q \in Ports |-> NoPort]

\* Mutant of NewProfile: the first packet's destination port is not recorded.
NewProfileWithoutDstPort(pk) ==
    [numPackets |-> 1,
     bytes      |-> pk.len,
     srcPorts   |-> IF pk.tl # "none" THEN AddPort(EmptyPorts, pk.src, pk) ELSE EmptyPorts,
     dstPorts   |-> EmptyPorts,
     snis       |-> IF pk.hello THEN [[n \in SNINames |-> 0] EXCEPT ![pk.sni] = 1]
                                ELSE [n \in SNINames |-> 0],
     ja3        |-> NewJa3({}, pk),
     protocols  |-> pk.dpi]

(* New profile: built from the first packet (geolocation and DNS names     *)
(* are lookups that do not touch the registry and are left out).           *)
NewProfile(pk) ==
    [numPackets |-> 1,
     bytes      |-> pk.len,
     srcPorts   |-> IF pk.tl # "none" THEN AddPort(EmptyPorts, pk.src, pk) ELSE EmptyPorts,
     dstPorts   |-> IF pk.tl # "none" THEN AddPort(EmptyPorts, pk.dst, pk) ELSE EmptyPorts,
     snis       |-> IF pk.hello THEN [[n \in SNINames |-> 0] EXCEPT ![pk.sni] = 1]
                                ELSE [n \in SNINames |-> 0],
     ja3        |-> NewJa3({}, pk),
     protocols  |-> pk.dpi]

(* getIPProfile, up to the map lookup: on a hit the profile is locked and  *)
(* updated in place; on a miss the worker builds a new profile.            *)
GetIPProfile(w, pk) ==
    /\ ~crashed
    /\ pc[w] = "idle"
    /\ calls < MaxObs
    /\ calls' = calls + 1
    /\ IF items[pk.ip] # 0
       THEN LET k == items[pk.ip] IN
            /\ objs' = [objs EXCEPT ![k] = UpdateProfile(@, pk)]
            /\ lookups' = IF pk.ja3 # NoHash /\ pk.ja3 \notin objs[k].ja3
                          THEN [lookups EXCEPT ![pk.ip][pk.ja3] = @ + 1] ELSE lookups
            /\ UNCHANGED <<items, pc, built, crashed>>
       ELSE /\ pc' = [pc EXCEPT ![w] = "install"]
            /\ built' = [built EXCEPT ![w] = [ip |-> pk.ip, prof |-> NewProfile(pk)]]
            /\ lookups' = IF pk.ja3 # NoHash
                          THEN [lookups EXCEPT ![pk.ip][pk.ja3] = @ + 1] ELSE lookups
            /\ UNCHANGED <<objs, items, crashed>>

(* ipProfiles.Items[ipAddr] = p, first half: the runtime marks the map as *)
(* being written and starts the assignment.                                *)
InstallStart(w) ==
    /\ ~crashed
    /\ pc[w] = "install"
    /\ pc' = [pc EXCEPT ![w] = "writing"]
    /\ UNCHANGED <<objs, items, built, lookups, calls, crashed>>

(* Second half: the built profile is installed, replacing whatever object *)
(* the map holds for the address by now, and the write mark is cleared.   *)
InstallEnd(w) ==
    /\ ~crashed
    /\ pc[w] = "writing"
    /\ objs' = Append(objs, built[w].prof)
    /\ items' = [items EXCEPT ![built[w].ip] = Len(objs) + 1]
    /\ pc' = [pc EXCEPT ![w] = "idle"]
    /\ UNCHANGED <<built, lookups, calls, crashed>>

(* A lookup (line 58) or an assignment (line 235) by w while another      *)
(* worker's assignment is in progress is a data race on a Go map. The     *)
(* runtime may miss it (the step then happens as GetIPProfile or          *)
(* InstallStart) or detect it and abort the whole process.                *)
MapRaceFatal(w) ==
    /\ ~crashed
    /\ \/ pc[w] = "idle" /\ calls < MaxObs
       \/ pc[w] = "install"
    /\ MapBeingWritten(w)
    /\ crashed' = TRUE
    /\ UNCHANGED <<objs, items, pc, built, lookups, calls>>

Init ==
    /\ objs = <<>>
    /\ items = [ip \in IPs |-> 0]
    /\ pc = [w \in Workers |-> "idle"]
    /\ built = [w \in Workers |-> NoBuilt]
    /\ lookups = [ip \in IPs |-> [h \in Hashes |-> 0]]
    /\ calls = 0
    /\ crashed = FALSE

(* Every call has been made and every built profile installed, or the     *)
(* process has died.                                                       *)
Finished ==
    /\ \/ calls = MaxObs /\ \A w \in Workers : pc[w] = "idle"
       \/ crashed
    /\ UNCHANGED vars

Next ==
    \/ \E w \in Workers, pk \in Packet : GetIPProfile(w, pk)
    \/ \E w \in Workers : InstallStart(w) \/ InstallEnd(w) \/ MapRaceFatal(w)
    \/ Finished

Spec == Init /\ [][Next]_vars

-----------------------------------------------------------------------------
PortEntry == [total : Nat, tcp : Nat, udp : Nat]

TypeOK ==
    /\ \A k \in DOMAIN objs :
         /\ objs[k].numPackets \in Nat /\ objs[k].bytes \in Nat
         /\ objs[k].srcPorts \in [Ports -> PortEntry]
         /\ objs[k].dstPorts \in [Ports -> PortEntry]
         /\ objs[k].ja3 \subseteq Hashes /\ objs[k].protocols \subseteq Protos
    /\ items \in [IPs -> 0..Len(objs)]
    /\ pc \in [Workers -> {"idle", "install", "writing"}]
    /\ calls \in 0..MaxObs

SumOf(ports, field) == MapThenSumSet(LAMBDA q : ports[q][field], Ports)

(* Spec section 8: within a profile, the bytes counted on source ports and *)
(* on destination ports agree (each transport packet is counted once on    *)
(* each side), never exceed the profile's bytes, and the TCP/UDP counts    *)
(* never exceed its packet count.                                          *)
ByteAccounting ==
    \A ip \in IPs : items[ip] # 0 =>
        LET p == objs[items[ip]] IN
        /\ SumOf(p.srcPorts, "total") = SumOf(p.dstPorts, "total")
        /\ SumOf(p.srcPorts, "total") <= p.bytes
        /\ SumOf(p.srcPorts, "tcp") + SumOf(p.srcPorts, "udp") <= p.numPackets
        /\ SumOf(p.dstPorts, "tcp") + SumOf(p.dstPorts, "udp") <= p.numPackets

(* Spec 4.2 (I1): the counters of the profile the registry holds for an   *)
(* address never decrease.                                                 *)
CountersMonotonic ==
    [][\A ip \in IPs : items[ip] # 0 =>
          objs'[items'[ip]].numPackets >= objs[items[ip]].numPackets]_vars

(* Spec 4.2 and 6(b): the registry lock is held to locate or install a    *)
(* profile, so concurrent getIPProfile calls never race on the map and     *)
(* the process is never aborted by the runtime's map race detector.        *)
NoMapRace == ~crashed
=============================================================================
