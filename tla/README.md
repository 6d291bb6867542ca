# TLA+ models of netcap's reassembly, profile registry, record writer and HTTP transforms

This directory holds TLA+ models of the concurrent parts of netcap: the TCP
stream reassembly engine, the IP profile registry, the audit record writer,
the HTTP encoder's end-of-capture pairing and the Maltego HTTP transform. It also holds the TLC configurations that check them. Every action is
translated from the Go source under `src/`. `PROJECT.json` maps each
definition to the lines it models and lists the runs, the mutants, the
findings and the hazards.

## The system

- **Packet ingress** (`ReassemblePacket`, `src/unnamed/part_004`). This is a
  single goroutine that handles packets in capture order. It hands TCP
  segments to the gopacket assembler. The assembler calls back into
  `tcpConnection`:
  - `Accept` checks the FSM, the TCP options and the checksum, and keeps
    the rejection statistics.
  - `ReassembledSG` applies the skip policy and the disabled or HTTPS
    protocols, then calls `feedData`. `feedData` does a blocking send on the
    data channel of the reader for the packet's direction.
  - `ReassemblyComplete` runs on FIN/RST or on a flush. It may flip client
    and server. It saves the merged conversation (`ConversationRaw`),
    closes both reader channels (a panic on a double close is recovered)
    and upgrades the decoder from the server banner. `ConversationRaw`
    concatenates the client's and the server's `DataSlice` and sorts them
    by capture timestamp with `sort.Sort`.
  - Every `FlushEvery` packets of any connection, `ReassemblePacket` calls
    `FlushWithOptions`, which closes the connections last seen before
    `ref − CloseInactiveTimeOut` through `ReassemblyComplete`.
- **Stream readers.** Each connection has two goroutines, one per direction.
  Each receives fragments from its channel and appends them to its
  `DataSlice`, then exits when the channel is closed. Their code is not under
  `src/`, so they are modelled from spec 4.6.
- **End of capture** (`CleanupReassembly`). This runs only if
  `WaitForConnections || wait`. It waits for all readers (`waitForConns`)
  or for a timeout, then calls `FlushAll` on the assemblers, then re-saves
  streams and UDP connections. Otherwise it does not flush at all.
- **Profile registry** (`getIPProfile`, `src/unnamed/part_003`). Packet
  workers look up `ipProfiles.Items`. On a hit they update the profile under
  its own mutex. On a miss they build a profile and install it. There is no
  registry lock between the lookup and the install.
- **Writer** (`src/writer.go`). The layer stack is gzip → bufio → file, in
  the combinations `NewWriter` builds. `Write` is serialized by `w.mu`.
  `Close` closes gzip under `w.mu`, then flushes bufio and closes the file
  without it.
- **HTTP encoder deinit** (`part_004` 949-1111). At end of capture it locks
  `reqMutex` then `resMutex`. It ranges over `httpResMap` and writes every
  response that carries its `Request`, keeping the others. It then ranges
  over `httpReqMap` and writes the leftover requests. Go map iteration order
  is random.
- **Maltego HTTP transform** (`src/maltego/http.go`). It opens
  `HTTP.ncap.gz` next to the given path, falling back to `HTTP.ncap`. It
  checks the header, runs an optional count pass, reopens the file and calls
  the transform callback on every record. `cmd/transform`'s
  `toHTTPHostsFiltered` and `GetHTTPUserAgents` are the callbacks.

These parts interact in two ways:
- ingress → readers, through bounded channels, and the closes at completion;
- cleanup → readers, through the wait group and the final flush.

Readers and encoders write records to Writers, and ingress workers call
`getIPProfile`.

## Modules

| Module | Models | State | Actions |
|---|---|---|---|
| `TcpConnection` | one connection, its two readers, cleanup, and the packets of the other connections | `count`, `others` (packets of other connections), `stats`, `fsmerr`, `firstPacket`, `client`, `chan`, `inflight`, `data`, `closed`, `done`, `completed`, `savedConv` (the saved conversation, in order), `decoder`, `fed`, `phase` | `ReassemblePacket` (Accept → ReassembledSG/feedData → ReassemblyComplete in one step, as one call of the assembler), `OtherPacket` (another connection's packet and the periodic flush it may trigger, or a packet the defragmenter holds back, which returns before the flush check), `Receive`, `Store`, `Exit` (readers), `EndOfCapture`, `WaitDone`, `WaitTimeout`, `FlushAll` |
| `IPProfile` | registry with concurrent workers | `objs` (profile heap), `items` (the map), `pc`, `built`, `lookups`, `calls`, `crashed` | `GetIPProfile` (hit: whole locked update; miss: build), `InstallStart` and `InstallEnd` (the two ends of the map assignment at line 235), `MapRaceFatal` (the runtime detects a lookup or assignment overlapping an assignment and aborts) |
| `Writer` | file writer, producers and one closer | `compress`, `buffer`, `gz`, `buf`, `file`, closed flags, `sent`, `written`, `closer`, `crashed` | `Write`, `GzipEmit`, `BufFull`, `CloseGzip`, `FlushBuffer`, `CloseFile` |
| `AppendLog` | what a record file promises (abstract) | `log`, `stored`, `closed`, `halted` | `Append1`, `Persist`, `Close`, `Halt` |
| `HttpFlush` | `httpEncoder` deinit pairing | `reqMap`, `resMap`, the streams each range has yet to reach, `out`, `numRecords`, `pc`, `input` (history) | `PairStream` (one iteration of the range over responses), `PairsDone`, `LeftoverStream` (one iteration over requests), `LeftoverDone` |
| `HttpTransform` | `maltego.HTTPTransform` with its two HTTP callbacks | the two candidate files, `name`, `callback`, `pass`, `pos`, `entities`, `pc` | `Open` (lookup, fallback, header check), `ReadNext` (one `r.Next` and the callback, or the loop end: reopen after the count pass, or completion) |

`Writer` refines `AppendLog`. The mapping takes `log` to the file's content
followed by bufio's and gzip's buffered content (`file \o buf \o gz`),
`stored` to the file, `closed` to the file's close and `halted` to a panic.
The run checks `AL!ASpec` as a property.

The HTTP readers that fill the pairing maps are not under `src/`. The initial
maps of `HttpFlush` are therefore taken from spec 4.6 (`ReaderMaps`): each
request is at most once either unmatched or the `Request` of one response.
An audit file of `HttpTransform` is its header type, up to two records
(source IP, host, user agent) and how it ends: clean EOF, a cut record
(`io.ErrUnexpectedEOF`), or corrupt data.

`MC*.tla` modules hold the definitions a `.cfg` cannot write (sets of sets,
negative numbers) and the symmetry sets.

The models abstract data as follows:
- A fragment is a record of id, timestamp, direction and sending side.
- A banner is the set of keywords it contains.
- A profile holds counters and port maps over one or two addresses and ports.
- Records are `<<producer, n>>` pairs.

The library verdicts are inputs of the packet step: the FSM, option and
checksum results, `skip`, and FIN. `Finished` actions mark the real end of a
run (cleanup returned, all calls made), so deadlock checking stays on.

## Runs

| Run | Expect | What it shows |
|---|---|---|
| `tcp_connection` | pass | `TypeOK` includes each reader channel staying within `ChanCap`: `feedData`'s send blocks rather than overfill. `CleanupTerminates`: cleanup returns even when readers of open connections cannot finish, because the `time.After` case bounds the wait. 149,116 states. The run also fires every action for the violation runs below. |
| `tcp_conversation_complete` | violation | The conversation is saved before the readers have stored fragments fed to them (code bug at `part_004:414`). |
| `tcp_flip_tags` | violation | A flip leaves fragments that are still in a channel with their old direction (code bug at `part_004:401`, contrary to spec section 8). |
| `tcp_flushed_before_wait` | violation | `FlushedBeforeWait`: `CleanupReassembly`'s `wait` argument is an input. The cleanup either waits before it flushes, contrary to spec 4.7, or, with neither the flag nor the argument set, returns without flushing, so open connections are never saved. |
| `ip_profile` | pass | `ByteAccounting`: source-port and destination-port byte totals agree and stay within the profile's bytes, under two racing workers. |
| `ip_profile_map_race` | violation | `NoMapRace`: a lookup overlaps another worker's unsynchronised map assignment. Go's runtime may abort the process on this race ("concurrent map read and map write"); spec 4.2 says the registry lock covers locate and install. |
| `ip_profile_monotonic` | violation | Two racing misses install two profiles, and the counters of the address go back (spec 4.2, I1). |
| `writer` | pass | `CloseDeliversAll`: in all four layer stacks, a Close after the last Write leaves exactly the header and the written records in order. `ImplementsAppendLog`: every step of the writer is a step of the append-only log, so the file only ever grows by a prefix of what was written and is closed only when it holds all of it. |
| `writer_late_write` | violation | A Write between the bufio flush and the file close succeeds, and its record is lost. |
| `http_flush` | pass | `FlushComplete`: in every map iteration order, each parsed request ends in exactly one record, and `numRecords` counts exactly the records written. 8,814 states. |
| `http_flush_csv_leftover` | violation | In CSV mode a leftover request is written with `d.aWriter.PutProto` (`part_004:1061`), which a CSV writer does not have. |
| `http_transform` | pass | `EntitiesMatchFile`: a completed transform has added exactly the callback results of the file's records in order, with or without a count pass. `CompletesOnReadableFile`: an existing, non-corrupt HTTP file under either name is always transformed to the end. 37,240 states. |

Each property of a passing run has a mutant in `PROJECT.json`: a plausible
bug in the mapped code that TLC finds. Examples are a channel send past
its capacity, a select without its timeout, and a flush skipped under
compression.

## Bounds

- **TcpConnection:**
  - `MaxPackets = 3` packets of this or other connections: enough for a
    data packet, a flip-causing older packet with FIN, and a packet after
    completion, or for a packet of this connection followed by another
    connection's packet that triggers a flush (`FlushEvery = 2`) and closes
    it (`CloseInactiveTimeOut = 0`, so a connection last seen at 1 is idle
    at 2). Four packets exceed five minutes.
  - At most 3 fragments reach the merge, where Go's `sort.Sort` is an
    insertion sort. Its unstable paths start at 7 or 13 elements, beyond
    these bounds.
  - `ChanCap = 1`, so a send can block.
  - Two timestamps, so that both "older" and "equal" occur.
  - `skip ∈ {-1, 1}`.
  - One HTTP banner.
- **IPProfile:** two workers (with symmetry), one address, one port, two
  lengths, SNI "" and a name, and 3 calls. This is enough for two misses
  racing and a hit after them. `ip_profile_map_race` needs only 2 calls:
  a miss whose install is in progress and a second lookup.
- **Writer:** two producers with two records each (with symmetry), in the
  four `compress`/`buffer` stacks.
- **HttpFlush:** two streams and two requests (with symmetry), at most two
  entries per map slice. This gives a stream with a paired and an unpaired
  response, a stream in both maps, and empty maps.
- **HttpTransform:** every pair of candidate files with up to two records,
  over two source IPs, a whitelisted, a plain and an empty host, and an
  empty and a set user agent, with both callbacks and with and without a
  count pass.

## Fairness

Reader goroutines are scheduled by the Go runtime, so each reader step is
weakly fair. The timeout and the flush in `CleanupReassembly` run on the main
goroutine once it reaches them (`time.After` always fires), so they are also
weakly fair. Packets are not fair: the capture may end at any time. So no property
says that an idle connection is eventually closed by the periodic flush. The
IPProfile, Writer and HttpFlush runs check only safety. `HttpTransform` is
one sequential process that runs to its end, so its next-state relation is
weakly fair.

Undefined behaviour is a nondeterministic choice. A Go map data race
may go unnoticed (`GetIPProfile` or `InstallStart` happens) or be detected
(`MapRaceFatal`). `EndOfCapture` takes `CleanupReassembly`'s `wait`
argument as either value, because its callers are not under `src/`.

## Not modelled

The model has no property about these points:
- **Reader routing, per-connection FSM accounting, the merge order of the
  saved conversation, and reader draining after completion.** Each of
  them follows directly from the action that implements it: a single
  branch in `feedData`, the `fsmerr` guard at lines 167-170, an insertion
  sort that is stable on every input up to 12 elements, and the channel
  close at completion. A property about them would restate the code, not
  check it.
- **The assembler's direction (`DirOf`).** It comes from the
  connection's first packet, and netcap's flip never changes it. The two
  agree in every reachable state, because nothing is fed after the flip
  at completion.

- **The other Maltego transforms** (`ToServices`, `toEMails`,
  `openTrafficForPortInWireshark`, `part_002`): their drivers are not under
  `src/`, and the callbacks only format entities.
- **`GetHTTPUserAgents` call shape:** it passes two arguments and a
  `*maltego.MaltegoTransform` callback to `HTTPTransform`, which takes three
  and a `*Transform`. The model uses the callback's filter only.
- **UDP handlers and the defragmenter:** not under `src/`, or library code.
- **The flush of stalled out-of-order data** (`ClosePendingTimeOut`): the
  assembler's buffers are library state.
- **`FlushEvery = 0`:** `count%c.FlushEvery` would panic; the model
  assumes a positive value.
- **Unmatched responses at end of capture:** the code drops them
  (`part_004:1031`, the loop is commented out); spec section 9 leaves open
  whether they should be written, so no run takes a side.
- **`DecodeHTTP`:** the same ingress path as `ReassemblePacket`.
- **Double `Writer.Close`:** `CloseFile` and pgzip are not under `src/`.
- **Channel-writer mode:** not modelled.
- **`updateStats` byte counters:** arithmetic with no interaction.
- **The empty SNI** (`part_003:200`): a new profile counts an empty server
  name, while an update skips it. Both are in the model, but the spec does
  not say which is right, so no property takes a side.
- **The returned profile** (`part_003:146`) and **the leaked
  `waitForConns` goroutine** (`part_004:727`): the callers that read the
  profile, and any goroutine accounting, are not under `src/`.
- **`ToServices` and `toEMails`:** each is a callback whose driver
  (`ServiceTransform`, `MailTransform`) is not under `src/`. The callbacks
  filter by one field and build display strings. Only the `servicetype`
  lookup and `die` would remain after abstraction.

## Remaining work

1. **`Cleanup`:** composes `TcpConnection` with `Writer`. Readers write
   records while cleanup times out and closes the writers. With the
   current bounds, the product of the two state spaces is beyond a
   five-minute run. `writer_late_write` and `tcp_flushed_before_wait`
   show the two halves separately.
2. **`IPProfile`:** the JA3 description cache. The model has one hash
   per packet, not `DigestHexPacket` and its `Ja3s` fallback.
3. **More of `src/writer.go`:** `NewWriter`'s error paths and the channel
   writer mode.
