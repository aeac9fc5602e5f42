# Verification of pcap-analyzer

TLA+ models of `pcap-analyzer` (`src/`), the TLC configurations that check them
on small instances, and TLAPS proofs about the TCP reassembler, the two
directions of a connection, the HTTP and DNS framing, the packet decoder, the
flow table and the program as a whole for every value of their parameters. `PROJECT.json` lists components, runs, the source lines of
every definition, the hazards the properties are aimed at, and the findings.

## 1. The system

The program reads a capture file once, from front to back, in one thread. There
is no concurrency inside it; what is concurrent is the traffic it watches. Every
piece of state below lives across packets, so the order, repetition, loss and
cut of the captured packets is what makes the code hard.

| Component | State it keeps | Operations | Talks to |
|---|---|---|---|
| Capture reader (`capture/pcap*.cpp`) | rest of the file, byte order, time unit, `skipped_` | constructor, `readPacket`, `readAllPackets` | calls `Decoder::decode` per packet |
| Packet decoder (`decode/packet_decoder.cpp`, `protocols/*.cpp`) | one `Packet`, reused | `decodePacket` (layers 2, 3, 4), `Packet::reset` | called by `Decoder` |
| Decoder (`decode/decoder.cpp`) | `decoded_`, configuration (filter, timeouts) | `decode`, `finish` (never called) | packet decoder, flow table, reassemblers, application decoder |
| Flow table (`flow/flow_table.cpp`, `flow_key.cpp`) | active flows by key, retired flows, total bytes | `addPacket`, `allFlows`, `flush` (only from `finish`) | owns two reassemblers per flow |
| TCP reassembler (`flow/tcp_reassembler.cpp`) | state, `next_seq`, out-of-order buffer, assembled bytes, FIN | `onSent`, `onReceived`, `peek`, `consume`, `hasReadableData` | driven by `Decoder`, read by the application decoder |
| Application decoder (`decode/app_decoder.cpp`) | `Applications` per flow key and direction | `pollFlow`, `pollDatagram`, `pollStream`, `resyncHttp` | consumes reassembled bytes, calls `http::parse`, `dns::parse`, `DnsTable::record` |
| HTTP parser (`protocols/http.cpp`) | none | `parse`, `parseChunkedBody` | |
| DNS parser, DNS table (`protocols/dns.cpp`, `analysis/dns_table.cpp`) | names by address | `parse`, `record` | |
| Benchmark (`analysis/benchmark.cpp`) | per phase: calls, time, whether it runs | `start`, `stop` | called by reader and decoder |
| Statistics (`analysis/stats_engine.cpp`) | row limit | `toString`/`toJson` (flows), `printHttp`, `printDns`, `printBenchmark` | read flow table, application decoder, DNS table, benchmark |
| Command line (`cli/cli.cpp`, `util/text.cpp`, address text in `protocols/ipv4.cpp`, `ipv6.cpp`) | `Options` | `parseArgs`, `printSummary`, `cli` | owns the reader, writes the sections, sets the exit code |

What makes each correct, in a sentence:

- *reassembler*: what the reader gets is the sender's byte stream, each byte
  once, however it was captured, within a fixed buffer; the tracked TCP state
  claims nothing that did not happen;
- *application decoder*: message boundaries do not depend on how segments cut
  the stream; broken input costs only itself; every poll ends;
- *flow table*: each packet is counted in exactly one flow, flows end exactly
  when the options say;
- *packet decoder*: nothing is read outside the captured bytes, sound frames give
  their payload, corrupt ones are refused, whatever the frame before was;
- *capture reader*: every whole record up to the first unsound one is taken once, with
  its time, in either byte order; the loop leaves behind what it refuses or filters;
- *command line and output*: options mean what they say, sections agree with each
  other, the exit code tells what happened.

The hard behaviours: reordering, repetition, overlap and loss of segments;
sequence numbers that wrap; a bounded buffer that fills; crossing FINs; state
that outlives what it belongs to (the reused `Packet`, `http_chunk_prefix`,
`http_resync_scanned`, `pending_head_requests`, `Applications` kept by key);
lengths stated by the sender; timestamps that go back; files that end anywhere, and
output that fails halfway.

## 2. The modules

```
TcpReassembler          the struct and its methods, as operators
  |-- TcpStream         one reassembler, one sender, one reader  --> ByteStream (what it promises)
  |     `-- TcpStream_proofs: types, buffer accounting
  |           `-- TcpStreamExact_proofs: the stream, and that ByteStream is implemented
  |-- TcpConnection     both reassemblers of a flow, two TCP hosts
  |     `-- TcpConnection_proofs
  `-- FlowTable         keys, flows, expiry
        |-- Decoder     readPacket, decode, AppDecoder by flow, printHttp
        |     `-- Decoder_proofs
        `-- Analyzer    cli(): from the arguments to the exit code
              |  Addresses, Benchmark, Reader, CommandLine: its parts
              `-- Analyzer_proofs
HttpStream              pollStream on HTTP
  `-- HttpStream_proofs
DnsMessages             pollStream and pollDatagram on DNS, dns::parse, DnsTable
  `-- DnsMessages_proofs
PacketDecoder           decodePacket and the protocols' parse functions
  `-- PacketDecoder_proofs
MC*                     the instances TLC runs
```

### TcpReassembler, TcpStream, ByteStream

`TcpReassembler` translates the methods to operators on the struct: sequence
numbers are modulo `SeqSpace` (2^32 in the code), `SeqDiff` is the cast of a
difference to `int32_t`. `OnSent`/`OnReceived` are the state machine, `Ingest`
with its three branches (count only, buffer ahead, assemble), `DrainStep` one
turn of `drain`'s loop, `Consume` with its compaction. The capacity of the vectors
(`INITIAL_CAPACITY`, `SHRINK_THRESHOLD`) is memory, not behaviour, and left out.

`TcpStream` puts one reassembler before a sender of `StreamLen` bytes. Byte *k* is
the number *k*, so that a lost, repeated or moved byte shows. Any piece of the
stream may be captured at any time, in any cut, any number of times: that is
reordering, loss, duplication and retransmission with other boundaries. `Near`
keeps segments less than half the sequence space from `next_seq`, as TCP's window
does. `drain` runs one iteration per step with `pc` and `len` in the place of the
program counter and the local; nothing else can happen until the call returns.
`first`, `next_off`, `fins`, `read` and `captured` are bookkeeping for the properties.

`ByteStream` is the promise: a view of the stream that grows only at its end and
is taken from the front. `TcpStream` implements it with
`view <- read \o Peek(tcp)`, `taken <- Len(read)`.

### TcpConnection

Both reassemblers, driven as `Decoder::decode` does (`onSent` on the sender's,
`onReceived` on the other, then a poll), by the traffic of two TCP hosts, which are
external: handshake, data, FIN from either side, retransmission. `Connections` says
what kinds of connection there are: the bytes each host sends, whether the capture
shows each segment as it is sent (`lossless`) or any segment, late, repeated, out of
order or never, and whether segments may be sent again (`resend`).

### HttpStream

`pollStream` on an HTTP flow. A stream is a sequence of *units*, runs of bytes
that framing treats alike (half a header, the rest of it, a chunk's size line, text
with or without CRLF); a segment may end after any unit, lengths and limits count
units. `http::parse` and `parseChunkedBody` are what they return on units. Each
branch of the loop is an action; `Turn` is what they share. Streams are the
conversations of `MCHttpStream`; `after` keeps a response behind its request. `TakesTurns`
says what a sound conversation is: message after message with bodies as their headers have
them (`BodySound`), and no request before the one in front of it was answered.

### DnsMessages

One direction of a DNS flow: `pollStream`'s two-byte length framing (`Segment`,
`Frame`) or `pollDatagram` (`Datagram`), `dns::parse` with one turn of `parseName`'s
loop per step (`NameEnd`, `NamePointer`, `NameLabel`, `NameRefused`) and one step per
fixed part (`ParseHeader`, `Question`, `ResourceRecord`), and `DnsTable::record`.
Bytes are numbers with the code's meaning: a length, a pointer's top bits with its
14-bit target, the root. What no property tells apart is shortened: a header has one byte
for each field that is looked at, a question's fixed part is its type, a record's its type
and rdlength; these lengths, the limits on a name and the sizes of addresses are
parameters. `touched` holds the offsets the last step read.

### FlowTable, Decoder

`FlowTable` has the key (`KeyFromPacket`, `Normalized`, `Matches`), expiry with
its unsigned differences (modulo `TimeSpace`, 2^64 in the code) and `AddPacket`.
`Decoder` is the pipeline: a packet is refused, filtered, ARP, or tracked (flow,
reassemblers, `Applications`). A payload byte stands for a whole application
message; how messages are cut is `HttpStream`'s question. `PrintHttp` is what the
listing shows.

### PacketDecoder

Each parse function is the list of its checks and reads, in order (`Refuse`,
`Touch`), so that a read before its check shows in `reads`. Lengths are the real ones
in bytes. A frame is a list of headers with their offsets, fields and what
their sender summed; bytes where no header of the kind starts read as any of
`Noise(kind)`. One step parses one header, and the same `Packet` goes through several
frames.

A frame in which those agree is sound: `LaidOut` says from which header each one may
follow, that it begins where the one before ends, that its lengths reach to the end of
the packet and that its checksum covers what the protocol asks for; `SumsHold` that the
checksums are right. It is the sender's side, written without the parse functions.
`FramesAsCalled` of the MC module has TLC evaluate it on every frame of the run.

### Addresses, Benchmark, Reader, CommandLine, Analyzer

`Analyzer` is the program: `cli()` and what it calls, on an instance of `FlowTable`
whose timeouts are the parsed options. Its parts are modules of operators:

- `Addresses`: `addressFromString`, `printIp` of both families and `parseUint`, on
  characters (a digit is its value). Loops with early returns are recursive functions;
  their reference is what the text means, piece by piece (`Meaning6`, `Meaning4`,
  `MeaningOfNumber`).
- `Benchmark`: `start` and `stop` on a clock that advances at each reading; `Around` is
  a phase with the calls inside it.
- `Reader`: the checks of `pcap::parse` on the bytes of a file, `Capture` with byte order
  and time unit, `Consumed`, the phases around them. Header fields are two bytes wide and
  the reserved ones are left out; the link type keeps the masked upper four bits.
- `CommandLine`: `Options` and one round of `parseArgs` (`Argument`, `TakeValue` and the
  operators under it). An argument is the option it spells and the text it has as a value.

| Action | Code |
|---|---|
| `ParseArgs` | one round of `parseArgs`, then its defaults |
| `Told`, `NoDirectory`, `NoCapture`, `NoPacketsFile` | the early ends of `cli` (exit code 2, 0 or 1) |
| `OpenCapture` | the constructor, `init`, `readAllPackets` begins |
| `SkipPacket`, `DropPacket`, `DecodePacket` | one round of `readPacket`'s loop: refused, filtered, decoded and given to the callback |
| `EndOfCapture` | `readPacket` returns an error; the packets file is closed |
| `Emit`, `Finish` | one section each, then the exit code |

What `decodePacket` makes of a frame and which messages a packet completes are an input
here (`Frames`), because `PacketDecoder`, `HttpStream` and `DnsMessages` are about them. A
section is its rows and whether it says that the limit was reached. `env` says what the
file system refuses: the directory, the capture, creating or writing a section's file.

## 3. The runs

| Run | Result | What it shows |
|---|---|---|
| `tcp_stream` | holds | A stream of 4 bytes in a sequence space of 8, starting anywhere (so it wraps), segments of up to 2 bytes, an out-of-order limit of 2 bytes, resets, FINs and the other side's segments of any kind: the stream read is exact (`StreamExact`), `next_seq` is covered and misses no captured byte (`NextSeqCovered`, `NoCapturedByteMissed`), the buffer is bounded, its accounting exact and its order right (`OooBounded`, `OooAccounting`, `OooSorted`), a FIN waits for the bytes before it (`FinAfterAllBytes`), and `ByteStream` is implemented. With retransmission the stream completes, however full the buffer got, unless it is reset (`StreamCompletes`). With and without `keep_payload`. |
| `tcp_connection` | holds | When every segment is captured once, every interleaving of the hosts ends closed, and what came before the other side's FIN is read (`EndsClosed`, `DataBeforeFinIsRead`); with loss, repetition and reordering too the tracked state never runs ahead of the hosts (`StateSound`). |
| `tcp_all_read` | **violated** | Bytes sent after the other side's FIN are assembled and never read (finding 1). |
| `tcp_reopened` | **violated** | A repeated final ACK makes a closed direction established (finding 2). |
| `http_turns` | holds | Six conversations, three that take turns and three with stray or broken bytes, cut in every way: framing exact, all sound messages found, `http_chunk_prefix` valid, every poll ends. |
| `http_pipelined` | **violated** | A HEAD pipelined behind a GET whose response comes in pieces (finding 3). |
| `decoder_mixed` | holds | Up to 4 packets of every kind, empty datagrams among them, over 4 time stamps, three filters: counts conserved, flows retired on time, filter directional; a flow that began with a packet that was polled holds the application state of its own packets, and no other's. |
| `decoder_backwards` | **violated** | A clock that steps back retires a young flow (finding 4). |
| `decoder_listed` | **violated** | A retired flow's messages are replaced in the listing by its successor's (finding 5). |
| `packet_decoder` | holds | Pairs of frames, sound, padded, cut, corrupt, past limits or arbitrary bytes: reads in bounds (`ReadsInBounds`), a sound frame decoded to its transport and exactly its payload when it was captured whole, and refused when it was not (`SoundDecoded`), a wrong checksum found exactly when checksums are verified (`CorruptRefused`), a flow key for whatever is accepted (`CarriesKey`). |
| `dns_messages` | holds | Every 5-byte body over lengths, pointers and reserved bits behind three headers, and exchanges of whole, cut, over-long and empty messages over UDP and in every cut over TCP: nothing is read outside the message (`ReadsInBounds`), a name is what its bytes and pointers spell and what follows it is read after it (`NameExact`), each message is taken whole and once (`FramingExact`), sound ones are decoded up to the limits (`SoundDecoded`), and the table holds the listed address records, once (`TableAgrees`). |
| `analyzer` | holds | About 10,500 starts of the program: every short text of an address or number, command lines with options in every role (but for the all-zero address, which section 4 is about), captures of up to three records, in both byte orders and time units, cut at every byte or with wrong headers and lengths, and output that fails in every place. The command line means what it says and `printIp` writes what `addressFromString` reads (`OptionsAsAsked`); the capture is decoded record by record (`CaptureExact`); no phase is left running and inner phases stay within outer ones (`PhasesBalanced`); the sections list what the summary counts, up to the limit, and none that is text is cut without saying so (`SectionsAgree`); the exit code tells (`ExitTells`); the program ends (`Exits`). |

**Bounds.** `SeqSpace = 8` with `Reach = 3` is the smallest space in which a segment can
lie ahead, behind and across the wrap; four bytes allow two gaps, so that a
drain goes through several segments, stops at a gap and overlaps. A limit of two bytes is
reached by one segment and exceeded by replacing one. `MIN_COMPACT = 1` makes
compaction happen at the second byte. In `TcpConnection` one and two bytes give data before, with
and after a FIN. HTTP limits of 3 and 6 units are passed by the conversations that are
meant to and by no other. Four packets over four time stamps with timeouts 1 and 2 give a
flow, its retirement by either timeout, and its successor. Two frames
are enough for what the first leaves to the second. A DNS header of 5 bytes, at most 2
jumps and 6 octets let a body of 5 bytes hold pointers to itself, to the header,
forward and in a chain; `Reply`, `Long`, `Deep` and `Over` lie on the two limits and one past
each. In `analyzer` an IPv6 address has 3 groups of 2 digits, an IPv4 address 2 octets,
`UINT64_MAX` is 1023 and a second 10 microseconds: texts of up to 7 characters then have a
group, a digit or a gap too many, and numbers of up to 4 digits lie on both sides of every
limit. Three records twenty seconds apart are retired by either timeout, and a limit of 1 or
2 rows lies below, at and above their number.

**Fairness.** `tcp_stream` (`StreamCompletes`): a call that started ends (sequential code, nothing
blocks; weak fairness of its steps), a TCP sender retransmits what is not
acknowledged, and the other side's acknowledgements are captured again and again (strong
fairness, because other segments interleave); resets may happen, and nothing forces one. `http_turns`: the loop of `pollStream` goes
on until it breaks (weak fairness of its turns). `analyzer`: a sequential program takes its
next step (weak fairness of `Next`). Deadlock is not checked where a
capture may simply end.

## 4. Findings

1. `tcp_all_read`: `hasReadableData` (tcp_reassembler.cpp:237) leaves out
   `CloseWait` and `LastAck`.
2. `tcp_reopened`: `onReceived` (tcp_reassembler.cpp:91) handles `Closed` like
   `Listen`.
3. `http_pipelined`: `pollStream` (app_decoder.cpp:131) pops
   `pending_head_requests` at each parse of a response's header, not once per response.
4. `decoder_backwards`: `isExpired` (flow_table.cpp:121) guards one of two
   unsigned differences.
5. `decoder_listed`: `printHttp` (stats_engine.cpp:121) looks messages of retired flows
   up by a key that the next flow shares.

Three more show when a constant is changed, and have no run of their own. With
`SynPayloads = {0, 2}` in `TcpStream.cfg` `StreamExact` fails (a SYN's data is placed at
`seq + 1` when it opens the stream and at `seq` when it is repeated), and with
`Conversations <- BlankLine` in `HttpTurns.cfg` `AllDecoded` fails (`findHttpResync`
skips a newline at index 1). With `Starts <- ZeroAddress` in `Analyzer.cfg` `OptionsAsAsked`
fails: `parseArgs` (cli.cpp:181) accepts `0.0.0.0` (and `::`) as a filter value and the filter
reads zero as none (`isNonZero`), so that nothing is dropped, while the repository's README
says (line 135) that it cannot be used, like port 0 and protocol 0, which are refused. The run
`analyzer` leaves out the texts of that address (`NotZero`) and no other.

Seen while modelling, where no document promises otherwise or nothing wrong is shown:

- a capture whose link type has upper bits set (frame check sequences) passes the masked
  comparison of pcap.cpp:42, and then every packet is skipped (packet.cpp:9 compares the
  whole field);
- a file header that is refused is not reported: the sections are empty, the exit code 0;
- `Benchmark::packets()` counts the packet header that ended the reading too;
- the flow listing says "showing N" also when there are fewer than N flows;
- the packets section, printed while the capture is read, says "limit reached" at the limit
  (cli.cpp:348) also when no packet follows, and as JSON does not say that it was cut, as the
  flows do (stats_engine.cpp:265). `SectionsAgree` therefore asks of it only that its text is
  never cut without a word; of the flows, HTTP and DNS sections, that they say so exactly
  when rows are missing;
- a UDP flow that starts anew with an empty datagram keeps its predecessor's messages
  (app_decoder.cpp:193), and the summary counts them for both: `pollDatagram` returns before
  `appStateFor` clears the state of a new flow. `AppsOfActiveFlow` therefore speaks of the flows
  whose first packet was polled (`polled` in the log); without that condition it fails in four steps.

Harmless, though it looks otherwise: when a HEAD answer makes `pollStream` drop a message
whose chunks were being counted, `http_chunk_prefix` is stale for one turn. The bytes in front
are then a chunk's size line, which is refused as a header, and `resyncHttp` clears the
prefix before it is used. `ChunkPrefixValid` is therefore stated where `subspan` is reached,
and `HttpStream_proofs` shows that the stale prefix never gets there.

## 5. What is proved

Each theorem below holds for every value of the constants its module's assumptions
allow, where the runs of section 3 are small instances. A theorem with a property P states
`Spec => []P`, under the hypothesis named below it where there is one; `ByteStreamImplemented`
states that `TcpStream` implements `ByteStream`.

| Module | Theorem | Property | Inductive invariant |
|---|---|---|---|
| `TcpStream_proofs` | `TypeCorrect` | `TypeOK` | `IInv` |
| | `AccountingCorrect` | `OooAccounting` | `IInv` |
| | `BufferBounded` | `OooBounded` | `IInv` |
| `TcpStreamExact_proofs` | `StreamIsExact` | `StreamExact` | `IInv /\ SInv` |
| | `BufferIsSorted` | `OooSorted` | `IInv /\ SInv` |
| | `NextSeqIsCovered` | `NextSeqCovered` | `IInv /\ SInv` |
| | `NothingIsMissed` | `NoCapturedByteMissed` | `IInv /\ SInv` |
| | `FinIsLast` | `FinAfterAllBytes` | `IInv /\ SInv` |
| | `ByteStreamImplemented` | `ImplementsByteStream` | `IInv /\ SInv`, then step by step |
| `TcpConnection_proofs` | `StateIsSound` | `StateSound` | `CInv` |
| | `BothSidesEndClosed` | `EndsClosed` | `CInv /\ LInv` |
| | `BytesBeforeFinAreRead` | `DataBeforeFinIsRead` | `CInv /\ LInv` |
| `HttpStream_proofs` | `TypeCorrect` | `TypeOK` | `HInv` |
| | `PrefixIsValid` | `ChunkPrefixValid` | `HInv` |
| | `RecordedInOrder` | (its own statement) | `HInv` |
| | `TurnsAreFramed` | `FramingExact` | `HInv /\ VInv` |
| | `TurnsAreDecoded` | `AllDecoded` | `HInv /\ VInv` |
| `DnsMessages_proofs` | `TypeCorrect` | `TypeOK` | `BInv` |
| | `ReadsAreInBounds` | `ReadsInBounds` | `BInv` |
| | `FramingIsExact` | `FramingExact` | `BInv /\ FInv` |
| | `NamesAreExact` | `NameExact` | `BInv /\ NInv` |
| | `TableAgreesWithMessages` | `TableAgrees` | `BInv /\ TInv` |
| `PacketDecoder_proofs` | `TypeCorrect` | `TypeOK` | `PInv` |
| | `ReadsAreInBounds` | `ReadsInBounds` | `PInv` |
| | `AcceptedCarriesKey` | `CarriesKey` | `PInv` |
| | `SoundIsDecoded` | `SoundDecoded` | `PInv /\ WInv` |
| | `CorruptIsRefused` | `CorruptRefused` | `PInv /\ WInv` |
| `Decoder_proofs` | `TypeCorrect` | `TypeOK` | `DInv` |
| | `FilterIsDirectional` | `FilterDirectional` | `DInv` |
| | `FlowsRetiredOnTime` | `RetiredOnTime` | `DInv /\ TInv` |
| | `BytesAndPacketsConserved` | `CountsConserved` | `DInv /\ CInv` |
| | `FlowsHoldTheirOwnMessages` | `AppsOfActiveFlow` | `DInv /\ AInv` |
| `Analyzer_proofs` | `ExitCodeTells` | `ExitTells` | `EInv` |
| | `CaptureIsExact` | `CaptureExact` | `KInv` |
| | `UnfilteredCaptureIsExact` | `CaptureExact` | `UInv`, `KInv` |
| | `PhasesAreBalanced` | `PhasesBalanced` | `BInv` |

### TcpStream: types and accounting

*Assumptions*: `SeqSpaceAssumption` (an even space), `LimitsAssumption` (the two limits are
natural numbers) and `StreamAssumption` (segments fit in the reach, the reach is
less than half the space). `SynPayloads` is arbitrary: these three cover SYNs with data.

*Argument.* None of the three is inductive alone: `drain` subtracts the length
of the segment it takes, which stays non-negative only if that segment is still accounted for. The
invariant is

    IInv == TypeOK /\ OooAccounting /\ (pc # "drain" => len = 0)

where `OooAccounting` says that `ooo_bytes` is the suffix sum of the buffered lengths
from drain's position `len` on. Suffix sums are a function that exists (`SuffixSums`), not
a recursive definition, so that no induction over the buffer is needed: inserting
(`SumsInsert`), growing (`SumsGrow`) and dropping a prefix (`SumsDrop`) each build
the new function from the old one. `BufferAheadOK`, `IngestOK`, `DrainStepOK` and `DrainEraseOK`
lift that to the operators, `SendersOK` and its siblings to the actions, `InitOK` and
`NextOK` close the induction.

### TcpStream: the stream is exact

*Hypothesis* `PlainSyns == SynPayloads \subseteq {0}`: SYNs carry no data, as in
`TcpStream.cfg`. It is needed: a repeated SYN's data is handed to `ingest` under the SYN's
own number, one before that of its first byte, and `StreamExact` then fails (section 4).

*Argument.* The properties speak of offsets in the sender's stream, the code of numbers
modulo 2^32. `Num(i, o)` is the number of byte `o`; `NumDistance`, `NumDiff` and `NumInjective` show
that within the reach the code's differences are the differences of offsets. The buffer is
described by ghost functions of offsets and sizes: `Chain` says that they ascend, lie ahead of
`next_seq` and were captured, and that nothing captured at the byte awaited is missing;
`ChainInsert`, `ChainGrow`, `ChainAdvance`, `ChainDrain` and `ChainErase` are the five things that happen to it,
and `LowerBoundPlace` shows that `std::lower_bound` finds the place that keeps the order. The
view lemmas (`AssembleView`, `ConsumeView`, `DrainStepView`, `DrainEraseView`) say what becomes
of the bytes that can be read. `SInv` puts them together: once the direction
is seeded, `Sound` (the buffer is a chain, what is shown is a slice of the stream from
`first` to `next_seq`, the FIN's number is known to be right) and `FinCarried` (a FIN still
to be acted on in the current call is a real one); before, `Untouched`. It is inductive
only with `pc = "drain"` told apart: during `drain` the segments already passed
may lie behind `next_seq`.

*Refinement.* `View` is what `ByteStream` sees. `StepOnward` shows that a step leaves the read
bytes and the start of the view alone and moves its end forward only, `OnwardFollows`
that a view which ends later extends the earlier one by the bytes that come next, `ReadTakes`
that reading takes from the front; `StepPromised` and `InitPromised` are the two halves of
`ByteStreamImplemented`.

### TcpConnection: the tracked state

*Assumptions*: `ConnectionAssumption` (streams of any length with SYN and FIN below half the
space). No hypothesis on what is captured: lost, late, repeated and reordered segments are
covered, and so is every interleaving of the hosts.

*Argument.* `StateSound` does not hold inductively: that an ACK covers the FIN is judged by `next_seq`,
so `CInv` must say where `next_seq` is. For each direction, `Live` says that it never passes the
host's last unit before the FIN is acted on and is past the FIN afterwards, that a remembered
FIN has the right number, and that buffered segments are the host's; `HostsOK` that
nobody received what was not sent and that each segment on the wire acknowledges no more than
its host has received. A direction that has closed needs nothing more: by then both FINs
are sent and one acknowledged, which stays true for good, whatever the struct does next (it may
reopen, finding 2). That is the first case of `DirOK`. `drain` is one call here, a loop
written as a recursive function over its turns (`DrainRun`); `RunExists` and `RunCore` are inductions on the
number of turns, carried out by the least counterexample.

*How connections end.* `EndsClosed` and `DataBeforeFinIsRead` are about the captures that show
each segment once, as it is sent, in every interleaving of the two hosts, streams of any
length, whoever closes first and however the FINs cross. *Hypothesis* of both theorems:
in such captures no segment is sent again. It is needed, because a host that repeats
its last acknowledgement finds its peer's direction closed and opens it again (finding 2).
`LInv` says for such a capture that each direction is level with its host (`Level`: all that was sent
is assembled, no FIN waits, and what is not yet read is still there), and that its tracked state is the one that belongs to what both
hosts have said (`Tracked`: whether each FIN was sent and whether its own is acknowledged;
before the handshake is over, the handshake's states). `DataSentLevel` and `PeersSegment` are `onSent`
and `onReceived` on a segment as a host makes it; `TransmitLInv` puts the two and the
poll after them together.

### HttpStream

For the first three no hypothesis: any two streams of units, any cut of them, any order of the two directions.
`HInv` holds per direction (`DirOK`): what is consumed has arrived, the recorded messages
are at headers in stream order (`InOrder`), and `PrefixOK`: `http_chunk_prefix` covers whole
chunks behind the header in front (`InChunks`), or the front is a size line (`AtChunk`), which
`ChunkRefused` shows is never parsed as a header. The second case is the stale prefix of
section 4; without it the invariant is not inductive. `RecordedInOrder` says that no message is
recorded twice or out of order, and each where a header starts.

*Conversations that take turns.* `TurnsAreFramed` and `TurnsAreDecoded` have the hypothesis
`TakesTurns(stream)`: the streams are those of a client and a server that keep to HTTP without
pipelining. Bodies may be counted, chunked (within `MAX_HTTP_MESSAGE_BYTES`), absent,
those of a HEAD's answer, past the limit when counted, or last to the close; interim
responses may come at any time; the segments cut and interleave the streams as they
like. `MCHttpStream` assumes of three of its conversations that they are such (`TurnsTaken`, which TLC
evaluates). The hypothesis is needed: `http_pipelined` violates `AllDecoded` where it fails.

`VInv` says where each direction is in its list of messages. `Recording`: the first `Count(d)`
are recorded, all up to their end is consumed or still counted in `http_skip`, and a
direction that is not polled waits for a message that is not there yet. `ChunksOfNext`: the
progress through chunks is that of the next message. `Seen`: what the sender of
a message had to see is recorded when that message arrives, because the other direction's
poll ended first (`SeenIsRecorded`). `Queues`: the queue of HEAD requests is empty, or it holds the
one that waits for its answer; in between, when the header of that answer was parsed and
its body is not complete, the entry is gone already, and only a GET's can be (`QueuesWait`).
This last case is what pipelining breaks. From these, `FrontParses` and `HeaderIs` show
that the header at the front is the next message's, `NoBodyIs` that the queue tells
whether it has a body, `ChunksAtFront` and `BodyIs` how many units that has; `TurnTalks`
puts them together for each branch of the loop.

### DnsMessages

*Assumption* `FlowsAssumption`: the traffic (external) is sequences of bytes in which TCP messages
follow each other with two bytes of length (`LaidOut`); what the messages hold
is arbitrary. `BInv` keeps the offsets of the parser in order and what the last
step touched inside the message; the case that needs care is `NamePointer`, whose target lies
before the name. `FInv` adds that the position is at the end of a message (`Counted`, with as many
counted as lie before it), that a message being parsed is one of the flow's (`Whole`), and that none
waits when the poll has returned (`NoneWaits`). `ParseOutcome` reduces the seven actions of the parser to two
cases, it goes on or it leaves the message, and framing is proved from those alone.

*Names.* What a name means is `Expansion`, a recursive function of an offset and the number of
pointers that may still be followed; where it ends in place is `InPlaceEnd`. That such
functions exist is not for free, because a pointer goes back: each step of `Expansion` goes on
in the message or uses up a pointer, and `Weight` orders the two. `NInv` says that the name read so
far, followed by what stands where `parseName` looks now, is what the name means (`SoFar`),
for any bytes: pointers to themselves, to the header, forward, in chains.

*Table.* `TInv` says that the table's pairs of an address and a name are those that the listed messages
state, each once (`Pairs(domains) = SaidBy(...)`); `record` is a fold over the
answers of a message, whose turns are followed one by one.

### PacketDecoder

*Assumption* `FramesAssumption`: header fields have their widths (`Fields`); which
headers, where, how long and how sound is arbitrary. A parse function is a list of checks and
reads. `Safe(steps, n)` says that each read that comes after checks that all passed lies in
the first `n` bytes; one lemma per function (`Ipv4Safe`, `RouteExtSafe`, ...) shows it of the list,
and `SafeOutcome` and `ParseKeeps` carry it to the step. `PInv` keeps the span within the frame, the
chains within their limits, and `Keyed`: what is accepted is ARP or has a network and a
transport, for a `Packet` that is reused over any number of frames.

*Sound frames.* Neither of the two properties is inductive: they speak of the end of a frame. `WInv`
says where the decoder is before that (`Walk`): in front of the i-th header of the
frame, all before it being of its layer (`Linked`), with the span narrowed to the packet
behind a network header (`Narrowed`), the tags counted and each extension header noted with the
final destination it names (`Noted`). Every header has at least one byte, so the headers ascend and
do not overlap (`Ascending`), and what is read where one begins is that one (`HereLaid`). One
lemma per parse function (`Ipv4Judges`, `ExtJudges`, ...) shows by its list of checks that
`LaidOut` leaves nothing to refuse but the header's own checksum (`Judges`), one per action that
the walk goes on or ends as the properties say. The pseudo-header is the one that was summed because
the last noted destination is the last routing header's (`DestinationIs`). No hypothesis is needed; a frame that is
not `LaidOut` is outside these two and inside the other three.

### Decoder

*Assumption* `PacketsAssumption`: a decoded packet that is not ARP has what a key is made from,
which is `CarriesKey` of `PacketDecoder`. `DInv` keeps keys normalized and the per-direction counts
within what the filter lets through; `SameConversation` shows that two packets get one key exactly when their own keys are
equal or swapped. *Hypothesis* of `FlowsRetiredOnTime`: `Backwards = FALSE`,
timestamps do not go back; the run `decoder_backwards` shows that it is needed. `TInv` ties each
active flow's `first_seen` and `last_seen` to the log: the last packet of the conversation, and the
last one that began a flow (`Timed`).

*Counts.* `CInv` adds to `CountsConserved` that the active flows are finitely many and the
retired ones a list. The sums are the community modules' folds; a fold over a finite set is the sum in any
order and grows by what is added (`ListGrows` and its sibling for maps), which is proved from
the fold's definition by the least counterexample on the size of the set.

*Applications.* `Heard(k, d)` is what the packets of the flow since it began bring direction `d`,
replayed from the log by a recursive function. `AInv` says for each active flow that its
beginning is in the log and, when that packet was polled, that `apps` holds what was heard. A packet
of the flow adds one turn (`OwnHolds`), one of another flow none (`OtherHolds`), and a new flow begins
from nothing (`HeardNothing`), although `apps` may still have the state of its predecessor.

### Analyzer

*Assumptions*: `StartsAssumption` (a command line is a list of arguments, a file a list of
bytes) and those of its parts. The texts, files, frames, limits and timeouts are arbitrary.

- `ExitCodeTells`. `EInv` follows what is left to write and what failed: an exit code is
  0 after a run only when the capture was opened and no section failed, 1 only when one of the two
  did, and then all other sections are there and listed as written, and nothing is shown
  with 2 or when the capture was not opened.
- `CaptureIsExact`. `RecordsFrom` is the list of the records of a file from an offset on, a
  recursive function that goes from the end of the file to its front (`ListsExist`).
  `KInv` says that the log followed by the records still ahead of the reader is all that is to be
  decoded, and the same of what was refused (`Refusals`). A round of `readPacket` moves one record from
  one to the other (`AheadStep`). *Hypothesis*: `[]OptionsAsAsked`. Which records the filter drops
  is decided by the options that `parseArgs` made of texts, and the property by what the texts mean;
  that the two agree is checked (`OptionsAsAsked`), and is not true of every command line:
  an all-zero address is no filter (section 4).
- `UnfilteredCaptureIsExact` needs no such hypothesis: when no filter option is given,
  `UInv` shows that `parseArgs` leaves the filter as it was, whatever else is asked for and
  whichever arguments are taken for values.
- `PhasesAreBalanced`. `BInv` has a clock that advances at each reading, no phase
  running but the ones that are meant to (`Clocked`), inner times within outer ones, and the calls of each phase
  (`Timing`): headers and `decode` run once per record, the flow lookup once per decoded packet, the
  application decoder as often as the flow table counts packets.

### Only model-checked

- `StreamCompletes`, `PollEnds`, `Exits`: liveness, which needs fairness.
- `FramingExact` and `AllDecoded` of `HttpStream` where a conversation does not take turns: stray and
  broken bytes, which `resyncHttp` gets over in the conversations of `http_turns` (and not in
  `BlankLine`), and pipelining, where they do not hold.
- `SoundDecoded` of `DnsMessages`: it compares what was decoded with the fields of the
  messages that the MC module writes, and a message laid out from its fields is defined there.
- `OptionsAsAsked` and `SectionsAgree` of `Analyzer`: the first is about conversions of
  texts, digit by digit, and holds of the command lines `MCAnalyzer` gives (no all-zero
  address as a filter); the second about sorted and cut lists, which the library's `SortSeq` and folds define.
- The behaviours a violated run shows are no theorems: they are findings.

## 6. What is not modelled

- `Decoder::finish`, `FlowTable::flush`, `AppDecoder::prune` and `reset`: no caller
  (the call in pcap_reader.cpp:120 is commented out).
- In `Decoder`, the inside of a DNS message: there `dns::parse` succeeds or fails; its
  bytes are in `DnsMessages`.
- The wording and layout of text and JSON output (`toString`, `toJson`, `indent`,
  `jsonEscape`, the unit formatters), usage and version texts: no property is about them.
- The one's complement sum of `checksum.cpp`: in `PacketDecoder` a checksum holds exactly
  when the bytes its sender summed are there.
- The Windows branches of the reader, which map the file by other calls, and `mmap` itself.
- Growth and shrinking of vectors.
- The fuzz targets, their seeds and the tests: callers of the code, not part of the program.

## 7. Plan

Models: a second connection on the same flow in `TcpConnection`
(tcp_reassembler.cpp:54). Proofs: `SectionsAgree` of `Analyzer` for the
sections that are not sorted; the parts of `OptionsAsAsked` that one argument decides.
