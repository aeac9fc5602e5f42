------------------------------ MODULE Analyzer ------------------------------
(***************************************************************************)
(* The program (cli() of cli.cpp): command line, output directory,         *)
(* capture, packet by packet, and the sections it prints or writes.        *)
(* CommandLine, Reader, Benchmark and FlowTable are its parts; what the    *)
(* layers of a frame are (PacketDecoder), and the messages that a packet   *)
(* completes (HttpStream, DnsMessages), are part of the input here.        *)
(*                                                                         *)
(* A printed text is what a reader can tell from it: rows and whether it   *)
(* says that the limit was reached.                                        *)
(***************************************************************************)
EXTENDS CommandLine, TLC

CONSTANTS
    Starts,     \* what the program is started with and in: argv, file, env
    Frames      \* Frames[b]: what decodePacket makes of a frame that begins with b

Byte == 0 .. 255

ASSUME StartsAssumption ==
    /\ DOMAIN Frames = Byte
    /\ \A s \in Starts : s.argv \in Seq(Arguments) /\ s.file \in Seq(Byte)

VARIABLES
    argv,           \* the arguments
    file,           \* the bytes of the capture file
    env,            \* what works: mkdir, open; what fails: create, write
    pc, opts,
    r, bench,       \* the Reader and its Benchmark
    table, apps,    \* its FlowTable and its AppDecoder
    names,          \* its DnsTable: the names that were resolved
    packets,        \* what the packets section holds
    packets_written,
    todo,           \* sections still to be emitted
    shown,          \* sections that were printed, or written whole
    written, write_failed, code,
    \* What the model remembers in order to state the properties:
    log             \* the captures that were decoded

inputs == <<argv, file, env>>
state  == <<table, apps, names, log>>
result == <<shown, written, write_failed>>
vars   == <<inputs, pc, opts, r, bench, state, packets, packets_written, todo, result, code>>

(* The flow table with the timeouts the user asked for.                    *)
FT == INSTANCE FlowTable WITH
          SeqSpace <- 2, MAX_OOO_BYTES <- 0, MIN_COMPACT_BYTES <- 0,
          TimeSpace <- UINT_MAX + 1,
          idle_timeout_us <- opts.idle, active_timeout_us <- opts.active

(* Parts of the packets section; a packet is its index.                    *)
OPEN  == -1
COMMA == -2
CLOSE == -3
LIMIT_REACHED == -4

(* The order in which the sections are emitted.                            *)
Order == <<"summary", "flows", "http", "dns", "bench">>

ToFile == opts.out_dir # <<>>

Init ==
    /\ \E s \in Starts : argv = s.argv /\ file = s.file /\ env = s.env
    /\ pc = "args" /\ opts = NewOptions
    /\ r = NewReader(<<>>) /\ bench = NewBenchmark(FALSE)
    /\ table = FT!NewTable /\ apps = << >> /\ names = {} /\ log = <<>>
    /\ packets = <<>> /\ packets_written = 0 /\ todo = {}
    /\ shown = << >> /\ written = <<>> /\ write_failed = FALSE /\ code = -1

Exit(c) == pc' = "exit" /\ code' = c

-----------------------------------------------------------------------------
(* Command line and opening                                                *)

ParseArgs ==
    /\ pc = "args" /\ opts.result = "more"
    /\ opts' = IF opts.i <= Len(argv) THEN Argument(opts, argv) ELSE Selected(opts)
    /\ UNCHANGED <<inputs, pc, r, bench, state, packets, packets_written, todo, result, code>>

Told ==
    /\ pc = "args" /\ opts.result \in {"usage", "help", "version"}
    /\ Exit(IF opts.result = "usage" THEN 2 ELSE 0)
    /\ UNCHANGED <<inputs, opts, r, bench, state, packets, packets_written, todo, result>>

Starting == pc = "args" /\ opts.result = "run"

NoDirectory ==
    /\ Starting /\ ToFile /\ ~env.mkdir
    /\ Exit(2)
    /\ UNCHANGED <<inputs, opts, r, bench, state, packets, packets_written, todo, result>>

Ready == Starting /\ (ToFile => env.mkdir)

(* The constructor throws when the file cannot be opened or mapped, or is  *)
(* empty.                                                                  *)
Opens == env.open /\ file # <<>>

NoCapture ==
    /\ Ready /\ ~Opens
    /\ Exit(1)
    /\ UNCHANGED <<inputs, opts, r, bench, state, packets, packets_written, todo, result>>

ShowsPackets == "packets" \in opts.show

PacketsFails == ShowsPackets /\ ToFile /\ "packets" \in env.create

(* init times the file header.                                             *)
Constructed == Around("FileHeader")[NewBenchmark("bench" \in opts.show)]

NoPacketsFile ==
    /\ Ready /\ Opens /\ PacketsFails
    /\ r' = NewReader(file) /\ bench' = Constructed
    /\ Exit(2)
    /\ UNCHANGED <<inputs, opts, state, packets, packets_written, todo, result>>

OpenCapture ==
    /\ Ready /\ Opens /\ ~PacketsFails
    /\ r' = NewReader(file)
    /\ bench' = Start(Constructed, "Total")
    /\ packets' = IF ShowsPackets /\ opts.json THEN <<OPEN>> ELSE <<>>
    /\ pc' = "read"
    /\ UNCHANGED <<inputs, opts, state, packets_written, todo, result, code>>

-----------------------------------------------------------------------------
(* Reading: one round of readPacket's loop                                 *)

Frame == Frames[Capture(file, r).data[1]]

FrameErr == IF DatalinkErr(r) # "None" THEN DatalinkErr(r) ELSE Frame.err

(* An address as the number its bytes make, the first one first.           *)
IpNumber(bytes) ==
    LET number[k \in 0 .. Len(bytes)] == IF k = 0 THEN 0 ELSE 256 * number[k - 1] + bytes[k]
    IN  number[Len(bytes)]

AsNumbers(x) == [x EXCEPT !.src_ip = IpNumber(@), !.dst_ip = IpNumber(@)]

PacketKey(f) == FT!KeyFromPacket(AsNumbers(f))

Filtered(f) ==
    LET filter == AsNumbers(opts.filter)
    IN  /\ FT!IsNonZero(filter)
        /\ ~(FT!HasKey(f) /\ FT!Matches(filter, PacketKey(f)))

Whole == pc = "read" /\ RecordErr(file, r) = "None"

DecodeBench(refused) ==
    DecodeTimed(HeaderTimed(bench, file, r), refused, FT!HasKey(Frame),
                Frame.transport.kind = "tcp")

SkipPacket ==
    /\ Whole /\ FrameErr # "None"
    /\ r' = [r EXCEPT !.at = Consumed(file, r), !.skipped = @ + 1, !.last_skip_err = FrameErr]
    /\ bench' = DecodeBench(TRUE)
    /\ UNCHANGED <<inputs, pc, opts, state, packets, packets_written, todo, result, code>>

(* Fault: a packet the filter drops is looked at again.                    *)
DroppedAgain == r

Dropped == [r EXCEPT !.at = Consumed(file, r)]

DropPacket ==
    /\ Whole /\ FrameErr = "None" /\ Filtered(Frame)
    /\ r' = Dropped
    /\ bench' = DecodeBench(TRUE)
    /\ UNCHANGED <<inputs, pc, opts, state, packets, packets_written, todo, result, code>>

NewApplications == [http |-> <<>>, dns |-> 0, decode_failures |-> 0, http_bodies_skipped |-> 0]

(* The Applications of the packet's direction, with the message it ends.   *)
Polled(a, index) ==
    CASE Frame.msg = "http" -> [a EXCEPT !.http = Append(@, index)]
      [] Frame.msg = "big"  -> [a EXCEPT !.http = Append(@, index), !.http_bodies_skipped = @ + 1]
      [] Frame.msg = "dns"  -> [a EXCEPT !.dns = @ + 1]
      [] Frame.msg = "bad"  -> [a EXCEPT !.decode_failures = @ + 1]
      [] OTHER -> a

(* pollFlow looks at the ports, pollDatagram at the payload and the ports. *)
Polls(key) ==
    CASE Frame.transport.kind = "tcp" -> FT!PortHasAppDecoder(key)
      [] Frame.transport.kind = "udp" ->
            Frame.has_payload /\ FT!DNS_PORT \in {key.src_port, key.dst_port}
      [] OTHER -> FALSE

(* addPacket, and the application decoder where it is polled.              *)
Track(cap, index) ==
    LET key == FT!Normalized(PacketKey(Frame))
        rev == FT!IsReverse(PacketKey(Frame))
        old == IF FT!IsNew(table, key, cap.ts_us) \/ key \notin DOMAIN apps
               THEN [d \in FT!Dirs |-> NewApplications] ELSE apps[key]
    IN  /\ table' = FT!AddPacket(table, key, rev, cap.ts_us, cap.incl_len)
        /\ apps' = IF ~Polls(key) THEN apps
                   ELSE FT!Put(apps, key, [old EXCEPT ![FT!DirOf(rev)] = Polled(@, index)])

AtLimit == opts.limit # 0 /\ packets_written >= opts.limit

(* The callback: the packet under its index, JSON with commas between.     *)
PrintPacket(index) ==
    IF ~ShowsPackets \/ AtLimit THEN UNCHANGED <<packets, packets_written>>
    ELSE /\ packets' = packets
                \o (IF opts.json /\ packets_written > 0 THEN <<COMMA>> ELSE <<>>)
                \o <<index>>
                \o (IF ~opts.json /\ packets_written + 1 = opts.limit THEN <<LIMIT_REACHED>>
                    ELSE <<>>)
         /\ packets_written' = packets_written + 1

DecodePacket ==
    LET cap == Capture(file, r)
    IN  /\ Whole /\ FrameErr = "None" /\ ~Filtered(Frame)
        /\ r' = [r EXCEPT !.at = Consumed(file, r), !.decoded = @ + 1]
        /\ bench' = DecodeBench(FALSE)
        /\ IF FT!HasKey(Frame) THEN Track(cap, r.decoded + 1) ELSE UNCHANGED <<table, apps>>
        /\ names' = names \cup ({Frame.name} \ {0})
        /\ log' = Append(log, cap)
        /\ PrintPacket(r.decoded + 1)
        /\ UNCHANGED <<inputs, pc, opts, todo, result, code>>

(* readPacket returns an error: the packets section is closed, and the     *)
(* others are next.                                                        *)
EndOfCapture ==
    /\ pc = "read" /\ RecordErr(file, r) # "None"
    /\ r' = [r EXCEPT !.at = Consumed(file, r)]
    /\ bench' = Stop(HeaderTimed(bench, file, r), "Total")
    /\ packets' = packets \o (IF ShowsPackets /\ opts.json THEN <<CLOSE>> ELSE <<>>)
    /\ write_failed' = (ShowsPackets /\ ToFile /\ "packets" \in env.write)
    /\ written' = IF ShowsPackets /\ ToFile /\ ~write_failed' THEN <<"packets">> ELSE <<>>
    /\ todo' = opts.show \ {"packets"}
    /\ pc' = "emit"
    /\ UNCHANGED <<inputs, opts, state, packets_written, shown, code>>

-----------------------------------------------------------------------------
(* Sections                                                                *)

(* allFlows, the largest first; between equals the order tells nothing.    *)
FlowRows == SortSeq(FT!AllFlows(table),
                    LAMBDA f, g : FT!TotalOf(f.flow, "bytes") > FT!TotalOf(g.flow, "bytes"))

AppsOf(key) == IF key \in DOMAIN apps THEN apps[key] ELSE [d \in FT!Dirs |-> NewApplications]

HttpRows ==
    FlattenSeq([k \in 1 .. Len(FlowRows) |->
                  AppsOf(FlowRows[k].key)["fwd"].http \o AppsOf(FlowRows[k].key)["rev"].http])

DnsRows == SetToSortSeq(names, <)

(* The rows of a loop that breaks once the number printed is in stops, and *)
(* whether it says that there were more.                                   *)
PrintUntil(rows, stops) ==
    LET n == Min({Len(rows)} \cup (stops \cap 0 .. Len(rows)))
    IN  [rows |-> SubSeq(rows, 1, n), more |-> n < Len(rows)]

(* Fault: one row more than the limit.                                     *)
PrintFlowsOneMore == PrintUntil(FlowRows, {opts.limit + 1})

PrintFlows == PrintUntil(FlowRows, {opts.limit} \ {0})

PrintHttp == PrintUntil(HttpRows, IF opts.limit = 0 THEN {} ELSE opts.limit .. UINT_MAX)

PrintDns == PrintUntil(DnsRows, {opts.limit} \ {0})

(* printSummary: packets, bytes and flows, and the messages of all flows.  *)
PrintSummary ==
    LET Sum(Of(_)) == FoldLeft(LAMBDA n, f : n + Of(AppsOf(f.key)["fwd"]) + Of(AppsOf(f.key)["rev"]),
                               0, FlowRows)
    IN  [decoded |-> r.decoded, skipped |-> r.skipped, last_skip_err |-> r.last_skip_err,
         bytes |-> table.total_bytes,
         active |-> Cardinality(DOMAIN table.flows), retired |-> Len(table.completed),
         dns_messages |-> Sum(LAMBDA a : a.dns), http_messages |-> Sum(LAMBDA a : Len(a.http)),
         decode_failures |-> Sum(LAMBDA a : a.decode_failures),
         http_bodies_skipped |-> Sum(LAMBDA a : a.http_bodies_skipped)]

Rendered(section) ==
    CASE section = "summary" -> PrintSummary
      [] section = "flows"   -> PrintFlows
      [] section = "http"    -> PrintHttp
      [] section = "dns"     -> PrintDns
      [] section = "bench"   -> bench.phases

(* Is it the section's turn?                                               *)
IsNext(section) ==
    \E k \in DOMAIN Order :
       /\ section = Order[k] /\ section \in todo
       /\ \A j \in 1 .. k - 1 : Order[j] \notin todo

(* emit's file cannot be opened, or written and closed.                    *)
EmitFails(section) == ToFile /\ section \in env.create \cup env.write

(* Fault: the first file that fails is the last one tried.                 *)
EmitUntilFailure(section) ==
    LET fails == EmitFails(section)
    IN  /\ pc = "emit" /\ IsNext(section)
        /\ todo' = IF fails THEN {} ELSE todo \ {section}
        /\ shown' = IF fails THEN shown ELSE FT!Put(shown, section, Rendered(section))
        /\ write_failed' = (write_failed \/ fails)
        /\ written' = IF ToFile /\ ~fails THEN Append(written, section) ELSE written
        /\ UNCHANGED <<inputs, pc, opts, r, bench, state, packets, packets_written, code>>

(* emit: a file that cannot be opened or written is reported, and the next *)
(* section is emitted all the same.                                        *)
Emit(section) ==
    LET fails == EmitFails(section)
    IN  /\ pc = "emit" /\ IsNext(section)
        /\ todo' = todo \ {section}
        /\ shown' = IF fails THEN shown ELSE FT!Put(shown, section, Rendered(section))
        /\ write_failed' = (write_failed \/ fails)
        /\ written' = IF ToFile /\ ~fails THEN Append(written, section) ELSE written
        /\ UNCHANGED <<inputs, pc, opts, r, bench, state, packets, packets_written, code>>

Finish ==
    /\ pc = "emit" /\ todo = {}
    /\ Exit(IF write_failed THEN 1 ELSE 0)
    /\ UNCHANGED <<inputs, opts, r, bench, state, packets, packets_written, todo, result>>

Next ==
    \/ ParseArgs \/ Told \/ NoDirectory \/ NoCapture \/ NoPacketsFile \/ OpenCapture
    \/ SkipPacket \/ DropPacket \/ DecodePacket \/ EndOfCapture
    \/ \E section \in Sections : Emit(section)
    \/ Finish

Spec == Init /\ [][Next]_vars /\ WF_vars(Next)

-----------------------------------------------------------------------------
(* Reference: a capture f by its format, and what the arguments a want.    *)

BigEndian(f) == f[1] = 161

Number(f, at, n) ==
    LET first == f[at + 2 * n - 1]
        second == f[at + 2 * n]
    IN  IF BigEndian(f) THEN 256 * first + second ELSE 256 * second + first

SoundFile(f) ==
    /\ Len(f) >= FILE_HEADER_LEN
    /\ \/ f[1] = 161 /\ f[2] \in {212, 77}
       \/ f[2] = 161 /\ f[1] \in {212, 77}
    /\ Number(f, 0, 2) = 2 /\ Number(f, 0, 3) = 4
    /\ Number(f, 0, 4) # 0 /\ Number(f, 0, 5) % 4096 = LINKTYPE_ETHERNET

(* The record at offset at, and whether there is a whole and sound one.    *)
RecordAt(f, at) ==
    LET unit == IF 77 \in {f[1], f[2]} THEN NS_PER_US ELSE 1
    IN  [ts_us |-> Number(f, at, 1) * US_PER_SEC + Number(f, at, 2) \div unit,
         incl_len |-> Number(f, at, 3),
         data |-> [k \in 1 .. Number(f, at, 3) |-> f[at + PACKET_HEADER_LEN + k]]]

Beyond(f, at) == at + PACKET_HEADER_LEN + Number(f, at, 3)

IsRecord(f, at) ==
    /\ at + PACKET_HEADER_LEN <= Len(f)
    /\ Number(f, at, 3) \in 1 .. Number(f, at, 4)
    /\ Beyond(f, at) <= Len(f)

FilterOptions == AddressOptions \cup PortOptions \cup {"--proto"}

(* What a frame has where the option looks.                                *)
Has(frame, opt) ==
    LET version == IF frame.network = "v4" THEN 4 ELSE 6
    IN  CASE opt = "--src-ip" -> <<version, frame.src_ip>>
          [] opt = "--dst-ip" -> <<version, frame.dst_ip>>
          [] opt = "--src-port" -> FT!Ports(frame.transport)[1]
          [] opt = "--dst-port" -> FT!Ports(frame.transport)[2]
          [] opt = "--proto"    -> FT!Protocol(frame.transport)

Wanted(a, frame) ==
    \A opt \in FilterOptions :
       LET given == Given(a, {opt})
       IN  given # {} => FT!HasKey(frame) /\ Has(frame, opt) \in ValueMeans(a, Max(given))

(* What is to become of a record.                                          *)
ErrOf(f, rec) ==
    IF Number(f, 0, 5) # LINKTYPE_ETHERNET THEN "UnsupportedLinktype"
    ELSE Frames[rec.data[1]].err

Fate(a, f, rec) ==
    IF ErrOf(f, rec) # "None" THEN "refused"
    ELSE IF Wanted(a, Frames[rec.data[1]]) THEN "decoded" ELSE "dropped"

Fates == {"refused", "decoded", "dropped"}

(* The records from an offset up to the first that is cut off or unsound,  *)
(* those that have one of the fates.                                       *)
RecordsFrom(a, f, from, fates) ==
    LET list[at \in 0 .. Len(f)] ==
          IF ~IsRecord(f, at) THEN <<>>
          ELSE (IF Fate(a, f, RecordAt(f, at)) \in fates THEN <<RecordAt(f, at)>> ELSE <<>>)
                  \o list[Beyond(f, at)]
    IN  list[from]

Records(fates) ==
    IF SoundFile(file) THEN RecordsFrom(argv, file, FILE_HEADER_LEN, fates) ELSE <<>>

-----------------------------------------------------------------------------
(* Properties                                                              *)

(* Whatever the byte order and the unit of its times, a capture is decoded *)
(* record by record: each whole record up to the first unsound one once,   *)
(* in order and with its time in microseconds, unless its frame is refused *)
(* and counted, or is not what the command line's filter asks for.         *)
CaptureExact ==
    pc \in {"read", "emit"} =>
       LET good == Records({"decoded"})
           bad  == Records({"refused"})
       IN  /\ r.at <= Len(file)
           /\ IsPrefix(log, good)
           /\ pc = "emit" => /\ log = good
                             /\ r.decoded = Len(good) /\ r.skipped = Len(bad)
                             /\ bad # <<>> => r.last_skip_err = ErrOf(file, Last(bad))

(* The filter drops the packets that the filter options do not ask for.    *)
FilterAsAsked ==
    pc = "read" => \A b \in Byte : Frames[b].err = "None" =>
                      (Filtered(Frames[b]) <=> ~Wanted(argv, Frames[b]))

(* The command line is carried out as it reads: it is refused exactly when *)
(* a value means nothing to its option (zero as a filter's address, port   *)
(* or protocol means nothing), an argument is not known or the families of *)
(* two addresses differ; otherwise every option has the value its last     *)
(* occurrence means, with no number wrapped, the filter drops the packets  *)
(* that were not asked for, and the address the program prints for a       *)
(* filter is one it takes for the same filter.                             *)
OptionsAsAsked ==
    /\ pc = "args" /\ opts.result = "usage" => ~Acceptable(argv)
    /\ pc = "args" /\ opts.result = "run" =>
         LET f == opts.filter
             v == IF f.isIpv4 THEN 4 ELSE 6
             Asks(opt, value) == Given(argv, {opt}) # {} =>
                                    ValueMeans(argv, Max(Given(argv, {opt}))) = {value}
             text == IF f.isIpv4 THEN PrintIp4(f.src_ip) ELSE PrintIp6(f.src_ip)
         IN  /\ Acceptable(argv)
             /\ Asks("--src-ip", <<v, f.src_ip>>) /\ Asks("--dst-ip", <<v, f.dst_ip>>)
             /\ Asks("--src-port", f.src_port) /\ Asks("--dst-port", f.dst_port)
             /\ Asks("--proto", f.protocol) /\ Asks("--limit", opts.limit)
             /\ Asks("--timeout", opts.active) /\ Asks("--idle", opts.idle)
             /\ FilterIp(text) = [version |-> v, ip |-> f.src_ip]
    /\ FilterAsAsked

(* Whichever way a round ends, no phase is left running behind it but      *)
(* Total; without -b nothing is timed per packet; with it every record is  *)
(* timed once, and the phases inside another take no longer than that one. *)
PhasesBalanced ==
    LET P(p) == bench.phases[p]
        Calls(p) == P(p).calls
        Elapsed(p) == P(p).elapsed_ns
    IN  /\ \A p \in Phases \ {"Total"} : ~P(p).running
        /\ P("Total").running <=> pc = "read"
        /\ ~bench.detailed => \A p \in PerPacket : Calls(p) = 0
        /\ Elapsed("DecodePacket") + Elapsed("FlowLookup") + Elapsed("TcpReassembly")
              + Elapsed("AppDecode") <= Elapsed("Decode")
        /\ pc = "emit" => Elapsed("PacketHeader") + Elapsed("Decode") <= Elapsed("Total")
        /\ pc = "emit" /\ bench.detailed =>
              /\ Calls("Decode") = Len(Records(Fates))
              /\ Calls("DecodePacket") = Calls("Decode")
              /\ Calls("PacketHeader") - Calls("Decode") \in {0, 1}
              /\ Calls("FlowLookup") = r.decoded
              /\ Calls("TcpReassembly") <= Calls("AppDecode")
              /\ Calls("AppDecode") = FT!SumOverFlows(table, "packets")

Least(m, n) == IF m < n THEN m ELSE n
Limited(n)  == IF opts.limit = 0 THEN n ELSE Least(n, opts.limit)

(* The packets section is a list of the first packets, in JSON a list of   *)
(* elements between brackets with a comma between two.  It is printed while*)
(* the capture is read: as text it is never cut without a word, and the    *)
(* word comes at the limit, whether or not a packet follows; JSON has none.*)
PacketsListed ==
    LET n == Limited(r.decoded)
    IN  IF opts.json
        THEN /\ packets[1] = OPEN /\ Last(packets) = CLOSE
             /\ Len(packets) = (IF n = 0 THEN 2 ELSE 2 * n + 1)
             /\ \A k \in 1 .. n : packets[2 * k] = k
             /\ \A k \in 1 .. n - 1 : packets[2 * k + 1] = COMMA
        ELSE /\ packets \in {[k \in 1 .. n |-> k], Append([k \in 1 .. n |-> k], LIMIT_REACHED)}
             /\ n < r.decoded => Len(packets) > n
             /\ Len(packets) > n => n = opts.limit

(* Each section lists the rows it has up to the limit, the largest flows   *)
(* first, and agrees with what the summary counts.  Flows, HTTP and DNS say*)
(* that the limit was reached exactly when they left rows out; packets as  *)
(* PacketsListed says.                                                     *)
SectionsAgree ==
    pc = "exit" =>
       LET Lists(s, n) == s \in DOMAIN shown =>
                             /\ Len(shown[s].rows) = Limited(n)
                             /\ shown[s].more <=> Limited(n) < n
           flows == shown["flows"].rows
           Bytes(k) == FT!TotalOf(flows[k].flow, "bytes")
       IN  /\ code # 2 /\ opts.result = "run" /\ Opens /\ ShowsPackets => PacketsListed
           /\ Lists("dns", Cardinality(names))
           /\ "summary" \in DOMAIN shown =>
                 LET sum == shown["summary"]
                 IN  /\ Lists("flows", sum.active + sum.retired)
                     /\ Lists("http", sum.http_messages)
                     /\ "flows" \in DOMAIN shown /\ ~shown["flows"].more =>
                           sum.bytes = FoldSet(LAMBDA k, n : n + Bytes(k), 0, DOMAIN flows)
           /\ "flows" \in DOMAIN shown =>
                 /\ \A j, k \in DOMAIN flows : j < k => Bytes(j) >= Bytes(k)
                 /\ \A k \in DOMAIN flows, e \in ToSet(FT!AllFlows(table)) \ ToSet(flows) :
                       Bytes(k) >= FT!TotalOf(e.flow, "bytes")

(* The exit code tells: with 0 all that was asked for is there; with 1 the *)
(* capture could not be read or a file could not be written, and all other *)
(* sections are there and listed as written; with 2 nothing is shown.      *)
ExitTells ==
    pc = "exit" =>
       LET broken == IF ToFile THEN opts.show \cap (env.create \cup env.write) ELSE {}
           there  == opts.show \ broken
       IN  /\ code \in 0 .. 2
           /\ code = 0 /\ opts.result = "run" => broken = {} /\ Opens
           /\ code = 1 => broken # {} \/ ~Opens
           /\ code = 2 \/ ~Opens => shown = << >> /\ written = <<>>
           /\ code # 2 /\ opts.result = "run" /\ Opens =>
                 /\ DOMAIN shown = there \ {"packets"}
                 /\ IF ToFile THEN ToSet(written) = there /\ Len(written) = Cardinality(there)
                    ELSE written = <<>>

(* The program ends, whatever the file holds and the filter drops.         *)
Exits == <>(pc = "exit")

=============================================================================
