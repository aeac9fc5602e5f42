---------------------------- MODULE PacketDecoder ----------------------------
(***************************************************************************)
(* decode::decodePacket: one captured frame after another goes through the *)
(* link, network and transport layers.  One Packet struct is used for all  *)
(* of them.  A span is where it starts in the frame and its size; lengths  *)
(* are the real ones, in bytes.                                            *)
(*                                                                         *)
(* A frame is what a sender put on the wire (external): its headers, each  *)
(* with its offset and the fields the decoder looks at, where it ends, and *)
(* how many bytes were captured.  Bytes at which no header of the kind     *)
(* looked for starts (a lying length, another protocol) read as anything   *)
(* in Noise(kind).                                                         *)
(*                                                                         *)
(* A step parses one header.                                               *)
(***************************************************************************)
EXTENDS Integers, Sequences, SequencesExt, FiniteSetsExt

CONSTANTS
    Frames,         \* frames that may be captured
    Noise(_),       \* headers of a kind that other bytes may read as
    Configs,        \* [verify_checksum, linktype] of a run
    MaxFrames       \* bound: frames decoded in a behaviour

MAX_TAGS    == 4
MAX_HEADERS == 8

Extensions == {"hopopt", "route", "frag", "ah", "opts"}
Transports == {"tcp", "udp", "icmp", "icmpv6"}

Kinds == {"eth", "vlan", "ipv4", "ipv6", "ext", "arp"} \cup Transports

(* The fields of a header of a kind that the decoder looks at.             *)
Fields(kind, h) ==
    /\ kind \in {"eth", "vlan"} => h.ethertype \in STRING
    /\ kind = "vlan" => h.reserved \in BOOLEAN
    /\ kind = "ipv4" => h.ihl \in Nat /\ h.total_length \in Nat /\ h.protocol \in STRING
    /\ kind = "ipv6" => h.payload_length \in Nat
    /\ kind = "ext"  => /\ h.hdr_ext_len \in Nat /\ h.segments_left \in Nat
                        /\ h.fragment \in BOOLEAN
                        /\ h.routing_type \in STRING /\ h.addrs \in Seq(STRING)
    /\ kind \in {"ipv6", "ext"} => h.next_header \in STRING
    /\ kind \in {"ipv4", "ipv6"} => h.version \in Nat /\ h.dst \in STRING
    /\ kind = "arp"  => h.hlen \in Nat /\ h.plen \in Nat
    /\ kind = "tcp"  => h.data_offset \in Nat
    /\ kind = "udp"  => h.length \in Nat /\ h.zero \in BOOLEAN
    /\ kind \in {"icmp", "icmpv6"} => h.type \in STRING /\ h.code \in Nat
    /\ kind = "icmpv6" => h.mtu \in Nat
    /\ kind \in {"ipv4"} \cup Transports => h.sum.ok \in BOOLEAN

ASSUME FramesAssumption ==
    /\ MaxFrames \in Nat
    /\ Configs \subseteq [verify_checksum : BOOLEAN, linktype : {"ethernet", "other"}]
    /\ \A f \in Frames : f.incl \in Nat /\ \A h \in Range(f.hdrs) : Fields(h.kind, h)
    /\ \A kind \in Kinds : \A h \in Noise(kind) : Fields(kind, h)

VARIABLES
    config,     \* the options and the file's link type
    frame,      \* the frame being decoded
    count,      \* frames taken so far
    pc,         \* the header to parse next, or "done"
    at, size,   \* the span
    pkt,        \* the Packet
    next,       \* layer 2 and 3's local: what the last header says follows
    err,        \* the ParseError
    reads       \* what the last step read, against the span it was given

vars == <<config, frame, count, pc, at, size, pkt, next, err, reads>>

-----------------------------------------------------------------------------
(* A parse function is its checks and its reads in the order they are made.*)

Refuse(when, e)  == [when |-> when, err |-> e, from |-> 0, to |-> 0]
Touch(from, to)  == [when |-> FALSE, err |-> "None", from |-> from, to |-> to]

Outcome(steps) ==
    LET end == Min({i \in 1 .. Len(steps) : steps[i].when} \cup {Len(steps) + 1})
    IN  [err   |-> Append(steps, Refuse(TRUE, "None"))[end].err,
         reads |-> {[from |-> steps[i].from, to |-> steps[i].to] : i \in 1 .. end - 1}]

(* The headers that the bytes at the front of the span can read as.        *)
Here(kind) ==
    LET sent == {h \in Range(frame.hdrs) : h.at = at /\ h.kind = kind}
    IN  IF sent = {} THEN Noise(kind) ELSE sent

(* What verifyChecksum(span.data(), n, pseudo) may return: the truth about *)
(* the bytes the sender summed, and anything about other bytes.            *)
Verified(h, n, pseudo) ==
    IF h.sum.n = n /\ h.sum.pseudo = pseudo THEN {h.sum.ok} ELSE BOOLEAN

(* A header is parsed: the span moves past it and p is the packet, or the  *)
(* error is returned.                                                      *)
Parse(steps, eat, keep, p, follows, to) ==
    LET out == Outcome(steps)
        ok  == out.err = "None"
    IN  /\ err'   = out.err
        /\ reads' = [ranges |-> out.reads, size |-> size]
        /\ at'    = IF ok THEN at + eat ELSE at
        /\ size'  = IF ok THEN keep ELSE size
        /\ pkt'   = IF ok THEN p ELSE pkt
        /\ next'  = IF ok THEN follows ELSE next
        /\ pc'    = IF ok THEN to ELSE "done"
        /\ UNCHANGED <<config, frame, count>>

(* A layer that has no parser.                                             *)
Unsupported(e) ==
    /\ err' = e /\ pc' = "done"
    /\ UNCHANGED <<config, frame, count, at, size, pkt, next, reads>>

-----------------------------------------------------------------------------
(* Layer 2                                                                 *)

EthernetSteps(h) == <<Refuse(size < 14, "UnexpectedEof"), Touch(0, 14)>>

(* Fault: one tag more than the limit.                                     *)
VlanStepsOneMore(h) ==
    <<Refuse(pkt.vlan_tags > MAX_TAGS, "MalformedHeader"),
      Refuse(size < 4, "UnexpectedEof"), Touch(0, 4),
      Refuse(h.reserved, "InvalidFieldValue")>>

VlanSteps(h) ==
    <<Refuse(pkt.vlan_tags >= MAX_TAGS, "MalformedHeader"),
      Refuse(size < 4, "UnexpectedEof"), Touch(0, 4),
      Refuse(h.reserved, "InvalidFieldValue")>>

NetworkFromEthertype(e) == IF e \in {"ipv4", "ipv6", "arp"} THEN e ELSE "none"

TransportFromProtocol(p) == IF p \in Transports THEN p ELSE "none"

(* The next header after layer 2's e: another tag, or the network layer.   *)
Layer2(h, steps, eat, p) ==
    IF h.ethertype = "vlan"
    THEN Parse(steps, eat, size - eat, p, "vlan", "vlan")
    ELSE Parse(steps, eat, size - eat,
               [p EXCEPT !.network = NetworkFromEthertype(h.ethertype)],
               h.ethertype, "layer3")

Ethernet ==
    /\ pc = "layer2" /\ config.linktype = "ethernet"
    /\ \E h \in Here("eth") : Layer2(h, EthernetSteps(h), 14, pkt)

OtherLink ==
    pc = "layer2" /\ config.linktype # "ethernet" /\ Unsupported("UnsupportedLinktype")

Vlan ==
    /\ pc = "vlan"
    /\ \E h \in Here("vlan") :
          Layer2(h, VlanSteps(h), 4, [pkt EXCEPT !.vlan_tags = @ + 1])

-----------------------------------------------------------------------------
(* Layer 3                                                                 *)

Ipv4Steps(h, sum_ok) ==
    <<Refuse(size < 20, "UnexpectedEof"), Touch(0, 20),
      Refuse(4 * h.ihl < 20, "MalformedHeader"),
      Refuse(size < 4 * h.ihl, "UnexpectedEof"),
      Refuse(h.version # 4, "InvalidFieldValue"),
      Touch(0, 4 * h.ihl),
      Refuse(config.verify_checksum /\ ~sum_ok, "ChecksumMismatch"),
      Refuse(h.total_length < 4 * h.ihl, "MalformedHeader"),
      Refuse(h.total_length > size, "UnexpectedEof")>>

Ipv4 ==
    /\ pc = "layer3" /\ pkt.network = "ipv4"
    /\ \E h \in Here("ipv4") : \E sum_ok \in Verified(h, 4 * h.ihl, "none") :
          Parse(Ipv4Steps(h, sum_ok), 4 * h.ihl, h.total_length - 4 * h.ihl,
                [pkt EXCEPT !.transport = TransportFromProtocol(h.protocol),
                            !.ip = [length |-> h.total_length - 4 * h.ihl,
                                    protocol |-> h.protocol, dst |-> h.dst]],
                h.protocol, "layer4")

Ipv6Steps(h) ==
    <<Refuse(size < 40, "UnexpectedEof"), Touch(0, 40),
      Refuse(h.version # 6, "InvalidFieldValue"),
      Refuse(h.payload_length > size - 40, "UnexpectedEof")>>

(* After an IPv6 header that names protocol n: an extension, or layer 4.   *)
Layer3(steps, eat, keep, p, n, fragment) ==
    IF n \in Extensions /\ ~fragment
    THEN Parse(steps, eat, keep, p, n, "ext")
    ELSE Parse(steps, eat, keep,
               [p EXCEPT !.transport = IF fragment THEN @ ELSE TransportFromProtocol(n)],
               n, "layer4")

Ipv6 ==
    /\ pc = "layer3" /\ pkt.network = "ipv6"
    /\ \E h \in Here("ipv6") :
          Layer3(Ipv6Steps(h), 40, h.payload_length,
                 [pkt EXCEPT !.ip = [length |-> h.payload_length,
                                     protocol |-> h.next_header, dst |-> h.dst]],
                 h.next_header, FALSE)

ExtLength(type, n) ==
    CASE type = "frag" -> 8
      [] type = "ah"   -> 4 * (n + 2)
      [] OTHER         -> 8 * (n + 1)

(* Does a routing header still name the final destination?                 *)
Addressed(type, h) ==
    type = "route" /\ h.routing_type \in {"type0", "type2", "srh"} /\ h.segments_left > 0

(* Where that address is.                                                  *)
FinalDstOffset(h) ==
    IF h.routing_type = "srh" THEN 8 ELSE 8 + 16 * (h.hdr_ext_len \div 2 - 1)

(* Fault: a routing header is taken to have room for an address.           *)
ExtStepsUnsized(type, h) ==
    LET length == ExtLength(type, h.hdr_ext_len)
    IN  <<Refuse(Len(pkt.ipv6_ext) >= MAX_HEADERS, "MalformedHeader"),
          Refuse(size < 8, "UnexpectedEof"), Touch(0, 8),
          Refuse(size < length, "UnexpectedEof")>>
        \o IF Addressed(type, h)
           THEN <<Touch(FinalDstOffset(h), FinalDstOffset(h) + 16)>> ELSE <<>>

ExtSteps(type, h) ==
    LET length == ExtLength(type, h.hdr_ext_len)
    IN  <<Refuse(Len(pkt.ipv6_ext) >= MAX_HEADERS, "MalformedHeader"),
          Refuse(type = "hopopt" /\ pkt.ipv6_ext # <<>>, "InvalidFieldValue"),
          Refuse(size < 8, "UnexpectedEof"), Touch(0, 8),
          Refuse(type = "ah" /\ length < 12, "MalformedHeader"),
          Refuse(size < length, "UnexpectedEof")>>
        \o IF Addressed(type, h)
           THEN <<Refuse(h.hdr_ext_len < 2 \/ h.hdr_ext_len % 2 # 0, "MalformedHeader"),
                  Touch(FinalDstOffset(h), FinalDstOffset(h) + 16)>>
           ELSE <<>>

(* The address read there; addrs is the header's list as it is on the wire.*)
FinalDst(type, h) ==
    LET i == (FinalDstOffset(h) - 8) \div 16 + 1
    IN  IF Addressed(type, h) /\ i \in DOMAIN h.addrs THEN h.addrs[i] ELSE "none"

Ext ==
    /\ pc = "ext"
    /\ \E h \in Here("ext") :
          LET length == ExtLength(next, h.hdr_ext_len)
              e == [next_header |-> h.next_header, final_dst |-> FinalDst(next, h)]
          IN  Layer3(ExtSteps(next, h), length, size - length,
                     [pkt EXCEPT !.ipv6_ext = Append(@, e)], h.next_header,
                     next = "frag" /\ h.fragment)

ArpSteps(h) ==
    <<Refuse(size < 8, "UnexpectedEof"), Touch(0, 8),
      Refuse(h.hlen = 0 \/ h.plen = 0, "InvalidFieldValue"),
      Refuse(size < 8 + 2 * h.hlen + 2 * h.plen, "UnexpectedEof"),
      Touch(8, 8 + 2 * h.hlen + 2 * h.plen)>>

(* ARP has no layer 4, and the payload is left as it was.                  *)
Arp ==
    /\ pc = "layer3" /\ pkt.network = "arp"
    /\ \E h \in Here("arp") :
          LET n == 8 + 2 * h.hlen + 2 * h.plen
          IN  Parse(ArpSteps(h), n, size - n, pkt, next, "done")

OtherNetwork ==
    pc = "layer3" /\ pkt.network = "none" /\ Unsupported("UnsupportedNetworkType")

-----------------------------------------------------------------------------
(* Layer 4                                                                 *)

(* The destination the checksum covers: the last one that an extension     *)
(* header named.                                                           *)
PseudoDst ==
    LET named == {i \in DOMAIN pkt.ipv6_ext : pkt.ipv6_ext[i].final_dst # "none"}
    IN  IF named = {} THEN pkt.ip.dst ELSE pkt.ipv6_ext[Max(named)].final_dst

(* What the checksum's pseudo-header is made of: for IPv6 with extensions, *)
(* the length and protocol after them and the final destination.           *)
PseudoHeader ==
    IF pkt.network = "ipv4" \/ pkt.ipv6_ext = <<>> THEN pkt.ip
    ELSE [length   |-> size % 65536,
          protocol |-> Last(pkt.ipv6_ext).next_header,
          dst      |-> PseudoDst]

TcpSteps(h, sum_ok) ==
    <<Refuse(size < 20, "UnexpectedEof"), Touch(0, 20),
      Refuse(\/ 4 * h.data_offset < 20 \/ PseudoHeader.length < 4 * h.data_offset
             \/ size < PseudoHeader.length, "MalformedHeader"),
      Refuse(size < 4 * h.data_offset, "UnexpectedEof"),
      Touch(0, PseudoHeader.length),
      Refuse(config.verify_checksum /\ ~sum_ok, "ChecksumMismatch")>>

(* Fault: a zero checksum is accepted over IPv6 too.                       *)
UdpStepsZeroAnywhere(h, sum_ok) ==
    <<Refuse(size < 8, "UnexpectedEof"), Touch(0, 8),
      Refuse(h.length < 8 \/ size < h.length, "MalformedHeader"),
      Touch(0, h.length),
      Refuse(config.verify_checksum /\ ~h.zero /\ ~sum_ok, "ChecksumMismatch")>>

UdpSteps(h, sum_ok) ==
    <<Refuse(size < 8, "UnexpectedEof"), Touch(0, 8),
      Refuse(h.length < 8 \/ size < h.length, "MalformedHeader"),
      Touch(0, h.length),
      Refuse(/\ config.verify_checksum
             /\ ~h.zero \/ pkt.network = "ipv6"
             /\ ~sum_ok, "ChecksumMismatch")>>

(* The codes that go with a message type.                                  *)
IcmpMaxCode(type) ==
    CASE type \in {"echo", "quench", "timestamp", "info"} -> 0
      [] type = "unreachable" -> 15
      [] type = "redirect"    -> 3
      [] type \in {"ttl", "param"} -> 1
      [] OTHER -> 255

Icmpv6MaxCode(type) ==
    CASE type \in {"echo", "too_big", "router", "neighbor"} -> 0
      [] type = "unreachable" -> 4
      [] type = "ttl"         -> 1
      [] type = "param"       -> 2
      [] OTHER -> 255

IcmpSteps(h, sum_ok) ==
    <<Refuse(size < 8, "UnexpectedEof"), Touch(0, 8),
      Refuse(h.code > IcmpMaxCode(h.type), "InvalidFieldValue"),
      Touch(0, size),
      Refuse(config.verify_checksum /\ ~sum_ok, "ChecksumMismatch")>>

Icmpv6Steps(h, sum_ok) ==
    <<Refuse(size < 8, "UnexpectedEof"), Touch(0, 8),
      Refuse(size < PseudoHeader.length, "MalformedHeader"),
      Refuse(h.code > Icmpv6MaxCode(h.type), "InvalidFieldValue"),
      Refuse(h.type = "too_big" /\ h.mtu < 1280, "InvalidFieldValue"),
      Touch(0, PseudoHeader.length),
      Refuse(config.verify_checksum /\ ~sum_ok, "ChecksumMismatch")>>

(* Fault: ICMP is parsed over either network.                              *)
ParserAnyIcmp(transport) == pc = "layer4" /\ pkt.transport = transport

(* The parser that decodeLayer4 takes: ICMP goes with IPv4 and ICMPv6 with *)
(* IPv6 only.                                                              *)
Parser(transport) ==
    /\ pc = "layer4" /\ pkt.transport = transport
    /\ transport = "icmp"   => pkt.network = "ipv4"
    /\ transport = "icmpv6" => pkt.network = "ipv6"

(* The payload is what is left of the span.                                *)
Layer4(steps, eat, keep) ==
    Parse(steps, eat, keep, [pkt EXCEPT !.payload = [at |-> at + eat, size |-> keep]],
          next, "done")

Tcp == /\ Parser("tcp")
       /\ \E h \in Here("tcp") :
             \E sum_ok \in Verified(h, PseudoHeader.length, PseudoHeader) :
                Layer4(TcpSteps(h, sum_ok), 4 * h.data_offset, size - 4 * h.data_offset)

Udp == /\ Parser("udp")
       /\ \E h \in Here("udp") :
             \E sum_ok \in Verified(h, h.length, PseudoHeader) :
                Layer4(UdpSteps(h, sum_ok), 8, h.length - 8)

Icmp == /\ Parser("icmp")
        /\ \E h \in Here("icmp") : \E sum_ok \in Verified(h, size, "none") :
              Layer4(IcmpSteps(h, sum_ok), 8, size - 8)

Icmpv6 == /\ Parser("icmpv6")
          /\ \E h \in Here("icmpv6") :
                \E sum_ok \in Verified(h, PseudoHeader.length, PseudoHeader) :
                   Layer4(Icmpv6Steps(h, sum_ok), 8, size - 8)

OtherTransport ==
    /\ pc = "layer4" /\ ~\E t \in Transports : Parser(t)
    /\ Unsupported("UnsupportedTransportType")

-----------------------------------------------------------------------------
(* Frame by frame                                                          *)

NoPacket == [vlan_tags |-> 0, network |-> "none", ipv6_ext |-> <<>>,
             transport |-> "none", payload |-> [at |-> 0, size |-> 0],
             ip |-> [length |-> 0, protocol |-> "none", dst |-> "none"]]

(* Fault: the extension headers of the frame before are kept.              *)
ResetKeepsExt(p) == [p EXCEPT !.vlan_tags = 0, !.network = "none", !.transport = "none"]

(* Packet::reset.  The payload is not reset.                               *)
Reset(p) == [p EXCEPT !.vlan_tags = 0, !.network = "none", !.ipv6_ext = <<>>,
                      !.transport = "none"]

NothingRead == [ranges |-> {}, size |-> 0]

Init ==
    /\ config \in Configs
    /\ frame \in Frames /\ count = 1
    /\ pc = "layer2" /\ at = 0 /\ size = frame.incl
    /\ pkt = Reset(NoPacket) /\ next = "none"
    /\ err = "None" /\ reads = NothingRead

NextFrame ==
    /\ pc = "done" /\ count < MaxFrames
    /\ frame' \in Frames /\ count' = count + 1
    /\ pc' = "layer2" /\ at' = 0 /\ size' = frame'.incl
    /\ pkt' = Reset(pkt) /\ next' = "none"
    /\ err' = "None" /\ reads' = NothingRead
    /\ UNCHANGED config

Next == \/ Ethernet \/ OtherLink \/ Vlan
        \/ Ipv4 \/ Ipv6 \/ Ext \/ Arp \/ OtherNetwork
        \/ Tcp \/ Udp \/ Icmp \/ Icmpv6 \/ OtherTransport
        \/ NextFrame

Spec == Init /\ [][Next]_vars

-----------------------------------------------------------------------------
(* Sound frames, as a sender lays them out                                 *)

(* What a header says follows it, and whether that may and does.           *)
Announces(h) ==
    CASE h.kind \in {"eth", "vlan"} -> h.ethertype
      [] h.kind = "ipv4"            -> h.protocol
      [] h.kind \in {"ipv6", "ext"} -> h.next_header
      [] OTHER                      -> "none"

OnTop(h) == CASE h.kind \in {"eth", "vlan"} -> {"vlan", "ipv4", "ipv6", "arp"}
              [] h.kind = "ipv4"            -> {"tcp", "udp", "icmp"}
              [] h.kind \in {"ipv6", "ext"} -> {"ext", "tcp", "udp", "icmpv6"}
              [] OTHER                      -> {}

Stacked(h, g) == /\ g.kind \in OnTop(h)
                 /\ IF g.kind = "ext" THEN Announces(h) \in Extensions ELSE Announces(h) = g.kind

(* How long the i-th header is.                                            *)
Size(f, i) ==
    LET h == f.hdrs[i]
    IN  CASE h.kind = "eth"  -> 14
          [] h.kind = "vlan" -> 4
          [] h.kind = "ipv4" -> 4 * h.ihl
          [] h.kind = "ipv6" -> 40
          [] h.kind = "ext"  -> ExtLength(Announces(f.hdrs[i - 1]), h.hdr_ext_len)
          [] h.kind = "arp"  -> 8 + 2 * h.hlen + 2 * h.plen
          [] h.kind = "tcp"  -> 4 * h.data_offset
          [] OTHER           -> 8

(* Does the i-th header name the final destination?  That is the first     *)
(* address of a segment routing header, and the last of another.           *)
Routes(f, i) == f.hdrs[i].kind = "ext" /\ Addressed(Announces(f.hdrs[i - 1]), f.hdrs[i])

Final(h) == IF h.routing_type = "srh" THEN h.addrs[1] ELSE Last(h.addrs)

Destination(f, dst) ==
    LET routing == {i \in 2 .. Len(f.hdrs) : Routes(f, i)}
    IN  IF routing = {} THEN dst ELSE Final(f.hdrs[Max(routing)])

(* The fields of the i-th header are sound: lengths reach to the end of    *)
(* the packet, and the checksum was summed over what it has to cover.      *)
FieldsSound(f, i) ==
    LET h    == f.hdrs[i]
        rest == f.end - h.at
        type == Announces(f.hdrs[i - 1])
    IN  /\ h.kind = "vlan" => ~h.reserved /\ i - 1 <= MAX_TAGS
        /\ h.kind = "ipv4" => /\ h.version = 4 /\ h.ihl >= 5 /\ h.total_length = rest
                              /\ h.sum.n = 4 * h.ihl /\ h.sum.pseudo = "none"
        /\ h.kind = "ipv6" => h.version = 6 /\ h.payload_length = rest - 40 /\ rest - 40 < 65536
        /\ h.kind = "ext"  => /\ \A j \in 1 .. i : f.hdrs[j].kind = "ipv6" => i - j <= MAX_HEADERS
                              /\ type = "hopopt" => f.hdrs[i - 1].kind = "ipv6"
                              /\ type = "frag" => ~h.fragment
                              /\ type = "ah" => h.hdr_ext_len >= 1
        /\ Routes(f, i) => /\ h.addrs # <<>> /\ h.hdr_ext_len = 2 * Len(h.addrs)
                           /\ "none" \notin Range(h.addrs)
        /\ h.kind = "arp"  => h.hlen > 0 /\ h.plen > 0 /\ rest = Size(f, i)
        /\ h.kind = "tcp"  => h.data_offset >= 5
        /\ h.kind = "udp"  => h.length = rest
        /\ h.kind = "icmp" => h.code <= IcmpMaxCode(h.type)
        /\ h.kind = "icmpv6" => /\ h.code <= Icmpv6MaxCode(h.type)
                                /\ h.type = "too_big" => h.mtu >= 1280
        /\ h.kind \in Transports => h.sum.n = rest
        /\ h.kind = "icmp" => h.sum.pseudo = "none"
        /\ h.kind \in Transports \ {"icmp"} =>
              \A j \in 1 .. i : f.hdrs[j].kind \in {"ipv4", "ipv6"} =>
                 h.sum.pseudo = [length |-> rest, protocol |-> h.kind,
                                 dst |-> Destination(f, f.hdrs[j].dst)]

(* From Ethernet to ARP or a transport, each header where the one before   *)
(* ends; behind the last one is the payload.                               *)
LaidOut(f) ==
    LET n == Len(f.hdrs)
    IN  /\ f.hdrs \in Seq(Range(f.hdrs)) /\ n > 0 /\ f.end \in Nat
        /\ f.hdrs[1].kind = "eth" /\ f.hdrs[1].at = 0
        /\ f.hdrs[n].kind \in {"arp"} \cup Transports
        /\ \A i \in 2 .. n : /\ Stacked(f.hdrs[i - 1], f.hdrs[i])
                             /\ f.hdrs[i].at = f.hdrs[i - 1].at + Size(f, i - 1)
        /\ \A i \in 2 .. n : FieldsSound(f, i)
        /\ f.hdrs[n].at + Size(f, n) <= f.end

Payload(f) == LET n  == Len(f.hdrs)
                  at0 == f.hdrs[n].at + Size(f, n)
              IN  [at |-> at0, size |-> f.end - at0]

(* The checksums that count hold: UDP over IPv4 may do without.            *)
SumHolds(f, i) ==
    LET h == f.hdrs[i]
    IN  \/ h.sum.ok
        \/ h.kind = "udp" /\ h.zero /\ f.hdrs[i - 1].kind = "ipv4"

SumsHold(f) ==
    \A i \in 2 .. Len(f.hdrs) : f.hdrs[i].kind \in {"ipv4"} \cup Transports => SumHolds(f, i)

-----------------------------------------------------------------------------
(* Properties                                                              *)

(* The span lies in the captured bytes and the chains of tags and          *)
(* extension headers keep their limits.                                    *)
TypeOK ==
    /\ at \in Nat /\ size \in Nat /\ at + size <= frame.incl
    /\ pkt.vlan_tags \in 0 .. MAX_TAGS
    /\ Len(pkt.ipv6_ext) \in 0 .. MAX_HEADERS
    /\ pkt.network \in {"none", "ipv4", "ipv6", "arp"}
    /\ pkt.transport \in {"none"} \cup Transports
    /\ err \in {"None", "UnexpectedEof", "MalformedHeader", "InvalidFieldValue",
                "ChecksumMismatch", "UnsupportedLinktype", "UnsupportedNetworkType",
                "UnsupportedTransportType"}

(* Whatever the bytes say, no header, address or checksummed range is read *)
(* outside the span it was looked for in.                                  *)
ReadsInBounds ==
    \A r \in reads.ranges : 0 <= r.from /\ r.from <= r.to /\ r.to <= reads.size

Captured == frame.incl >= frame.end

(* A frame that is sound as sent is decoded to the transport protocol and  *)
(* exactly the payload its sender put in (no padding, no header), whatever *)
(* the frames before left in the Packet; one of which a part was not       *)
(* captured is refused.                                                    *)
SoundDecoded ==
    pc = "done" /\ config.linktype = "ethernet" /\ LaidOut(frame) /\ SumsHold(frame) =>
       IF Captured
       THEN LET top == Last(frame.hdrs).kind
            IN  /\ err = "None"
                /\ pkt.transport = IF top = "arp" THEN "none" ELSE top
                /\ top # "arp" => pkt.payload = Payload(frame)
       ELSE err # "None"

(* A frame whose only flaw is a wrong checksum is refused for it, unless   *)
(* checksums are not to be verified.                                       *)
CorruptRefused ==
    /\ pc = "done" /\ config.linktype = "ethernet" /\ Captured
    /\ LaidOut(frame) /\ ~SumsHold(frame)
    => (err = "ChecksumMismatch" <=> config.verify_checksum)

(* A packet that decodePacket accepts has what a flow key is made from, or *)
(* is ARP: addPacket's errors cannot happen after it.                      *)
CarriesKey ==
    pc = "done" /\ err = "None" =>
       \/ pkt.network = "arp"
       \/ pkt.network = "ipv4" /\ pkt.transport \in {"tcp", "udp", "icmp"}
       \/ pkt.network = "ipv6" /\ pkt.transport \in {"tcp", "udp", "icmpv6"}

=============================================================================
