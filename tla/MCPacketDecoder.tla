--------------------------- MODULE MCPacketDecoder ---------------------------
(* PacketDecoder on frames of every protocol it knows: sound ones, captured *)
(* whole, with padding or cut; ones with a wrong checksum; ones past a limit*)
(* or with lying fields; and bytes that may read as anything.               *)
EXTENDS PacketDecoder

Sum(dst, n, p) == [n |-> n, pseudo |-> [length |-> n, protocol |-> p, dst |-> dst], ok |-> TRUE]
Plain(n) == [n |-> n, pseudo |-> "none", ok |-> TRUE]

Eth(e) == [kind |-> "eth", len |-> 14, ethertype |-> e]
Tag(e) == [kind |-> "vlan", len |-> 4, ethertype |-> e, reserved |-> FALSE]
V4(p, ihl, n) == [kind |-> "ipv4", len |-> 4 * ihl, ihl |-> ihl, version |-> 4, dst |-> "d",
                  total_length |-> 4 * ihl + n, protocol |-> p, sum |-> Plain(4 * ihl)]
V6(p, n) == [kind |-> "ipv6", len |-> 40, version |-> 6, payload_length |-> n,
             next_header |-> p, dst |-> "d"]
X(p, len, n) == [kind |-> "ext", len |-> len, next_header |-> p, hdr_ext_len |-> n,
                 routing_type |-> "none", segments_left |-> 0, addrs |-> <<>>,
                 fragment |-> FALSE]
Opts(p)  == X(p, 16, 1)
AhOf(p)  == X(p, 12, 1)
Frag(p, more) == [X(p, 8, 0) EXCEPT !.fragment = more]
Route(p, type, left, addrs) ==
    [X(p, 8 + 16 * Len(addrs), 2 * Len(addrs)) EXCEPT
        !.routing_type = type, !.segments_left = left, !.addrs = addrs]
TcpOf(dst, n) == [kind |-> "tcp", len |-> 24, data_offset |-> 6, sum |-> Sum(dst, 24 + n, "tcp")]
UdpOf(dst, n) == [kind |-> "udp", len |-> 8, length |-> 8 + n, zero |-> FALSE,
                  sum |-> Sum(dst, 8 + n, "udp")]
IcmpOf(n)   == [kind |-> "icmp", len |-> 8, type |-> "echo", code |-> 0, sum |-> Plain(8 + n)]
Icmp6Of(n)  == [kind |-> "icmpv6", len |-> 8, type |-> "too_big", code |-> 0, mtu |-> 1280,
                sum |-> Sum("d", 8 + n, "icmpv6")]
ArpOf == [kind |-> "arp", len |-> 28, hlen |-> 6, plen |-> 4]
Wrong(h) == [h EXCEPT !.sum.ok = FALSE]

Starts(hdrs) == LET s[i \in 1 .. Len(hdrs) + 1] == IF i = 1 THEN 0 ELSE s[i - 1] + hdrs[i - 1].len
                IN  s

(* The headers in front of n bytes of payload, captured to the byte, with  *)
(* padding, and cut in the payload and in the last header.                 *)
Sent(hdrs, n) ==
    LET s   == Starts(hdrs)
        end == s[Len(hdrs) + 1] + n
    IN  {[hdrs |-> [i \in 1 .. Len(hdrs) |-> hdrs[i] @@ [at |-> s[i]]],
          end |-> end, incl |-> incl] :
             incl \in {end, end + 6, end - 1, end - n - 3}}

Chain(k, h) == [i \in 1 .. k |-> h]

Sound ==
    UNION {
      Sent(<<Eth("ipv4"), V4("tcp", 5, 27), TcpOf("d", 3)>>, 3),
      Sent(<<Eth("vlan"), Tag("vlan"), Tag("ipv4"), V4("udp", 6, 10), UdpOf("d", 2)>>, 2),
      Sent(<<Eth("ipv4"), V4("udp", 5, 10), [Wrong(UdpOf("d", 2)) EXCEPT !.zero = TRUE]>>, 2),
      Sent(<<Eth("ipv4"), V4("icmp", 5, 12), IcmpOf(4)>>, 4),
      Sent(<<Eth("arp"), ArpOf>>, 0),
      Sent(<<Eth("ipv6"), V6("tcp", 27), TcpOf("d", 3)>>, 3),
      Sent(<<Eth("ipv6"), V6("route", 67), Route("tcp", "type0", 1, <<"a", "f">>),
                     TcpOf("f", 3)>>, 3),
      Sent(<<Eth("ipv6"), V6("hopopt", 66), Opts("route"),
                     Route("udp", "srh", 1, <<"f", "a">>), UdpOf("f", 2)>>, 2),
      Sent(<<Eth("ipv6"), V6("route", 52), Route("icmpv6", "type0", 0, <<"a", "b">>),
                     Icmp6Of(4)>>, 4),
      Sent(<<Eth("ipv6"), V6("frag", 30), Frag("ah", FALSE), AhOf("udp"),
                     UdpOf("d", 2)>>, 2),
      Sent(<<Eth("vlan")>> \o Chain(3, Tag("vlan")) \o <<Tag("ipv6"), V6("opts", 155)>>
                     \o Chain(7, Opts("opts")) \o <<Opts("tcp"), TcpOf("d", 3)>>, 3)}

Corrupt ==
    UNION {
      Sent(<<Eth("ipv4"), Wrong(V4("tcp", 5, 27)), TcpOf("d", 3)>>, 3),
      Sent(<<Eth("ipv4"), V4("tcp", 5, 27), Wrong(TcpOf("d", 3))>>, 3),
      Sent(<<Eth("ipv4"), V4("icmp", 5, 12), Wrong(IcmpOf(4))>>, 4),
      Sent(<<Eth("ipv6"), V6("udp", 10), [Wrong(UdpOf("d", 2)) EXCEPT !.zero = TRUE]>>, 2),
      Sent(<<Eth("ipv6"), V6("icmpv6", 12), Wrong(Icmp6Of(4))>>, 4)}

Odd ==
    UNION {
      Sent(<<Eth("vlan")>> \o Chain(4, Tag("vlan")) \o <<Tag("ipv4"), V4("icmp", 5, 8), IcmpOf(0)>>, 0),
      Sent(<<Eth("ipv6"), V6("opts", 144)>> \o Chain(9, Opts("opts")), 0),
      Sent(<<Eth("ipv6"), V6("frag", 18), Frag("udp", TRUE), UdpOf("d", 2)>>, 2),
      Sent(<<Eth("ipv6"), V6("icmp", 12), IcmpOf(4)>>, 4),
      Sent(<<Eth("ipv4"), V4("icmpv6", 5, 12), Icmp6Of(4)>>, 4)}

Junk == {[hdrs |-> <<>>, end |-> n, incl |-> n] : n \in {13, 14, 18, 36, 44, 56, 64, 80}}

(* The frames are what they are called.                                    *)
ASSUME FramesAsCalled ==
    /\ \A f \in Sound   : LaidOut(f) /\ SumsHold(f)
    /\ \A f \in Corrupt : LaidOut(f) /\ ~SumsHold(f)
    /\ \A f \in Odd \cup Junk : ~LaidOut(f)

AllFrames == Sound \cup Corrupt \cup Odd \cup Junk

(* Fields of bytes that are not what they are taken for: at, around and    *)
(* past the values that the checks compare with.                           *)
AnyFields(kind) ==
    LET ethertypes == {"vlan", "ipv4", "ipv6", "arp", "other"}
        unsummed   == Plain(-1)
    IN  CASE kind = "eth"  -> {Eth(e) : e \in ethertypes}
          [] kind = "vlan" -> {[Tag(e) EXCEPT !.reserved = r] : e \in ethertypes, r \in BOOLEAN}
          [] kind = "ipv4" -> {[V4(p, ihl, n) EXCEPT !.version = v, !.sum = unsummed] :
                                 p \in Transports \cup {"other"}, ihl \in {4, 5, 15},
                                 n \in {-1, 8, 300}, v \in {4, 6}}
          [] kind = "ipv6" -> {[V6(p, n) EXCEPT !.version = v] :
                                 p \in Transports \cup {"route", "ah", "hopopt"},
                                 n \in {0, 8, 24, 300}, v \in {4, 6}}
          [] kind = "ext"  -> {[X(p, 8, n) EXCEPT !.routing_type = r, !.segments_left = 1] :
                                 p \in {"tcp", "ah", "frag", "hopopt"}, n \in 0 .. 3,
                                 r \in {"none", "type0", "srh"}}
          [] kind = "arp"  -> {[ArpOf EXCEPT !.hlen = h] : h \in {0, 6, 255}}
          [] kind = "tcp"  -> {[TcpOf("d", 0) EXCEPT !.data_offset = o, !.sum = unsummed] :
                                 o \in {4, 5, 15}}
          [] kind = "udp"  -> {[UdpOf("d", 0) EXCEPT !.length = n, !.zero = z, !.sum = unsummed] :
                                 n \in {7, 8, 300}, z \in BOOLEAN}
          [] kind = "icmp" -> {[IcmpOf(0) EXCEPT !.type = t, !.code = c, !.sum = unsummed] :
                                 t \in {"echo", "unreachable", "redirect", "ttl", "other"},
                                 c \in {0, 1, 2, 4, 16}}
          [] kind = "icmpv6" -> {[Icmp6Of(0) EXCEPT !.type = t, !.code = c, !.mtu = m, !.sum = unsummed] :
                                   t \in {"too_big", "unreachable", "ttl", "param", "other"},
                                   c \in {0, 1, 2, 5}, m \in {1279, 1280}}

AllConfigs == [verify_checksum : BOOLEAN, linktype : {"ethernet"}]
              \cup {[verify_checksum |-> TRUE, linktype |-> "other"]}
=============================================================================
