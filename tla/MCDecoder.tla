------------------------------ MODULE MCDecoder ------------------------------
(* Decoder on a handful of packets between two hosts, 1 and 2.             *)
EXTENDS Decoder

Packet(network, src, dst, transport, payload) ==
    [err |-> FALSE, network |-> network, src_ip |-> src, dst_ip |-> dst,
     transport |-> transport, payload |-> payload, incl_len |-> 1 + Len(payload)]

Udp(src, dst) == [kind |-> "udp", src_port |-> src, dst_port |-> dst]
Tcp(src, dst, seq) ==
    [kind |-> "tcp", src_port |-> src, dst_port |-> dst,
     header |-> [syn |-> FALSE, ack |-> TRUE, fin |-> FALSE, rst |-> FALSE,
                 seq_number |-> seq, ack_number |-> 0]]
Echo(kind)  == [kind |-> kind, echo |-> TRUE, id |-> 5, type |-> 8, code |-> 0]
Unreachable == [kind |-> "icmp", echo |-> FALSE, id |-> 0, type |-> 3, code |-> 1]
None        == [kind |-> "none"]

Query     == Packet("v4", 2, 1, Udp(9, DNS_PORT), <<1>>)
Empty     == Packet("v4", 2, 1, Udp(9, DNS_PORT), <<>>)
Answer    == Packet("v4", 1, 2, Udp(DNS_PORT, 9), <<2, -1>>)
Loopback  == Packet("v4", 1, 1, Udp(9, 7), <<3>>)
LoopBack2 == Packet("v4", 1, 1, Udp(7, 9), <<3>>)
Request   == Packet("v4", 1, 2, Tcp(9, HTTP_PORT, 0), <<4>>)
Request2  == Packet("v4", 1, 2, Tcp(9, HTTP_PORT, 1), <<5>>)
Response  == Packet("v4", 2, 1, Tcp(HTTP_PORT, 9, 3), <<6>>)
Ping      == Packet("v6", 2, 1, Echo("icmpv6"), <<>>)
Refused   == Packet("v4", 2, 1, Unreachable, <<>>)
ArpPacket == Packet("arp", 0, 0, None, <<>>)
Broken    == [Packet("none", 0, 0, None, <<>>) EXCEPT !.err = TRUE]

Mixed == {Query, Empty, Answer, Loopback, LoopBack2, Request, Response, Ping, Refused,
          ArpPacket, Broken}
Web   == {Request, Request2, Response}

NoFilter == [isIpv4 |-> FALSE, src_ip |-> 0, dst_ip |-> 0, src_port |-> 0,
             dst_port |-> 0, protocol |-> 0]
FromServer == [NoFilter EXCEPT !.src_port = DNS_PORT]
FromHost   == [NoFilter EXCEPT !.src_ip = 2, !.isIpv4 = TRUE]

AnyFilter  == {NoFilter, FromServer, FromHost}
Unfiltered == {NoFilter}
=============================================================================
