---------------------------- MODULE TcpConnection ----------------------------
(***************************************************************************)
(* Both directions of a TCP flow as Decoder::decode drives them: for each  *)
(* captured segment the sender's reassembler gets onSent, then the other   *)
(* one gets onReceived, then AppDecoder::pollFlow polls the sender's       *)
(* direction (here a reader that takes all it is offered).                 *)
(*                                                                         *)
(* The traffic comes from two TCP hosts, which are not part of the program *)
(* (external): A opens, either may close first, segments may be sent again *)
(* and cross on the way.  A host's sequence numbers are counted in units:  *)
(* unit 0 is its SYN, unit k its k-th byte, the last its FIN.              *)
(***************************************************************************)
EXTENDS TcpReassembler

CONSTANT Connections    \* what connections there may be, each a record of
                        \*   bytes[d]: length of the stream host d sends
                        \*   lossless: is each segment captured once, as it is sent?
                        \*   resend: may a host send again what it has sent before?

Hosts == {"A", "B"}
Peer(d) == IF d = "A" THEN "B" ELSE "A"

ASSUME ConnectionAssumption ==
    /\ Connections \subseteq [bytes : [Hosts -> Nat], lossless : BOOLEAN, resend : BOOLEAN]
    /\ \A c \in Connections, d \in Hosts : c.bytes[d] + 2 < SeqSpace \div 2

VARIABLES
    conn,       \* the connection
    host,       \* host[d]: units sent, units of the peer received, own units acked
    wire,       \* segments sent so far; the capture may show any of them
    tcp,        \* tcp[d]: the TcpReassembler of the direction d sends in
    read,       \* read[d]: bytes the application decoder has taken
    before_fin  \* bytes of d captured before the peer's FIN was

vars == <<conn, host, wire, tcp, read, before_fin>>

Bytes(d) == conn.bytes[d]
AllUnits(d) == Bytes(d) + 2

Init ==
    /\ conn \in Connections
    /\ host = [d \in Hosts |-> [sent |-> 0, rcvd |-> 0, acked |-> 0]]
    /\ wire = {}
    /\ tcp = [d \in Hosts |-> Fresh(TRUE)]
    /\ read = [d \in Hosts |-> <<>>]
    /\ before_fin = [d \in Hosts |-> 0]

-----------------------------------------------------------------------------
(* One captured segment                                                    *)

(* Decoder::decode on a segment of d.                                      *)
Decode(d, h, span) ==
    LET sent == OnSentAll(tcp[d], h, span)
        seen == OnReceived(tcp[Peer(d)], h)
        poll == HasReadableData(sent)
    IN  /\ tcp' = [tcp EXCEPT ![d] = IF poll THEN Consume(sent, Available(sent)) ELSE sent,
                              ![Peer(d)] = seen]
        /\ read' = IF poll THEN [read EXCEPT ![d] = @ \o Peek(sent)] ELSE read

HeaderOf(w) == [syn |-> w.from = 0, ack |-> w.ack > 0, fin |-> w.from < w.to /\ w.to = AllUnits(w.host),
                rst |-> FALSE, seq_number |-> w.from, ack_number |-> w.ack]

(* The bytes among units from .. to-1; byte k is the number k.             *)
PayloadOf(w) == SubSeq([k \in 1 .. Bytes(w.host) |-> k],
                       Max({w.from, 1}), Min({w.to - 1, Bytes(w.host)}))

FinSent(d) == host[d].sent = AllUnits(d)

Captured(w) ==
    /\ Decode(w.host, HeaderOf(w), PayloadOf(w))
    /\ before_fin' = IF FinSent(Peer(w.host)) THEN before_fin
                     ELSE [before_fin EXCEPT
                             ![w.host] = Max({@, Min({w.to - 1, Bytes(w.host)})})]

-----------------------------------------------------------------------------
(* The hosts (external)                                                    *)

Connected(d) == host[d].acked > 0 /\ host[d].rcvd > 0

(* Units that d may send now: its SYN (B's only in answer to A's), then    *)
(* data, the FIN alone or with the last data, or nothing (a bare ACK, of   *)
(* something new); the next ones, or again those not acknowledged yet.     *)
MaySend(d, from, to) ==
    \/ /\ from = 0 /\ to = 1 /\ host[d].acked = 0
       /\ d = "A" <=> host[d].rcvd = 0
       /\ host[d].sent > 0 => conn.resend
    \/ /\ Connected(d)
       /\ from \in {host[d].sent} \cup IF conn.resend THEN {host[d].acked} ELSE {}
       /\ from <= to

Transmit(d) ==
    \E from, to \in 0 .. AllUnits(d) :
       LET w == [host |-> d, from |-> from, to |-> to, ack |-> host[d].rcvd]
       IN  /\ MaySend(d, from, to)
           /\ from = to /\ ~conn.resend =>
                 \A v \in wire : v.host = d => v.ack < w.ack
           /\ host' = [host EXCEPT ![d].sent = Max({@, to})]
           /\ wire' = wire \cup {w}
           /\ UNCHANGED conn
           /\ IF conn.lossless THEN Captured(w) ELSE UNCHANGED <<tcp, read, before_fin>>

(* d gets a segment of its peer; bytes past a gap are not kept.            *)
Deliver(d) ==
    \E w \in wire :
       /\ w.host = Peer(d)
       /\ w.from <= host[d].rcvd
       /\ w.to > host[d].rcvd \/ w.ack > host[d].acked
       /\ host' = [host EXCEPT ![d].rcvd = Max({@, w.to}), ![d].acked = Max({@, w.ack})]
       /\ UNCHANGED <<conn, wire, tcp, read, before_fin>>

(* The capture shows a segment: late, again, out of order, or never.       *)
Capture ==
    /\ ~conn.lossless
    /\ \E w \in wire : Captured(w)
    /\ UNCHANGED <<conn, host, wire>>

Next == Capture \/ \E d \in Hosts : Transmit(d) \/ Deliver(d)

Spec == Init /\ [][Next]_vars

-----------------------------------------------------------------------------
FinReceived(d) == host[Peer(d)].rcvd = AllUnits(d)

(* The tracked state never runs ahead of the connection, whatever the      *)
(* capture lost, repeated or reordered: a direction is seen as closing only*)
(* when its host sent a FIN, as acknowledged only when the peer has it, and*)
(* as passively closing only when the peer sent one.                       *)
StateSound ==
    \A d \in Hosts :
       /\ tcp[d].state \in {"FinWait1", "FinWait2", "Closing", "LastAck", "TimeWait", "Closed"}
            => FinSent(d)
       /\ tcp[d].state \in {"FinWait2", "TimeWait", "Closed"} => FinReceived(d)
       /\ tcp[d].state \in {"CloseWait", "Closing", "LastAck", "TimeWait", "Closed"}
            => FinSent(Peer(d))

(* Both hosts have closed and know it, and nothing is missing.             *)
HostsDone == \A d \in Hosts : host[d].acked = AllUnits(d)

(* When the capture shows every segment, a connection that was closed by   *)
(* both hosts ends in a closed state on both sides.                        *)
EndsClosed ==
    conn.lossless /\ HostsDone => \A d \in Hosts : tcp[d].state \in {"TimeWait", "Closed"}

(* When the capture shows every segment, every byte captured before the    *)
(* other side's FIN reaches the application decoder, a request that comes  *)
(* with its FIN included.                                                  *)
DataBeforeFinIsRead ==
    conn.lossless => \A d \in Hosts : Len(read[d]) >= before_fin[d]

(* Once everything was sent, captured and acknowledged, the application    *)
(* decoder has been given both streams to the end.                         *)
AllDataRead ==
    conn.lossless /\ HostsDone => \A d \in Hosts : Len(read[d]) = Bytes(d)

=============================================================================
