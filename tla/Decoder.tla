------------------------------- MODULE Decoder -------------------------------
(***************************************************************************)
(* Reader::readPacket and Decoder::decode: each packet of a capture goes   *)
(* through the layer decoder, the filter, the flow table, the TCP          *)
(* reassembler and the application decoder, in that order, and is counted. *)
(*                                                                         *)
(* A packet is what decodePacket makes of its bytes: err is its result.    *)
(* A payload byte stands for one whole application message, a negative one *)
(* for a message that does not parse; HttpStream models how messages are   *)
(* cut out of a stream.                                                    *)
(***************************************************************************)
EXTENDS FlowTable

CONSTANTS
    Packets,        \* packets the capture may hold
    Filters,        \* filters the program may be started with
    MaxPackets,     \* packets in the capture, at most
    MaxTime,        \* largest timestamp
    Backwards       \* may timestamps go back?

ASSUME DecoderAssumption ==
    MaxPackets \in Nat /\ MaxTime \in 0 .. TimeSpace - 1 /\ Backwards \in BOOLEAN

(* What decodePacket accepts has a flow key, or is ARP (CarriesKey of      *)
(* PacketDecoder).                                                         *)
ASSUME PacketsAssumption ==
    \A pkt \in Packets :
       /\ pkt.err \in BOOLEAN /\ pkt.incl_len \in Nat
       /\ ~pkt.err => pkt.network \in {"v4", "v6", "arp"}
       /\ ~pkt.err /\ pkt.network # "arp" => KeyFromPacket(pkt) \in FlowKeys

VARIABLES
    filter,     \* config_.filter
    table,      \* the FlowTable
    apps,       \* AppDecoder::flows_
    decoded, skipped,
    done,       \* has readPacket returned an error?
    \* What the model remembers in order to state the properties:
    clock,      \* the last packet's timestamp
    dropped,    \* packets the filter dropped
    arps,       \* ARP packets, which have no flow
    log         \* the packets that were given to a flow

vars == <<filter, table, apps, decoded, skipped, done, clock, dropped, arps, log>>

PacketsRead == decoded + skipped + dropped

NewApplications == [dns_messages |-> <<>>, http_messages |-> <<>>, decode_failures |-> 0]
NewFlowApplications == [d \in Dirs |-> NewApplications]

Init ==
    /\ filter \in Filters
    /\ table = NewTable /\ apps = << >>
    /\ decoded = 0 /\ skipped = 0 /\ done = FALSE
    /\ clock = 0 /\ dropped = 0 /\ arps = 0 /\ log = <<>>

-----------------------------------------------------------------------------
(* AppDecoder                                                              *)

IsDns(key) == DNS_PORT \in {key.src_port, key.dst_port}

(* Fault: a new flow goes on with what an older one of its key left.       *)
AppStateForAny(key, is_new) ==
    IF key \in DOMAIN apps THEN apps[key] ELSE NewFlowApplications

(* appStateFor: a new flow starts with fresh Applications, another goes on *)
(* with those of its key.                                                  *)
AppStateFor(key, is_new) ==
    IF is_new \/ key \notin DOMAIN apps THEN NewFlowApplications ELSE apps[key]

(* The messages and the failures in a run of messages.                     *)
Decodes(a, key, msgs) ==
    LET good == SelectSeq(msgs, LAMBDA m : m >= 0)
        bad  == Len(msgs) - Len(good)
    IN  IF IsDns(key)
        THEN [a EXCEPT !.dns_messages = @ \o good, !.decode_failures = @ + bad]
        ELSE [a EXCEPT !.http_messages = @ \o good, !.decode_failures = @ + bad]

(* Is the flow's Applications touched, and which messages does it get?     *)
Polls(key, pkt) ==
    CASE pkt.transport.kind = "tcp" -> PortHasAppDecoder(key)
      [] pkt.transport.kind = "udp" -> pkt.payload # <<>> /\ IsDns(key)
      [] OTHER -> FALSE

-----------------------------------------------------------------------------
(* readPacket and decode                                                   *)

(* The next packet and its time.                                           *)
Reads(pkt, ts) ==
    /\ ~done /\ PacketsRead < MaxPackets
    /\ ts \in (IF Backwards THEN 0 ELSE clock) .. MaxTime
    /\ clock' = ts
    /\ UNCHANGED <<filter, done>>

(* A packet that decodePacket refuses is counted and the next one is read. *)
Skip(pkt, ts) ==
    /\ Reads(pkt, ts)
    /\ pkt.err
    /\ skipped' = skipped + 1
    /\ UNCHANGED <<table, apps, decoded, dropped, arps, log>>

(* Fault: the filter is compared with the flow's key.                      *)
FilteredNormalized(pkt) ==
    IsNonZero(filter) /\ ~(HasKey(pkt) /\ Matches(filter, Normalized(KeyFromPacket(pkt))))

(* The filter looks at the packet's own direction.                         *)
Filtered(pkt) ==
    IsNonZero(filter) /\ ~(HasKey(pkt) /\ Matches(filter, KeyFromPacket(pkt)))

Drop(pkt, ts) ==
    /\ Reads(pkt, ts)
    /\ ~pkt.err /\ Filtered(pkt)
    /\ dropped' = dropped + 1
    /\ UNCHANGED <<table, apps, decoded, skipped, arps, log>>

Arp(pkt, ts) ==
    /\ Reads(pkt, ts)
    /\ ~pkt.err /\ ~Filtered(pkt) /\ pkt.network = "arp"
    /\ decoded' = decoded + 1 /\ arps' = arps + 1
    /\ UNCHANGED <<table, apps, skipped, dropped, log>>

(* TCP: onSent on the packet's direction, onReceived on the other.         *)
Reassembled(flow, pkt) ==
    LET d == DirOf(flow.is_reverse)
        h == pkt.transport.header
    IN  IF pkt.transport.kind # "tcp" THEN flow
        ELSE [flow EXCEPT !.tcp =
                 [e \in Dirs |-> IF e = d THEN OnSentAll(@[e], h, pkt.payload)
                                 ELSE OnReceived(@[e], h)]]

(* What pollStream or pollDatagram finds.                                  *)
Offered(flow, pkt) ==
    LET t == flow.tcp[DirOf(flow.is_reverse)]
    IN  IF pkt.transport.kind = "udp" THEN pkt.payload
        ELSE IF HasReadableData(t) THEN Peek(t) ELSE <<>>

Polled(flow, pkt) ==
    LET d == DirOf(flow.is_reverse)
        t == flow.tcp[d]
    IN  [flow EXCEPT !.app_state = TRUE,
                     !.tcp[d] = IF pkt.transport.kind = "tcp" /\ HasReadableData(t)
                                THEN Consume(t, Available(t)) ELSE t]

(* A packet of a flow.                                                     *)
Track(pkt, ts) ==
    LET own    == KeyFromPacket(pkt)
        key    == Normalized(own)
        is_new == IsNew(table, key, ts)
        added  == AddPacket(table, key, IsReverse(own), ts, pkt.incl_len)
        flow   == Reassembled(added.flows[key], pkt)
        d      == DirOf(flow.is_reverse)
        state  == AppStateFor(key, is_new)
        got    == IF Polls(key, pkt) THEN Offered(flow, pkt) ELSE <<>>
    IN  /\ Reads(pkt, ts)
        /\ ~pkt.err /\ ~Filtered(pkt) /\ pkt.network # "arp"
        /\ IF Polls(key, pkt)
           THEN /\ table' = [added EXCEPT !.flows[key] = Polled(flow, pkt)]
                /\ apps' = Put(apps, key, [state EXCEPT ![d] = Decodes(@, key, got)])
           ELSE /\ table' = [added EXCEPT !.flows[key] = flow]
                /\ UNCHANGED apps
        /\ decoded' = decoded + 1
        /\ log' = Append(log, [own |-> own, ts |-> ts, is_new |-> is_new,
                             polled |-> Polls(key, pkt), got |-> got])
        /\ UNCHANGED <<skipped, dropped, arps>>

(* The end of the file, or a packet header that does not parse.            *)
Stop == ~done /\ done' = TRUE
        /\ UNCHANGED <<filter, table, apps, decoded, skipped, clock, dropped, arps, log>>

Next == \/ \E pkt \in Packets, ts \in 0 .. MaxTime :
              Skip(pkt, ts) \/ Drop(pkt, ts) \/ Arp(pkt, ts) \/ Track(pkt, ts)
        \/ Stop

Spec == Init /\ [][Next]_vars

-----------------------------------------------------------------------------
(* What printHttp lists: the messages of each flow's key.                  *)
PrintHttp ==
    LET all  == AllFlows(table)
        of(k) == IF k \in DOMAIN apps
                 THEN apps[k]["fwd"].http_messages \o apps[k]["rev"].http_messages
                 ELSE <<>>
    IN  FlattenSeq([i \in 1 .. Len(all) |-> of(all[i].key)])

-----------------------------------------------------------------------------
(* Properties                                                              *)

(* The table's keys are normalized, it holds one flow of a key, and the    *)
(* counters are numbers.                                                   *)
TypeOK ==
    /\ \A k \in DOMAIN table.flows : ~IsReverse(k)
    /\ \A k \in DOMAIN table.flows :
          table.flows[k].app_state => k \in DOMAIN apps
    /\ {decoded, skipped, dropped, arps, table.total_bytes} \subseteq Nat

(* Every byte and every packet counted in total is counted for exactly one *)
(* flow, active or retired.                                                *)
CountsConserved ==
    /\ SumOverFlows(table, "bytes") = table.total_bytes
    /\ SumOverFlows(table, "packets") + arps = decoded

(* Earlier packets of the conversation of packet i, in either direction.   *)
Before(i) == {j \in 1 .. i - 1 : log[j].own \in {log[i].own, Swap(log[i].own)}}

(* A packet starts a new flow exactly when it is the first of its          *)
(* conversation, or came too long after the packet before it or after the  *)
(* first packet of the flow: no flow outlives its timeouts and none is     *)
(* retired early.                                                          *)
RetiredOnTime ==
    \A i \in 1 .. Len(log) :
       log[i].is_new <=>
          \/ Before(i) = {}
          \/ log[i].ts - log[Max(Before(i))].ts > idle_timeout_us
          \/ /\ active_timeout_us # 0
             /\ log[i].ts - log[Max({j \in Before(i) : log[j].is_new})].ts > active_timeout_us

(* The filter is directional: a direction of a flow is counted only when   *)
(* its own source and destination match.                                   *)
FilterDirectional ==
    IsNonZero(filter) =>
       \A k \in DOMAIN table.flows, d \in Dirs :
          table.flows[k].stats[d].packets > 0 =>
             Matches(filter, IF d = "fwd" THEN k ELSE Swap(k))

(* The packet that began the active flow of key k.                         *)
Opening(k) == Max({j \in 1 .. Len(log) : log[j].is_new /\ Normalized(log[j].own) = k})

(* Was packet e one of key k and direction d, and polled?                  *)
PolledIn(e, k, d) ==
    e.polled /\ Normalized(e.own) = k /\ DirOf(IsReverse(e.own)) = d

(* The Applications that the polled packets of the active flow of key k    *)
(* make in direction d, one after the other, of fresh ones.                *)
Heard(k, d) ==
    LET start == Opening(k)
        heard[i \in 0 .. Len(log)] ==
          IF i < start THEN NewApplications
          ELSE IF PolledIn(log[i], k, d) THEN Decodes(heard[i - 1], k, log[i].got)
          ELSE heard[i - 1]
    IN  heard[Len(log)]

(* The Applications of an active flow whose first packet was polled hold   *)
(* what its own packets brought in that direction, and nothing of an       *)
(* earlier flow between the same ends. (A flow that opens with an empty    *)
(* datagram goes on with those of the flow before it: pollDatagram returns *)
(* before appStateFor learns that the flow is new.)                        *)
AppsOfActiveFlow ==
    \A k \in DOMAIN table.flows, d \in Dirs :
       table.flows[k].app_state /\ log[Opening(k)].polled => apps[k][d] = Heard(k, d)

(* Every HTTP message that was decoded is listed once, under its flow.     *)
HttpListedOnce ==
    LET http(e) == IF IsDns(e.own) THEN <<>> ELSE SelectSeq(e.got, LAMBDA m : m >= 0)
        heard   == FlattenSeq([i \in 1 .. Len(log) |-> http(log[i])])
        Times(m, s) == Cardinality({i \in 1 .. Len(s) : s[i] = m})
    IN  \A m \in Range(heard) \cup Range(PrintHttp) : Times(m, heard) = Times(m, PrintHttp)

=============================================================================
