------------------------------ MODULE FlowTable ------------------------------
(***************************************************************************)
(* FlowKey and FlowTable (flow_key.cpp, flow_table.cpp): which flow a      *)
(* packet belongs to, when a flow is retired, and what is counted for it.  *)
(* The table is a record with the source's members; flows_ is a function   *)
(* from keys to flows.  An address is a number, in memcmp's order, with 0  *)
(* the all-zero one.  uint64_t times are 0..TimeSpace-1 and wrap.          *)
(***************************************************************************)
EXTENDS TcpReassembler

CONSTANTS idle_timeout_us, active_timeout_us, TimeSpace

ASSUME TimeAssumption ==
    /\ TimeSpace \in Nat \ {0}
    /\ idle_timeout_us \in 0 .. TimeSpace - 1
    /\ active_timeout_us \in 0 .. TimeSpace - 1

U64(x) == x % TimeSpace

DNS_PORT  == 53
HTTP_PORT == 80

-----------------------------------------------------------------------------
(* FlowKey                                                                 *)

FlowKeys == [isIpv4 : BOOLEAN, src_ip : Nat, dst_ip : Nat,
             src_port : Nat, dst_port : Nat, protocol : Nat]

Swap(k) == [k EXCEPT !.src_ip = k.dst_ip, !.dst_ip = k.src_ip,
                     !.src_port = k.dst_port, !.dst_port = k.src_port]

(* normalize: is the packet's own direction the reverse one?               *)
IsReverse(k) == k.src_ip > k.dst_ip \/ (k.src_ip = k.dst_ip /\ k.src_port > k.dst_port)

(* Fault: the two directions keep their own keys.                          *)
NormalizedAsIs(k) == k

Normalized(k) == IF IsReverse(k) THEN Swap(k) ELSE k

IsNonZero(f) == \E v \in {f.protocol, f.src_port, f.dst_port, f.src_ip, f.dst_ip} : v # 0

(* Fields of the filter that are zero match everything.                    *)
Matches(f, k) ==
    /\ f.protocol \in {0, k.protocol}
    /\ f.src_port \in {0, k.src_port}
    /\ f.dst_port \in {0, k.dst_port}
    /\ f.src_ip # 0 => f.isIpv4 = k.isIpv4 /\ f.src_ip = k.src_ip
    /\ f.dst_ip # 0 => f.isIpv4 = k.isIpv4 /\ f.dst_ip = k.dst_ip

-----------------------------------------------------------------------------
(* keyFromPacket.  pkt.transport is the header of layer 4.                 *)

Protocol(t) == CASE t.kind = "icmp" -> 1 [] t.kind = "tcp" -> 6
                 [] t.kind = "udp" -> 17 [] t.kind = "icmpv6" -> 58

IsIcmp(t) == t.kind \in {"icmp", "icmpv6"}

(* setPorts: an echo's id on both sides, else the type and code.           *)
Ports(t) == IF ~IsIcmp(t) THEN <<t.src_port, t.dst_port>>
            ELSE IF t.echo THEN <<t.id, t.id>> ELSE <<256 * t.type + t.code, 0>>

HasKey(pkt) == pkt.network \in {"v4", "v6"}

KeyFromPacket(pkt) ==
    [isIpv4 |-> pkt.network = "v4", src_ip |-> pkt.src_ip, dst_ip |-> pkt.dst_ip,
     src_port |-> Ports(pkt.transport)[1], dst_port |-> Ports(pkt.transport)[2],
     protocol |-> Protocol(pkt.transport)]

-----------------------------------------------------------------------------
(* FlowTable                                                               *)

Dirs == {"fwd", "rev"}
DirOf(is_reverse) == IF is_reverse THEN "rev" ELSE "fwd"

PortHasAppDecoder(k) == {k.src_port, k.dst_port} \cap {DNS_PORT, HTTP_PORT} # {}

(* map[key] = v, whether key was there or not.                             *)
Put(map, key, v) == [k \in {key} \cup DOMAIN map |-> IF k = key THEN v ELSE map[k]]

NewTable == [flows |-> << >>, completed |-> <<>>, total_bytes |-> 0]

NewFlow(key, ts) ==
    [first_seen |-> ts, last_seen |-> ts,
     stats |-> [d \in Dirs |-> [packets |-> 0, bytes |-> 0]],
     tcp |-> [d \in Dirs |-> Fresh(PortHasAppDecoder(key))],
     is_reverse |-> FALSE, app_state |-> FALSE]

(* Fault: age is measured from the last packet.                            *)
IsExpiredByLast(flow, ts) ==
    /\ ts >= flow.last_seen
    /\ \/ U64(ts - flow.last_seen) > idle_timeout_us
       \/ active_timeout_us # 0 /\ U64(ts - flow.last_seen) > active_timeout_us

IsExpired(flow, ts) ==
    /\ ts >= flow.last_seen
    /\ \/ U64(ts - flow.last_seen) > idle_timeout_us
       \/ active_timeout_us # 0 /\ U64(ts - flow.first_seen) > active_timeout_us

Expires(tb, key, ts) == key \in DOMAIN tb.flows /\ IsExpired(tb.flows[key], ts)

IsNew(tb, key, ts) == key \notin DOMAIN tb.flows \/ Expires(tb, key, ts)

(* The flow a packet of n bytes leaves in the table.                       *)
Counted(tb, key, rev, ts, n) ==
    LET flow == IF IsNew(tb, key, ts) THEN NewFlow(key, ts) ELSE tb.flows[key]
    IN  [flow EXCEPT !.last_seen = ts, !.is_reverse = rev,
                     !.stats[DirOf(rev)].packets = @ + 1,
                     !.stats[DirOf(rev)].bytes = @ + n]

(* Fault: an expired flow is dropped instead of kept among the completed.  *)
AddPacketDropsExpired(tb, key, rev, ts, n) ==
    [tb EXCEPT !.total_bytes = @ + n,
               !.flows = Put(@, key, Counted(tb, key, rev, ts, n))]

(* addPacket, for a packet that has a key.                                 *)
AddPacket(tb, key, rev, ts, n) ==
    [total_bytes |-> tb.total_bytes + n,
     completed   |-> IF Expires(tb, key, ts)
                     THEN Append(tb.completed, [key |-> key, flow |-> tb.flows[key]])
                     ELSE tb.completed,
     flows       |-> Put(tb.flows, key, Counted(tb, key, rev, ts, n))]

(* allFlows: every flow with its key, the retired ones too.  The order,    *)
(* which is only for display, is left out.                                 *)
AllFlows(tb) ==
    tb.completed \o SetToSeq({[key |-> k, flow |-> tb.flows[k]] : k \in DOMAIN tb.flows})

TotalOf(flow, field) == flow.stats["fwd"][field] + flow.stats["rev"][field]

(* Over the retired flows and the active ones.                             *)
SumOverFlows(tb, field) ==
      SumFunction([i \in DOMAIN tb.completed |-> TotalOf(tb.completed[i].flow, field)])
    + SumFunction([k \in DOMAIN tb.flows |-> TotalOf(tb.flows[k], field)])

=============================================================================
