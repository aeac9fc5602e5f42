------------------------------ MODULE TcpStream ------------------------------
(***************************************************************************)
(* One TcpReassembler at work: the segments of one sender as a capture     *)
(* shows them (in any order, repeated, cut differently when retransmitted, *)
(* some never captured), the other side's segments, and a reader that      *)
(* consumes what has been assembled.                                       *)
(*                                                                         *)
(* The program is single-threaded, so a call of onSent runs to its end     *)
(* before anything else happens.  The loop of drain is taken one iteration *)
(* per step; pc and cur are the call in progress, and no other action is   *)
(* possible until pc is "idle" again.                                      *)
(*                                                                         *)
(* The sender's stream is StreamLen bytes, byte k (counted from 0) is the  *)
(* number k, and its sequence number is isn + 1 + k: the SYN comes just    *)
(* before byte 0 and the FIN just after the last.                          *)
(***************************************************************************)
EXTENDS TcpReassembler

CONSTANTS
    StreamLen,      \* bytes in the sender's stream
    MaxSegment,     \* payload bytes in one segment
    Reach,          \* how far from next_seq a captured segment may lie
    SynPayloads,    \* payload lengths a SYN may carry
    KeepPayload,    \* what keep_payload of the flow may be
    PeerFlags,      \* flag sets of the other side's segments
    AllowReset      \* may the sender reset the connection?

ASSUME StreamAssumption ==
    /\ StreamLen \in Nat /\ MaxSegment \in Nat /\ Reach \in Nat
    /\ MaxSegment <= Reach /\ Reach < SeqSpace \div 2
    /\ SynPayloads \subseteq 0 .. MaxSegment
    /\ KeepPayload \subseteq BOOLEAN /\ AllowReset \in BOOLEAN
    /\ PeerFlags \subseteq SUBSET {"syn", "ack", "fin", "rst"}

VARIABLES
    tcp,        \* the struct
    pc,         \* "idle", "drain" or "onData": where onSent is
    len,        \* drain's local: buffered segments gone through
    cur,        \* onSent's frame: what to do after ingest, the segment's FIN
    \* What the model remembers in order to state the properties:
    isn,        \* the sender's initial sequence number
    first,      \* the first stream offset the reassembler asked for
    next_off,   \* next_seq as an unwrapped stream offset
    fins,       \* times the FIN advanced next_seq
    read,       \* bytes handed to the reader so far
    captured    \* offsets given to ingest, but for those past the limit

vars == <<tcp, pc, len, cur, isn, first, next_off, fins, read, captured>>

SeqNumber(off) == U32(isn + 1 + off)

Slice(off, n) == [i \in 1 .. n |-> off + i - 1]

Idle == [call |-> "none", fin |-> FALSE, fin_at |-> 0]

Init ==
    /\ \E keep \in KeepPayload : tcp = Fresh(keep)
    /\ pc = "idle" /\ len = 0 /\ cur = Idle
    /\ isn \in SeqNumbers
    /\ first = 0 /\ next_off = 0 /\ fins = 0
    /\ read = <<>> /\ captured = {}

-----------------------------------------------------------------------------
(* The sender's segments                                                   *)

(* The reassembler is only ever compared with sequence numbers less than   *)
(* half the sequence space away.  TCP's window guarantees it as long as    *)
(* the capture has not missed half the space (2 GiB) in one gap.           *)
Near(off, n) == tcp.seeded => /\ next_off - off <= Reach
                              /\ off + n - next_off <= Reach

(* Segment bytes that the out-of-order limit keeps out.                    *)
PastLimit(t, seq, n) ==
    LET kept == {Len(t.out_of_order[i].data) :
                    i \in {j \in 1 .. Len(t.out_of_order) :
                              t.out_of_order[j].seq = seq}}
    IN  /\ t.keep_payload
        /\ SeqDiff(seq, t.next_seq) > 0
        /\ t.ooo_bytes + n - Max(kept \cup {0}) > MAX_OOO_BYTES

AfterIngest(call) == IF call = "onData" THEN "onData" ELSE "idle"

(* onSent(h, span), up to the point where ingest returns or starts drain.  *)
(* off is the stream offset of the payload.                                *)
Send(h, off, n) ==
    LET span == Slice(off, n)
        out  == OnSent(tcp, h)
        into == Ingest(out.tcp, out.seq, span)
        from == IF tcp.seeded THEN next_off ELSE off
    IN  /\ pc = "idle"
        /\ Near(off, n)
        /\ IF out.call = "none"
           THEN /\ tcp' = out.tcp
                /\ UNCHANGED <<pc, len, cur, first, next_off, captured>>
           ELSE /\ tcp' = into
                /\ pc' = IF Drains(out.tcp, out.seq, span) THEN "drain"
                         ELSE AfterIngest(out.call)
                /\ len' = 0
                /\ cur' = IF pc' = "idle" THEN Idle
                          ELSE [call |-> out.call, fin |-> h.fin,
                                fin_at |-> U32(h.seq_number + n)]
                /\ first' = IF tcp.seeded THEN first ELSE off
                /\ next_off' = from + U32(into.next_seq - out.tcp.next_seq)
                /\ captured' = IF PastLimit(out.tcp, out.seq, n) THEN captured
                               ELSE captured \cup (off .. off + n - 1)
        /\ UNCHANGED <<isn, fins, read>>

SynHeader(ack) == [syn |-> TRUE, ack |-> ack, fin |-> FALSE, rst |-> FALSE,
                   seq_number |-> isn, ack_number |-> 0]

DataHeader(off, fin) == [syn |-> FALSE, ack |-> TRUE, fin |-> fin, rst |-> FALSE,
                         seq_number |-> SeqNumber(off), ack_number |-> 0]

ResetHeader == [syn |-> FALSE, ack |-> TRUE, fin |-> FALSE, rst |-> TRUE,
                seq_number |-> SeqNumber(0), ack_number |-> 0]

(* A SYN, alone or as SYN+ACK; its payload starts at byte 0.               *)
SendSyn == \E ack \in BOOLEAN, n \in SynPayloads :
              n <= StreamLen /\ Send(SynHeader(ack), 0, n)

(* Any piece of the stream; one that reaches its end may carry the FIN.    *)
SendData ==
    \E off \in 0 .. StreamLen, n \in 0 .. MaxSegment, fin \in BOOLEAN :
       /\ off + n <= StreamLen
       /\ fin => off + n = StreamLen
       /\ Send(DataHeader(off, fin), off, n)

SendReset == AllowReset /\ Send(ResetHeader, next_off, 0)

-----------------------------------------------------------------------------
(* The rest of the call                                                    *)

(* One turn of drain's loop.                                               *)
Drain ==
    /\ pc = "drain"
    /\ DrainContinues(tcp, len)
    /\ tcp' = DrainStep(tcp, len)
    /\ len' = len + 1
    /\ next_off' = next_off + U32(tcp'.next_seq - tcp.next_seq)
    /\ UNCHANGED <<pc, cur, isn, first, fins, read, captured>>

(* The loop ends and what it went through is erased.                       *)
DrainReturn ==
    /\ pc = "drain"
    /\ ~DrainContinues(tcp, len)
    /\ tcp' = DrainErase(tcp, len)
    /\ len' = 0
    /\ pc' = AfterIngest(cur.call)
    /\ cur' = IF pc' = "idle" THEN Idle ELSE cur
    /\ UNCHANGED <<isn, first, next_off, fins, read, captured>>

(* onData after ingest: the FIN.                                           *)
OnDataReturn ==
    /\ pc = "onData"
    /\ tcp' = OnDataFin(tcp, cur.fin, cur.fin_at)
    /\ pc' = "idle" /\ cur' = Idle
    /\ next_off' = next_off + U32(tcp'.next_seq - tcp.next_seq)
    /\ fins' = fins + U32(tcp'.next_seq - tcp.next_seq)
    /\ UNCHANGED <<len, isn, first, read, captured>>

-----------------------------------------------------------------------------
(* The other side and the reader                                           *)

ReceiveSegment(f, k) ==
    /\ pc = "idle"
    /\ tcp' = OnReceived(tcp, [syn |-> "syn" \in f, ack |-> "ack" \in f,
                               fin |-> "fin" \in f, rst |-> "rst" \in f,
                               seq_number |-> 0, ack_number |-> SeqNumber(k)])
    /\ UNCHANGED <<pc, len, cur, isn, first, next_off, fins, read, captured>>

Receive == \E f \in PeerFlags, k \in 0 .. StreamLen + 1 : ReceiveSegment(f, k)

(* AppDecoder::pollStream consumes only while the state is readable.       *)
Read ==
    \E n \in 1 .. Available(tcp) :
       /\ pc = "idle"
       /\ HasReadableData(tcp)
       /\ read' = read \o SubSeq(Peek(tcp), 1, n)
       /\ tcp' = Consume(tcp, n)
       /\ UNCHANGED <<pc, len, cur, isn, first, next_off, fins, captured>>

Next == \/ SendSyn \/ SendData \/ SendReset
        \/ Drain \/ DrainReturn \/ OnDataReturn
        \/ Receive \/ Read

Spec == Init /\ [][Next]_vars

-----------------------------------------------------------------------------
(* Fairness.  A call that has started ends (the program is sequential and  *)
(* nothing blocks).  The sender keeps retransmitting what has not been     *)
(* assembled, the other side's acknowledgements are captured: TCP's own    *)
(* promise about a connection that is not reset; nothing forces a reset.   *)

RetransmitNext ==
    \E n \in 0 .. MaxSegment :
       /\ next_off + n <= StreamLen
       /\ n > 0 \/ next_off = StreamLen
       /\ Send(DataHeader(next_off, next_off + n = StreamLen), next_off, n)

Acknowledge == \E k \in 0 .. StreamLen + 1 : ReceiveSegment({"ack"}, k)

FairSpec == /\ Spec
            /\ WF_vars(Drain \/ DrainReturn \/ OnDataReturn)
            /\ SF_vars(RetransmitNext)
            /\ SF_vars(Acknowledge)

-----------------------------------------------------------------------------
(* Properties                                                              *)

Segments == [seq : SeqNumbers, data : Seq(Nat)]

Structs == [state : TcpStates, next_seq : SeqNumbers, ooo_bytes : Nat,
            out_of_order : Seq(Segments), assembled : Seq(Nat),
            read_pos : Nat, fin_seen : BOOLEAN, fin_seq : SeqNumbers,
            seeded : BOOLEAN, keep_payload : KeepPayload]

(* The struct, the call in progress and the bookkeeping have their types.  *)
TypeOK ==
    /\ tcp \in Structs
    /\ pc \in {"idle", "drain", "onData"}
    /\ len \in 0 .. Len(tcp.out_of_order)
    /\ cur \in [call : {"none", "ingest", "onData"}, fin : BOOLEAN, fin_at : SeqNumbers]
    /\ isn \in SeqNumbers
    /\ first \in 0 .. StreamLen
    /\ next_off \in Nat /\ fins \in Nat
    /\ read \in Seq(Nat)
    /\ captured \subseteq 0 .. StreamLen

(* ooo_bytes is a size_t that drain subtracts from: it never goes below    *)
(* zero and never passes MAX_OOO_BYTES.                                    *)
OooBounded == tcp.ooo_bytes \in 0 .. MAX_OOO_BYTES

(* The running totals of the payload buffered behind each position of      *)
(* out_of_order (rem[k] is that of segments k+1 ..), none past the limit.  *)
SuffixSums(t) ==
    {rem \in [0 .. Len(t.out_of_order) -> 0 .. MAX_OOO_BYTES] :
       /\ rem[Len(t.out_of_order)] = 0
       /\ \A k \in 0 .. Len(t.out_of_order) - 1 :
             rem[k] = rem[k + 1] + Len(t.out_of_order[k + 1].data)
       /\ \A j, k \in 0 .. Len(t.out_of_order) : j <= k => rem[k] <= rem[j]}

Accounted(t, n) == \E rem \in SuffixSums(t) : t.ooo_bytes = rem[n]

(* ooo_bytes is exactly the payload held in out_of_order, and inside drain *)
(* the payload of the segments still to be gone through.                   *)
OooAccounting == Accounted(tcp, len)

(* Between calls the buffered segments lie strictly ahead of next_seq in   *)
(* increasing order: what lower_bound needs of its range, and what makes   *)
(* drain's early break right.                                              *)
OooSorted ==
    pc = "idle" =>
       \A i \in 1 .. Len(tcp.out_of_order) :
          /\ SeqDiff(tcp.out_of_order[i].seq, tcp.next_seq) > 0
          /\ \A j \in 1 .. i - 1 :
                U32(tcp.out_of_order[j].seq - tcp.next_seq)
                  < U32(tcp.out_of_order[i].seq - tcp.next_seq)

(* What the reader has taken and can still take is the sender's stream     *)
(* from the first byte on, with no byte lost, repeated or moved, up to     *)
(* next_seq.                                                               *)
StreamExact ==
    tcp.keep_payload /\ tcp.seeded =>
       read \o Peek(tcp) = Slice(first, next_off - fins - first)

(* next_seq never runs ahead of what was captured, with or without payload.*)
NextSeqCovered ==
    tcp.seeded => first .. next_off - fins - 1 \subseteq captured

(* No captured byte is forgotten: between calls the byte next_seq waits    *)
(* for has not been captured yet (unless the limit kept it out).           *)
NoCapturedByteMissed ==
    pc = "idle" /\ tcp.keep_payload /\ tcp.seeded => next_off \notin captured

(* The direction counts as closing only when its stream was assembled to   *)
(* the end: a FIN that arrives early waits for the bytes before it.        *)
FinAfterAllBytes ==
    tcp.state \in {"FinWait1", "FinWait2", "Closing", "LastAck", "TimeWait"} =>
       next_off - fins = StreamLen

(* The reassembler implements ByteStream: what has been read and can be    *)
(* read is one view of the sender's stream that only grows at its end,     *)
(* across out-of-order arrival, drain, compaction and resets.              *)
Promise == INSTANCE ByteStream WITH view <- read \o Peek(tcp), taken <- Len(read)

ImplementsByteStream == Promise!Spec

(* With retransmission the stream is completed whatever was captured, in   *)
(* whatever order, and however full the out-of-order buffer got, unless a  *)
(* reset ends it (onSent, onReceived).                                     *)
StreamCompletes == tcp.seeded ~> (next_off > StreamLen \/ tcp.state = "Closed")

=============================================================================
