--------------------------- MODULE TcpReassembler ---------------------------
(***************************************************************************)
(* The struct TcpReassembler (tcp_reassembler.h / .cpp): what one direction*)
(* of a TCP flow keeps, and its methods as operators from the struct's     *)
(* value before the call to its value after it.  A struct is a record with *)
(* the source's field names; a payload is a sequence of bytes.             *)
(*                                                                         *)
(* uint32_t sequence numbers are 0..SeqSpace-1 and wrap; the program's     *)
(* SeqSpace is 2^32, its MAX_OOO_BYTES 2^20, its MIN_COMPACT_BYTES 4096.   *)
(***************************************************************************)
EXTENDS Integers, Sequences, SequencesExt, FiniteSetsExt

CONSTANTS SeqSpace, MAX_OOO_BYTES, MIN_COMPACT_BYTES

ASSUME SeqSpaceAssumption == SeqSpace \in Nat /\ SeqSpace > 1 /\ SeqSpace % 2 = 0
ASSUME LimitsAssumption == MAX_OOO_BYTES \in Nat /\ MIN_COMPACT_BYTES \in Nat

TcpStates == {"Unknown", "Closed", "Listen", "SynSent", "SynReceived",
              "Established", "FinWait1", "FinWait2", "CloseWait", "Closing",
              "LastAck", "TimeWait"}

SeqNumbers == 0 .. SeqSpace - 1

(* The flags and numbers of tcp::Header that the reassembler looks at.     *)
Headers == [syn : BOOLEAN, ack : BOOLEAN, fin : BOOLEAN, rst : BOOLEAN,
            seq_number : SeqNumbers, ack_number : SeqNumbers]

Fresh(keep) ==
    [state |-> "Unknown", next_seq |-> 0, ooo_bytes |-> 0,
     out_of_order |-> <<>>, assembled |-> <<>>, read_pos |-> 0,
     fin_seen |-> FALSE, fin_seq |-> 0, seeded |-> FALSE,
     keep_payload |-> keep]

-----------------------------------------------------------------------------
(* uint32_t and int32_t arithmetic.                                        *)

U32(x) == x % SeqSpace

(* static_cast<int32_t>(a - b): the signed distance from b to a.           *)
SeqDiff(a, b) == LET d == U32(a - b)
                 IN  IF d < SeqSpace \div 2 THEN d ELSE d - SeqSpace

-----------------------------------------------------------------------------
(* ingest                                                                  *)

(* Fault: the overlap is not taken off what next_seq advances by.          *)
AssembleCountsOverlap(t, span, skip) ==
    [t EXCEPT !.assembled = @ \o SubSeq(span, skip + 1, Len(span)),
              !.next_seq  = U32(@ + Len(span))]

(* Bytes skip+1.. of a payload go to the end of the assembled stream.      *)
Assemble(t, span, skip) ==
    [t EXCEPT !.assembled = @ \o SubSeq(span, skip + 1, Len(span)),
              !.next_seq  = U32(@ + Len(span) - skip)]

(* The keep_payload = false path: next_seq moves, no byte is kept.         *)
CountOnly(t, seq, span) ==
    LET overlap == U32(t.next_seq - seq)
    IN  IF /\ SeqDiff(seq, t.next_seq) <= 0
           /\ seq = t.next_seq \/ overlap < Len(span)
        THEN [t EXCEPT !.next_seq = U32(@ + Len(span) - overlap)]
        ELSE t

(* Fault: sequence numbers compared without regard to wraparound.          *)
LowerBoundUnwrapped(t, seq) ==
    Min({i \in 1 .. Len(t.out_of_order) : t.out_of_order[i].seq >= seq}
        \cup {Len(t.out_of_order) + 1})

(* std::lower_bound over out_of_order with the order of distances from     *)
(* next_seq.  This is its contract on a partitioned range; OooSorted is    *)
(* the invariant that the range always is one.                             *)
LowerBound(t, seq) ==
    Min({i \in 1 .. Len(t.out_of_order) :
            U32(t.out_of_order[i].seq - t.next_seq) >= U32(seq - t.next_seq)}
        \cup {Len(t.out_of_order) + 1})

(* Faults: the limit is not checked on replacement; the whole new payload  *)
(* is charged; a shorter retransmission replaces a longer segment.         *)
ReplaceAhead(t, seq, span, charge, worth) ==
    LET it == LowerBound(t, seq)
    IN  IF it <= Len(t.out_of_order) /\ t.out_of_order[it].seq = seq
        THEN IF worth
             THEN [t EXCEPT !.ooo_bytes = @ + charge - Len(t.out_of_order[it].data),
                            !.out_of_order[it].data = span]
             ELSE t
        ELSE IF t.ooo_bytes + Len(span) <= MAX_OOO_BYTES
             THEN [t EXCEPT !.ooo_bytes = @ + Len(span),
                            !.out_of_order =
                               InsertAt(@, it, [seq |-> seq, data |-> span])]
             ELSE t
BufferAheadReplaceUnlimited(t, seq, span) ==
    LET it == LowerBound(t, seq)
    IN  ReplaceAhead(t, seq, span, Len(span),
                     Len(span) > Len(t.out_of_order[it].data))
BufferAheadChargeTwice(t, seq, span) ==
    LET it == LowerBound(t, seq)
        n  == Len(t.out_of_order[it].data)
    IN  ReplaceAhead(t, seq, span, Len(span) + n,
                     Len(span) > n /\ t.ooo_bytes + Len(span) - n <= MAX_OOO_BYTES)
BufferAheadKeepLatest(t, seq, span) ==
    LET it == LowerBound(t, seq)
    IN  ReplaceAhead(t, seq, span, Len(span),
                     t.ooo_bytes + Len(span) - Len(t.out_of_order[it].data)
                       <= MAX_OOO_BYTES)

(* A segment past the next expected byte is buffered in order; one that    *)
(* starts where a buffered one does replaces it only when it is longer;    *)
(* nothing that would pass the byte limit is kept.                         *)
BufferAhead(t, seq, span) ==
    LET it    == LowerBound(t, seq)
        same  == it <= Len(t.out_of_order) /\ t.out_of_order[it].seq = seq
        extra == Len(span) - Len(t.out_of_order[it].data)
    IN  IF same
        THEN IF extra > 0 /\ t.ooo_bytes + extra <= MAX_OOO_BYTES
             THEN [t EXCEPT !.ooo_bytes = @ + extra,
                            !.out_of_order[it].data = span]
             ELSE t
        ELSE IF t.ooo_bytes + Len(span) <= MAX_OOO_BYTES
             THEN [t EXCEPT !.ooo_bytes = @ + Len(span),
                            !.out_of_order =
                               InsertAt(@, it, [seq |-> seq, data |-> span])]
             ELSE t

(* Does ingest append bytes and then call drain?                           *)
Drains(t, seq, span) ==
    /\ t.keep_payload
    /\ \/ seq = t.next_seq
       \/ SeqDiff(seq, t.next_seq) < 0 /\ U32(t.next_seq - seq) < Len(span)

(* Fault: while the buffer is full not even the missing bytes are taken.   *)
IngestWhileRoom(t, seq, span) ==
    IF t.ooo_bytes + Len(span) > MAX_OOO_BYTES THEN t
    ELSE IF Drains(t, seq, span) THEN Assemble(t, span, U32(t.next_seq - seq))
    ELSE IF SeqDiff(seq, t.next_seq) > 0 THEN BufferAhead(t, seq, span)
    ELSE t

(* ingest up to, and without, its call of drain.                           *)
Ingest(t, seq, span) ==
    IF ~t.keep_payload THEN CountOnly(t, seq, span)
    ELSE IF Drains(t, seq, span)
         THEN Assemble(t, span, U32(t.next_seq - seq))
         ELSE IF SeqDiff(seq, t.next_seq) > 0
              THEN BufferAhead(t, seq, span)
              ELSE t

-----------------------------------------------------------------------------
(* drain: len counts the buffered segments the loop has been through.      *)

DrainContinues(t, len) ==
    /\ len < Len(t.out_of_order)
    /\ SeqDiff(t.out_of_order[len + 1].seq, t.next_seq) <= 0

(* Fault: a buffered segment is appended whole.                            *)
DrainStepUncut(t, len) ==
    LET segment == t.out_of_order[len + 1]
    IN  Assemble([t EXCEPT !.ooo_bytes = @ - Len(segment.data)], segment.data, 0)

(* One iteration of the loop.                                              *)
DrainStep(t, len) ==
    LET segment == t.out_of_order[len + 1]
        covered == U32(t.next_seq - segment.seq)
        freed   == [t EXCEPT !.ooo_bytes = @ - Len(segment.data)]
    IN  IF covered < Len(segment.data)
        THEN Assemble(freed, segment.data, covered)
        ELSE freed

(* The erase after the loop.                                               *)
DrainErase(t, len) ==
    [t EXCEPT !.out_of_order = SubSeq(@, len + 1, Len(@))]

-----------------------------------------------------------------------------
(* onSent and onData                                                       *)

(* What onSent does before it hands the payload on: the struct it leaves,  *)
(* the method it calls ("none" when it returns at once) and the sequence   *)
(* number it passes.                                                       *)
OnSent(t, h) ==
    CASE h.rst ->
           [tcp |-> [t EXCEPT !.state = "Closed"], call |-> "none", seq |-> 0]
      [] ~h.rst /\ ~t.seeded /\ h.syn ->
           [tcp  |-> [t EXCEPT !.next_seq = U32(h.seq_number + 1),
                               !.state = IF h.ack THEN "SynReceived" ELSE "SynSent",
                               !.seeded = TRUE],
            call |-> "ingest", seq |-> U32(h.seq_number + 1)]
      [] ~h.rst /\ ~t.seeded /\ ~h.syn /\ h.ack ->
           [tcp  |-> [t EXCEPT !.next_seq = h.seq_number,
                               !.seeded = TRUE,
                               !.state = IF @ = "CloseWait" THEN @ ELSE "Established"],
            call |-> "onData", seq |-> h.seq_number]
      [] ~h.rst /\ t.seeded /\ t.state = "SynSent" /\ h.ack /\ ~h.syn ->
           [tcp  |-> [t EXCEPT !.state = "Established"],
            call |-> "onData", seq |-> h.seq_number]
      [] ~h.rst /\ t.seeded /\ t.state \in {"Established", "CloseWait"} ->
           [tcp |-> t, call |-> "onData", seq |-> h.seq_number]
      [] OTHER -> [tcp |-> t, call |-> "none", seq |-> 0]

(* Faults: the FIN does not wait for missing bytes; its number is not      *)
(* wrapped; the side that closes second is taken for the first.            *)
OnDataFinAtOnce(t, fin, fin_at) ==
    IF fin THEN [t EXCEPT !.fin_seq = fin_at, !.next_seq = U32(@ + 1),
                          !.state = IF @ = "CloseWait" THEN "LastAck" ELSE "FinWait1"]
           ELSE t
OnDataFinUnwrapped(t, fin, fin_at) ==
    IF fin /\ SeqDiff(t.next_seq, fin_at) >= 0
    THEN [t EXCEPT !.fin_seq = fin_at, !.next_seq = @ + 1, !.state = "FinWait1"]
    ELSE t
OnDataFinAlwaysActive(t, fin, fin_at) ==
    LET seen == t.fin_seen \/ fin
        at   == IF fin THEN fin_at ELSE t.fin_seq
    IN  IF seen /\ SeqDiff(t.next_seq, at) >= 0
        THEN [t EXCEPT !.fin_seen = FALSE, !.fin_seq = at,
                       !.next_seq = U32(@ + 1), !.state = "FinWait1"]
        ELSE [t EXCEPT !.fin_seen = seen, !.fin_seq = at]

(* The rest of onData once ingest has returned: remember a FIN, and act on *)
(* it when every byte before it has been assembled.                        *)
OnDataFin(t, fin, fin_at) ==
    LET seen == t.fin_seen \/ fin
        at   == IF fin THEN fin_at ELSE t.fin_seq
    IN  IF seen /\ SeqDiff(t.next_seq, at) >= 0
        THEN [t EXCEPT !.fin_seen = FALSE,
                       !.fin_seq  = at,
                       !.next_seq = U32(@ + 1),
                       !.state    = IF @ = "CloseWait" THEN "LastAck" ELSE "FinWait1"]
        ELSE [t EXCEPT !.fin_seen = seen, !.fin_seq = at]

(* drain, start to end: entry k of its run is the struct after at most k   *)
(* iterations, and how many there were.                                    *)
DrainTurn(at, k) ==
    IF at.len = k - 1 /\ DrainContinues(at.tcp, at.len)
    THEN [tcp |-> DrainStep(at.tcp, at.len), len |-> k]
    ELSE at

DrainRun(t) ==
    LET go[k \in 0 .. Len(t.out_of_order)] ==
          IF k = 0 THEN [tcp |-> t, len |-> 0] ELSE DrainTurn(go[k - 1], k)
    IN  go

DrainAll(t) ==
    LET end == DrainRun(t)[Len(t.out_of_order)]
    IN  DrainErase(end.tcp, end.len)

(* onSent with everything it calls.                                        *)
OnSentAll(t, h, span) ==
    LET out  == OnSent(t, h)
        into == Ingest(out.tcp, out.seq, span)
        done == IF Drains(out.tcp, out.seq, span) THEN DrainAll(into) ELSE into
    IN  CASE out.call = "none"   -> out.tcp
          [] out.call = "ingest" -> done
          [] out.call = "onData" -> OnDataFin(done, h.fin, U32(h.seq_number + Len(span)))

-----------------------------------------------------------------------------
(* onReceived: a segment of the other direction.                           *)

(* Fault: any acknowledgement counts, whatever it acknowledges.            *)
AckedAny(t, h) == h.ack

(* Does h acknowledge everything up to next_seq, the FIN included?         *)
Acked(t, h) == h.ack /\ SeqDiff(h.ack_number, t.next_seq) >= 0

OnReceived(t, h) ==
    LET next ==
          CASE h.rst -> "Closed"
            [] ~h.rst /\ t.state \in {"Unknown", "Closed", "Listen"} ->
                 IF h.syn /\ ~h.ack THEN "Listen"
                 ELSE IF h.ack /\ ~h.syn
                      THEN IF h.fin THEN "CloseWait" ELSE "Established"
                      ELSE t.state
            [] ~h.rst /\ t.state = "SynSent" ->
                 IF h.syn /\ ~h.ack THEN "SynReceived" ELSE t.state
            [] ~h.rst /\ t.state = "SynReceived" ->
                 IF h.ack /\ ~h.syn
                 THEN IF h.fin THEN "CloseWait" ELSE "Established"
                 ELSE t.state
            [] ~h.rst /\ t.state = "Established" ->
                 IF h.fin THEN "CloseWait" ELSE t.state
            [] ~h.rst /\ t.state = "FinWait1" ->
                 IF h.fin THEN IF Acked(t, h) THEN "TimeWait" ELSE "Closing"
                 ELSE IF Acked(t, h) THEN "FinWait2" ELSE t.state
            [] ~h.rst /\ t.state = "FinWait2" ->
                 IF h.fin THEN "TimeWait" ELSE t.state
            [] ~h.rst /\ t.state = "Closing" ->
                 IF Acked(t, h) THEN "TimeWait" ELSE t.state
            [] ~h.rst /\ t.state = "LastAck" ->
                 IF Acked(t, h) THEN "Closed" ELSE t.state
            [] OTHER -> t.state
    IN  [t EXCEPT !.state = next]

-----------------------------------------------------------------------------
(* The reader's side                                                       *)

Available(t) == Len(t.assembled) - t.read_pos

Peek(t) == SubSeq(t.assembled, t.read_pos + 1, Len(t.assembled))

(* Fault: compaction leaves read_pos where it was.                         *)
ConsumeKeepsPos(t, n) ==
    LET pos == t.read_pos + Min({n, Available(t)})
    IN  IF pos > MIN_COMPACT_BYTES /\ pos > Len(t.assembled) \div 2
        THEN [t EXCEPT !.assembled = SubSeq(@, pos + 1, Len(@)),
                       !.read_pos = Min({pos, Len(t.assembled) - pos})]
        ELSE [t EXCEPT !.read_pos = pos]

(* consume, with the compaction of the assembled buffer.                   *)
Consume(t, n) ==
    LET pos == t.read_pos + Min({n, Available(t)})
    IN  IF pos > MIN_COMPACT_BYTES /\ pos > Len(t.assembled) \div 2
        THEN [t EXCEPT !.assembled = SubSeq(@, pos + 1, Len(@)), !.read_pos = 0]
        ELSE [t EXCEPT !.read_pos = pos]

(* Fault: only an open direction is read.                                  *)
HasReadableDataOpenOnly(t) == t.state = "Established"

HasReadableData(t) == t.state \in {"Established", "FinWait1", "FinWait2"}

=============================================================================
