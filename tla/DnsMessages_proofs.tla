------------------------- MODULE DnsMessages_proofs -------------------------
(***************************************************************************)
(* What holds of DnsMessages for every traffic, and for every size of the  *)
(* header and of the fixed parts and every limit on names: dns::parse      *)
(* stays within its message, however a stream is cut every message is      *)
(* taken whole and once, a name that is accepted is the one its bytes and  *)
(* pointers spell, and the table of names agrees with the messages listed. *)
(***************************************************************************)
EXTENDS DnsMessages, SequenceTheorems, FiniteSetTheorems, WellFoundedInduction, TLAPS

-----------------------------------------------------------------------------
(* Types                                                                   *)

Bytes    == Seq(Nat)
Sections == {"questions", "answers", "authority", "additional"}
Items    == [section : Sections, name : Bytes, type : Nat, rdata : Bytes]
Parsed   == [at : Nat, cur : Nat, jumps : 0 .. MaxDnsCompressionJumps,
             octets : 0 .. MaxDnsNameOctets, ceiling : Int, name : Bytes, start : Nat,
             items : Seq(Items)]
Messages == [response : BOOLEAN, items : Seq(Items), base : Nat]
Apps     == [dns_messages : Seq(Messages), decode_failures : Nat]

Parsing == pc \in {"header", "name", "fixed"}

(* The spans, and what each variable holds.                                *)
Spans ==
    /\ flow \in Flows
    /\ arrived \in Nat /\ pos \in Nat /\ base \in Nat /\ end \in Nat
    /\ pos <= arrived /\ arrived <= Len(flow.bytes)
    /\ base <= end /\ end <= arrived
    /\ pc \in {"idle", "frame", "header", "name", "fixed"}
    /\ dns \in Parsed /\ app \in Apps

(* A name is read within its message: where the span goes on, where        *)
(* parseName looks, and where the last pointer went.                       *)
InMessage ==
    pc \in {"name", "fixed"} =>
       /\ base <= dns.cur /\ dns.cur <= end
       /\ base <= dns.at /\ dns.at <= end
       /\ dns.ceiling <= end - base

BInv == Spans /\ InMessage /\ touched \in Int \X Int /\ ReadsInBounds

-----------------------------------------------------------------------------
(* Bytes of the flow                                                       *)

(* A byte read anywhere from the front on is a byte.                       *)
LEMMA ByteType == Spans => \A i \in Nat : Byte(i) \in 0 .. 255
<1> SUFFICES ASSUME Spans, NEW i \in Nat PROVE Byte(i) \in 0 .. 255
  OBVIOUS
<1>1. flow.bytes \in Seq(0 .. 255) BY FlowsAssumption DEF Spans
<1>2. i < Len(flow.bytes) => i + 1 \in 1 .. Len(flow.bytes) BY <1>1, LenProperties
<1>3. i < Len(flow.bytes) => flow.bytes[i + 1] \in 0 .. 255 BY <1>1, <1>2, ElementOfSeq
<1>4. 0 \in 0 .. 255 OBVIOUS
<1> QED BY <1>3, <1>4 DEF Byte

(* A copied run of bytes is a sequence.                                    *)
LEMMA SliceBytes == ASSUME Spans, NEW from \in Nat, NEW n \in Nat PROVE Slice(from, n) \in Bytes
<1>1. \A i \in 1 .. n : from + i - 1 \in Nat OBVIOUS
<1>2. \A i \in 1 .. n : Byte(from + i - 1) \in Nat BY <1>1, ByteType
<1> QED BY <1>2, IsASeq DEF Slice, Bytes

(* Header reads five bytes.                                                *)
LEMMA HeaderType ==
    ASSUME Spans
    PROVE  /\ Header.response \in BOOLEAN
           /\ Header.qdcount \in Nat /\ Header.ancount \in Nat
           /\ Header.nscount \in Nat /\ Header.arcount \in Nat
<1>1. base \in Nat /\ base + 1 \in Nat /\ base + 2 \in Nat /\ base + 3 \in Nat /\ base + 4 \in Nat
  BY DEF Spans
<1>2. \A x \in 0 .. 255 : x \in Nat OBVIOUS
<1>3. Header = [response |-> Byte(base) > 0, qdcount |-> Byte(base + 1),
                ancount |-> Byte(base + 2), nscount |-> Byte(base + 3), arcount |-> Byte(base + 4)]
  BY DEF Header
<1>4. /\ Byte(base + 1) \in Nat /\ Byte(base + 2) \in Nat /\ Byte(base + 3) \in Nat
      /\ Byte(base + 4) \in Nat /\ (Byte(base) > 0) \in BOOLEAN
  <2>1. \A a \in {base, base + 1, base + 2, base + 3, base + 4} : Byte(a) \in 0 .. 255
    BY <1>1, ByteType
  <2>2. \A x \in 0 .. 255 : (x > 0) \in BOOLEAN OBVIOUS
  <2>3. /\ Byte(base) \in 0 .. 255 /\ Byte(base + 1) \in 0 .. 255 /\ Byte(base + 2) \in 0 .. 255
        /\ Byte(base + 3) \in 0 .. 255 /\ Byte(base + 4) \in 0 .. 255
    BY <2>1, Zenon
  <2> QED BY <1>2, <2>2, <2>3, Zenon
<1> QED BY <1>3, <1>4

(* Where a flow's messages lie, and that there are only so many.           *)
LEMMA MsgsType ==
    ASSUME NEW f \in Flows
    PROVE  /\ IsFiniteSet(Range(f.msgs))
           /\ Len(f.bytes) \in Nat
           /\ \A m \in Range(f.msgs) : m.from \in Nat /\ m.to \in Nat /\ m.to <= Len(f.bytes)
<1> DEFINE M == [from : Nat, to : 0 .. Len(f.bytes), sound : BOOLEAN, names : Seq(Seq(0 .. 255))]
           R == Range(f.msgs)
<1>1. f.msgs \in Seq(M) /\ f.bytes \in Seq(0 .. 255) BY FlowsAssumption
<1>2. Len(f.bytes) \in Nat BY <1>1, LenProperties
<1>3. \A m \in M : m.from \in Nat /\ m.to \in Nat /\ m.to <= Len(f.bytes) BY <1>2
<1> HIDE DEF M
<1>4. R \in SUBSET M BY <1>1, RangeOfSeq
<1>5. IsFiniteSet(R)
  <2>1. Len(f.msgs) \in Nat /\ DOMAIN f.msgs = 1 .. Len(f.msgs) BY <1>1, LenProperties
  <2>2. f.msgs \in Surjection(1 .. Len(f.msgs), R)
    <3>1. f.msgs \in [1 .. Len(f.msgs) -> M] BY <1>1, LenProperties
    <3>2. R = {f.msgs[i] : i \in 1 .. Len(f.msgs)} BY <1>1, RangeEquality
    <3> QED BY <3>1, <3>2 DEF Surjection
  <2>3. 1 \in Int /\ Len(f.msgs) \in Int BY <2>1
  <2>4. IsFiniteSet(1 .. Len(f.msgs)) BY <2>3, FS_Interval
  <2> HIDE DEF R
  <2> QED BY <2>2, <2>4, FS_Surjection
<1> QED BY <1>2, <1>3, <1>4, <1>5

-----------------------------------------------------------------------------
(* How a message ends                                                      *)

(* The locals before a name.                                               *)
LEMMA NotParsingType == NotParsing \in Parsed
<1>1. <<>> \in Bytes /\ <<>> \in Seq(Items) BY DEF Bytes
<1>2. 0 \in 0 .. MaxDnsCompressionJumps /\ 0 \in 0 .. MaxDnsNameOctets /\ 0 \in Nat /\ -1 \in Int
  BY DnsAssumption
<1> QED BY <1>1, <1>2 DEF NotParsing, Parsed

(* The message is consumed, with whatever was made of it.                  *)
LEMMA LeaveSpans ==
    ASSUME Spans, NEW a \in Apps, NEW t, Leave(a, t)
    PROVE  Spans' /\ InMessage' /\ UNCHANGED <<base, end>>
<1>1. /\ app' = a /\ pos' = end /\ pc' \in {"frame", "idle"} /\ dns' = NotParsing
      /\ UNCHANGED <<flow, arrived, base, end>>
  BY DEF Leave
<1> QED BY <1>1, NotParsingType DEF Spans, InMessage

(* A message that does not parse.                                          *)
LEMMA FailSpans ==
    ASSUME Spans, Fail
    PROVE  Spans' /\ InMessage' /\ UNCHANGED <<base, end>>
<1> DEFINE a == [app EXCEPT !.decode_failures = @ + 1]
<1>1. a \in Apps BY DEF Spans, Apps
<1>2. Leave(a, domains) BY DEF Fail
<1> HIDE DEF a
<1> QED BY <1>1, <1>2, LeaveSpans

(* The next name is looked for where the last part ended, or the message   *)
(* is whole.                                                               *)
LEMMA NextItemSpans ==
    ASSUME Spans, NEW at \in Nat, NEW items \in Seq(Items), base <= at, at <= end,
           NextItem(at, items)
    PROVE  Spans' /\ InMessage' /\ UNCHANGED <<base, end>>
<1> DEFINE m == [response |-> Header.response, items |-> items, base |-> base]
           a == [app EXCEPT !.dns_messages = Append(@, m)]
           d == [NotParsing EXCEPT !.at = at, !.cur = at, !.start = at, !.items = items]
<1>1. CASE Len(items) = Count
  <2>1. m \in Messages BY HeaderType DEF Messages, Spans
  <2>2. a \in Apps
    <3> HIDE DEF m
    <3>1. app.dns_messages \in Seq(Messages) /\ app \in Apps BY DEF Spans, Apps
    <3>2. Append(app.dns_messages, m) \in Seq(Messages) BY <2>1, <3>1, AppendProperties
    <3> QED BY <3>1, <3>2 DEF Apps
  <2>3. Leave(a, Record(domains, m)) BY <1>1 DEF NextItem
  <2> HIDE DEF a, m
  <2> QED BY <2>2, <2>3, LeaveSpans
<1>2. CASE Len(items) # Count
  <2>1. /\ dns' = d /\ pc' = "name"
        /\ UNCHANGED <<flow, arrived, pos, base, end, app, domains>>
    BY <1>2 DEF NextItem
  <2>2. d \in Parsed BY NotParsingType DEF Parsed
  <2>3. d.cur = at /\ d.at = at /\ d.ceiling = -1 BY DEF NotParsing
  <2> HIDE DEF d
  <2>4. base \in Nat /\ end \in Nat /\ base <= end BY DEF Spans
  <2>5. -1 <= end - base BY <2>4
  <2> QED BY <2>1, <2>2, <2>3, <2>5 DEF Spans, InMessage
<1> QED BY <1>1, <1>2

-----------------------------------------------------------------------------
(* Every step reads within the message                                     *)

(* What a step has to show of the bytes it reads.                          *)
Touches(a, b) == touched' = <<a, b>> /\ a \in Int /\ b \in Int /\ (a = b \/ (base <= a /\ b <= end))

(* It then reads in bounds.                                                *)
LEMMA StepBounds ==
    ASSUME NEW a, NEW b, Touches(a, b), Spans', InMessage', UNCHANGED <<base, end>>
    PROVE  BInv'
BY DEF Touches, BInv, ReadsInBounds

(* The counts of the header are only read when it is there.                *)
LEMMA ParseHeaderBounds == BInv /\ ParseHeader => BInv'
<1> SUFFICES ASSUME BInv, ParseHeader PROVE BInv'
  OBVIOUS
<1>0. Spans /\ base \in Nat /\ end \in Nat /\ base <= end /\ HEADER_LEN \in Nat
  BY DnsAssumption DEF BInv, Spans
<1> DEFINE b == IF end - base < HEADER_LEN THEN base ELSE base + HEADER_LEN
<1>1. touched' = <<base, b>> BY DEF ParseHeader
<1>2. Touches(base, b) BY <1>0, <1>1 DEF Touches
<1> HIDE DEF b
<1>3. Spans' /\ InMessage' /\ UNCHANGED <<base, end>>
  <2>1. CASE Fail BY <1>0, <2>1, FailSpans
  <2>2. CASE ~Fail
    <3>1. ~(end - base < HEADER_LEN) /\ NextItem(base + HEADER_LEN, <<>>)
      BY <2>2 DEF ParseHeader
    <3>2. base + HEADER_LEN \in Nat /\ base <= base + HEADER_LEN /\ base + HEADER_LEN <= end
      BY <1>0, <3>1
    <3>3. <<>> \in Seq(Items) OBVIOUS
    <3> QED BY <1>0, <3>1, <3>2, <3>3, NextItemSpans
  <2> QED BY <2>1, <2>2
<1> QED BY <1>2, <1>3, StepBounds

(* What a step within a message finds.                                     *)
LEMMA Found ==
    ASSUME BInv
    PROVE  /\ Spans /\ base \in Nat /\ end \in Nat /\ base <= end
           /\ dns \in Parsed /\ dns.cur \in Nat /\ dns.at \in Nat /\ dns.octets \in Nat
           /\ dns.jumps \in Nat /\ dns.ceiling \in Int /\ dns.items \in Seq(Items)
           /\ dns.name \in Bytes /\ dns.start \in Nat
           /\ MaxDnsCompressionJumps \in Nat /\ MaxDnsNameOctets \in Nat
           /\ pc \in {"name", "fixed"} => /\ base <= dns.cur /\ dns.cur <= end
                                          /\ base <= dns.at /\ dns.at <= end
                                          /\ dns.ceiling <= end - base
<1>1. Spans /\ InMessage BY DEF BInv
<1>2. dns \in Parsed BY <1>1 DEF Spans
<1>3. MaxDnsCompressionJumps \in Nat /\ MaxDnsNameOctets \in Nat BY DnsAssumption
<1>4. dns.jumps \in 0 .. MaxDnsCompressionJumps /\ dns.octets \in 0 .. MaxDnsNameOctets
  BY <1>2 DEF Parsed
<1>5. dns.jumps \in Nat /\ dns.octets \in Nat BY <1>3, <1>4
<1>6. /\ dns.cur \in Nat /\ dns.at \in Nat /\ dns.ceiling \in Int /\ dns.items \in Seq(Items)
      /\ dns.name \in Bytes /\ dns.start \in Nat
  BY <1>2 DEF Parsed
<1> QED BY <1>1, <1>2, <1>3, <1>5, <1>6 DEF Spans, InMessage

(* parseName goes on with locals that stay within the message.             *)
LEMMA NameOn ==
    ASSUME Spans, NEW d \in Parsed, dns' = d, pc' \in {"name", "fixed"},
           base <= d.cur, d.cur <= end, base <= d.at, d.at <= end, d.ceiling <= end - base,
           UNCHANGED <<flow, arrived, pos, base, end, app>>
    PROVE  Spans' /\ InMessage' /\ UNCHANGED <<base, end>>
BY DEF Spans, InMessage

(* The root is read where it was found.                                    *)
LEMMA NameEndBounds == BInv /\ NameEnd => BInv'
<1> SUFFICES ASSUME BInv, NameEnd PROVE BInv'
  OBVIOUS
<1> DEFINE d == [dns EXCEPT !.at = IF dns.jumps = 0 THEN dns.cur + 1 ELSE @]
<1>1. /\ pc = "name" /\ dns.cur < end /\ touched' = <<dns.cur, dns.cur + 1>>
      /\ dns' = d /\ pc' = "fixed" /\ UNCHANGED <<flow, arrived, pos, base, end, app>>
  BY DEF NameEnd
<1>2. Touches(dns.cur, dns.cur + 1) BY <1>1, Found DEF Touches
<1>3. d.at = (IF dns.jumps = 0 THEN dns.cur + 1 ELSE dns.at) /\ d.cur = dns.cur /\ d.ceiling = dns.ceiling
  BY Found DEF Parsed
<1>4. base <= d.cur /\ d.cur <= end /\ base <= d.at /\ d.at <= end /\ d.ceiling <= end - base /\ d.at \in Nat
  <2>1. /\ base \in Nat /\ end \in Nat /\ dns.cur \in Nat /\ dns.at \in Nat
        /\ base <= dns.cur /\ base <= dns.at /\ dns.at <= end /\ dns.ceiling <= end - base
    BY <1>1, Found
  <2>2. /\ dns.cur + 1 \in Nat /\ base <= dns.cur + 1 /\ dns.cur + 1 <= end /\ dns.cur <= end
    BY <1>1, <2>1
  <2> HIDE DEF d
  <2> QED BY <1>3, <2>1, <2>2
<1>5. d \in Parsed BY Found, <1>3, <1>4 DEF Parsed
<1> HIDE DEF d
<1>6. Spans' /\ InMessage' /\ UNCHANGED <<base, end>> BY <1>1, <1>4, <1>5, Found, NameOn
<1> QED BY <1>2, <1>6, StepBounds

(* A pointer leads to before the name, or to before the last pointer's     *)
(* target: within the message either way.                                  *)
LEMMA NamePointerBounds == BInv /\ NamePointer => BInv'
<1> SUFFICES ASSUME BInv, NamePointer PROVE BInv'
  OBVIOUS
<1> DEFINE target == Target(dns.cur)
           cut == dns.cur + 1 >= end
           b == dns.cur + (IF cut THEN 1 ELSE 2)
           d == [dns EXCEPT !.jumps = @ + 1, !.at = IF dns.jumps = 0 THEN dns.cur + 2 ELSE @,
                            !.ceiling = target, !.cur = base + target]
<1>1. pc = "name" /\ dns.cur < end /\ Byte(dns.cur) >= 192 /\ touched' = <<dns.cur, b>>
  BY DEF NamePointer
<1>2. Touches(dns.cur, b) BY <1>1, Found DEF Touches
<1>3. CASE Fail
  <2>1. Spans' /\ InMessage' /\ UNCHANGED <<base, end>> BY <1>3, Found, FailSpans
  <2> HIDE DEF b
  <2> QED BY <1>2, <2>1, StepBounds
<1>4. CASE ~Fail
  <2>1. ~cut /\ PointerAllowed(target) /\ NameGoesOn(d) BY <1>4 DEF NamePointer
  <2>2. target \in Nat
    <3>1. dns.cur \in Nat /\ dns.cur + 1 \in Nat BY Found
    <3>2. Byte(dns.cur) \in 0 .. 255 /\ Byte(dns.cur + 1) \in 0 .. 255 BY <3>1, Found, ByteType
    <3>3. \A x, y \in 0 .. 255 : x >= 192 => (x - 192) * 256 + y \in Nat OBVIOUS
    <3> QED BY <1>1, <3>2, <3>3 DEF Target
  <2> HIDE DEF target
  <2>3. dns.jumps + 1 <= MaxDnsCompressionJumps /\ target < end - base
    <3>1. /\ dns.jumps + 1 <= MaxDnsCompressionJumps
          /\ target < (IF dns.jumps = 0 THEN dns.cur - base ELSE dns.ceiling)
      BY <2>1 DEF PointerAllowed
    <3>2. /\ base \in Nat /\ end \in Nat /\ dns.cur \in Nat /\ dns.ceiling \in Int
          /\ dns.ceiling <= end - base
      BY <1>1, Found
    <3>3. dns.cur - base <= end - base BY <1>1, <3>2
    <3>4. CASE dns.jumps = 0
      <4>1. target < dns.cur - base BY <3>1, <3>4
      <4> HIDE DEF d, b, cut
      <4> QED BY <2>2, <3>1, <3>2, <3>3, <4>1
    <3>5. CASE dns.jumps # 0
      <4>1. target < dns.ceiling BY <3>1, <3>5
      <4> HIDE DEF d, b, cut
      <4> QED BY <2>2, <3>1, <3>2, <4>1
    <3> QED BY <3>4, <3>5
  <2>4. /\ d.jumps = dns.jumps + 1 /\ d.ceiling = target /\ d.cur = base + target
        /\ d.at = (IF dns.jumps = 0 THEN dns.cur + 2 ELSE dns.at)
    BY Found DEF Parsed
  <2>5. /\ base <= d.cur /\ d.cur <= end /\ base <= d.at /\ d.at <= end /\ d.ceiling <= end - base
        /\ d.at \in Nat /\ d.cur \in Nat /\ d.ceiling \in Int
        /\ d.jumps \in 0 .. MaxDnsCompressionJumps
    <3>1. dns.cur + 1 < end BY <1>1, <2>1, Found
    <3>2. /\ base \in Nat /\ end \in Nat /\ dns.cur \in Nat /\ dns.at \in Nat /\ dns.jumps \in Nat
          /\ base <= dns.cur /\ base <= dns.at /\ dns.at <= end /\ MaxDnsCompressionJumps \in Nat
      BY <1>1, Found
    <3>3. dns.jumps + 1 \in 0 .. MaxDnsCompressionJumps BY <2>3, <3>2
    <3>4. base + target \in Nat /\ base <= base + target /\ base + target <= end /\ target <= end - base
      BY <2>2, <2>3, <3>2
    <3>5. dns.cur + 2 \in Nat /\ base <= dns.cur + 2 /\ dns.cur + 2 <= end BY <3>1, <3>2
    <3>6. target \in Int BY <2>2
    <3> HIDE DEF d
    <3> QED BY <2>4, <3>2, <3>3, <3>4, <3>5, <3>6
  <2>6. d \in Parsed BY Found, <2>4, <2>5 DEF Parsed
  <2>7. dns' = d /\ pc' = "name" /\ UNCHANGED <<flow, arrived, pos, base, end, app>>
    BY <1>1, <2>1 DEF NameGoesOn
  <2> HIDE DEF d, b
  <2>8. Spans' /\ InMessage' /\ UNCHANGED <<base, end>> BY <2>5, <2>6, <2>7, Found, NameOn
  <2> QED BY <1>2, <2>8, StepBounds
<1> QED BY <1>3, <1>4

(* A label is copied when all of it lies before the end.                   *)
LEMMA NameLabelBounds == BInv /\ NameLabel => BInv'
<1> SUFFICES ASSUME BInv, NameLabel PROVE BInv'
  OBVIOUS
<1> DEFINE len == Byte(dns.cur)
           fits == LabelFits(len) /\ dns.octets + len + 1 <= MaxDnsNameOctets
           dot == IF dns.name = <<>> THEN <<>> ELSE <<DOT>>
           b == dns.cur + 1 + (IF fits THEN len ELSE 0)
           text == dns.name \o dot \o Slice(dns.cur + 1, len)
           d == [dns EXCEPT !.octets = @ + len + 1,
                            !.name = @ \o dot \o Slice(dns.cur + 1, len), !.cur = @ + 1 + len]
<1>1. pc = "name" /\ dns.cur < end /\ len \in 1 .. 63 /\ touched' = <<dns.cur, b>>
  BY DEF NameLabel
<1>2. len \in Nat BY <1>1
<1>3. Touches(dns.cur, b)
  <2>1. fits => dns.cur + 1 + len <= end BY DEF LabelFits
  <2> HIDE DEF len, fits
  <2> QED BY <1>1, <1>2, <2>1, Found DEF Touches
<1>4. CASE Fail
  <2>1. Spans' /\ InMessage' /\ UNCHANGED <<base, end>> BY <1>4, Found, FailSpans
  <2> HIDE DEF b
  <2> QED BY <1>3, <2>1, StepBounds
<1>5. CASE ~Fail
  <2>1. fits /\ NameGoesOn(d) BY <1>5 DEF NameLabel
  <2>2. dns.cur + 1 + len <= end /\ dns.octets + len + 1 <= MaxDnsNameOctets
    BY <2>1 DEF LabelFits
  <2>3. text \in Bytes
    <3>1. dot \in Bytes BY DEF Bytes, DOT
    <3>2. dns.cur + 1 \in Nat BY Found
    <3>3. Slice(dns.cur + 1, len) \in Bytes BY <1>2, <3>2, Found, SliceBytes
    <3> HIDE DEF dot, len
    <3> QED BY <3>1, <3>3, Found, ConcatProperties DEF Bytes
  <2> HIDE DEF len, dot
  <2>4. /\ d.octets = dns.octets + len + 1 /\ d.name = text /\ d.cur = dns.cur + 1 + len
        /\ d.at = dns.at /\ d.ceiling = dns.ceiling
    BY Found DEF Parsed
  <2>5. /\ base <= d.cur /\ d.cur <= end /\ base <= d.at /\ d.at <= end /\ d.ceiling <= end - base
        /\ d.cur \in Nat /\ d.octets \in 0 .. MaxDnsNameOctets
    <3>1. /\ base \in Nat /\ end \in Nat /\ dns.cur \in Nat /\ dns.octets \in Nat
          /\ base <= dns.cur /\ base <= dns.at /\ dns.at <= end /\ dns.ceiling <= end - base
          /\ MaxDnsNameOctets \in Nat
      BY <1>1, Found
    <3>2. dns.cur + 1 + len \in Nat /\ base <= dns.cur + 1 + len BY <1>2, <3>1
    <3>3. dns.octets + len + 1 \in 0 .. MaxDnsNameOctets BY <1>2, <2>2, <3>1
    <3> HIDE DEF d
    <3> QED BY <2>2, <2>4, <3>1, <3>2, <3>3
  <2>6. d \in Parsed
    <3>1. dns.cur + 1 + len \in Nat /\ dns.octets + len + 1 \in 0 .. MaxDnsNameOctets
      BY <2>4, <2>5
    <3> HIDE DEF text
    <3> QED BY Found, <2>3, <3>1 DEF Parsed, text
  <2>7. dns' = d /\ pc' = "name" /\ UNCHANGED <<flow, arrived, pos, base, end, app>>
    BY <1>1, <2>1 DEF NameGoesOn
  <2> HIDE DEF d, b
  <2>8. Spans' /\ InMessage' /\ UNCHANGED <<base, end>> BY <2>5, <2>6, <2>7, Found, NameOn
  <2> QED BY <1>3, <2>8, StepBounds
<1> QED BY <1>4, <1>5

(* A name that is refused cost one byte at most.                           *)
LEMMA NameRefusedBounds == BInv /\ NameRefused => BInv'
<1> SUFFICES ASSUME BInv, NameRefused PROVE BInv'
  OBVIOUS
<1> DEFINE b == IF dns.cur < end THEN dns.cur + 1 ELSE dns.cur
<1>1. pc = "name" /\ touched' = <<dns.cur, b>> /\ Fail BY DEF NameRefused
<1>2. Touches(dns.cur, b) BY <1>1, Found DEF Touches
<1>3. Spans' /\ InMessage' /\ UNCHANGED <<base, end>> BY <1>1, Found, FailSpans
<1> HIDE DEF b
<1> QED BY <1>2, <1>3, StepBounds

(* The list a question or a record goes to.                                *)
LEMMA SectionType == \A k : Section(k) \in Sections
BY DEF Section, Sections

(* A question's or a record's entry.                                       *)
LEMMA ItemType ==
    ASSUME BInv, NEW section \in Sections, NEW rdata \in Bytes
    PROVE  Item(section, rdata) \in Items
<1>1. dns.at \in Nat /\ dns.name \in Bytes /\ Spans BY Found
<1>2. Byte(dns.at) \in 0 .. 255 BY <1>1, ByteType
<1>3. Byte(dns.at) \in Nat BY <1>2
<1> QED BY <1>1, <1>3 DEF Item, Items

(* parseQuestion's fixed part is read when it is there.                    *)
LEMMA QuestionBounds == BInv /\ Question => BInv'
<1> SUFFICES ASSUME BInv, Question PROVE BInv'
  OBVIOUS
<1> DEFINE fits == end - dns.at >= QUESTION_HEADER_LEN
           b == dns.at + (IF fits THEN QUESTION_HEADER_LEN ELSE 0)
           to == dns.at + QUESTION_HEADER_LEN
           e == Item("questions", <<>>)
           items == Append(dns.items, e)
<1>1. pc = "fixed" /\ touched' = <<dns.at, b>> /\ QUESTION_HEADER_LEN \in Nat
  BY DnsAssumption DEF Question
<1>2. /\ base \in Nat /\ end \in Nat /\ dns.at \in Nat /\ base <= dns.at /\ dns.at <= end
  BY <1>1, Found
<1>3. Touches(dns.at, b) BY <1>1, <1>2 DEF Touches
<1> HIDE DEF b
<1>4. CASE Fail
  <2>1. Spans' /\ InMessage' /\ UNCHANGED <<base, end>> BY <1>4, Found, FailSpans
  <2> QED BY <1>3, <2>1, StepBounds
<1>5. CASE ~Fail
  <2>1. fits /\ NextItem(to, items) BY <1>5 DEF Question
  <2>2. to \in Nat /\ base <= to /\ to <= end BY <1>1, <1>2, <2>1
  <2>3. items \in Seq(Items)
    <3>1. <<>> \in Bytes /\ "questions" \in Sections BY DEF Bytes, Sections
    <3>2. e \in Items BY <3>1, ItemType
    <3> HIDE DEF e
    <3> QED BY <3>2, Found, AppendProperties
  <2> HIDE DEF to, items
  <2>4. Spans' /\ InMessage' /\ UNCHANGED <<base, end>> BY <2>1, <2>2, <2>3, Found, NextItemSpans
  <2> QED BY <1>3, <2>4, StepBounds
<1> QED BY <1>4, <1>5

(* parseResourceRecord reads the fixed part, and then rdata, when each is  *)
(* there, whatever rdlength says.                                          *)
LEMMA ResourceRecordBounds == BInv /\ ResourceRecord => BInv'
<1> SUFFICES ASSUME BInv, ResourceRecord PROVE BInv'
  OBVIOUS
<1> DEFINE section == Section(Len(dns.items) + 1)
           data == dns.at + RESOURCE_HEADER_LEN
           fits == data <= end
           rdlength == Byte(data - 1)
           whole == fits /\ end - data >= rdlength
           to == data + rdlength
           b == IF whole THEN to ELSE IF fits THEN data ELSE dns.at
           rdata == Slice(data, rdlength)
           e == Item(section, rdata)
           items == Append(dns.items, e)
<1>1. pc = "fixed" /\ touched' = <<dns.at, b>> BY DEF ResourceRecord
<1>2. /\ base \in Nat /\ end \in Nat /\ dns.at \in Nat /\ base <= dns.at /\ dns.at <= end
  BY <1>1, Found
<1>3. RESOURCE_HEADER_LEN \in Nat /\ RESOURCE_HEADER_LEN >= 2 BY DnsAssumption
<1>4. data \in Nat /\ data - 1 \in Nat /\ dns.at <= data BY <1>2, <1>3
<1>5. rdlength \in Nat
  <2>1. rdlength \in 0 .. 255
    <3> HIDE DEF data
    <3> QED BY <1>4, Found, ByteType
  <2> HIDE DEF rdlength
  <2> QED BY <2>1
<1>6. CASE ~Fail
  <2>1. whole /\ NextItem(to, items) BY <1>6 DEF ResourceRecord
  <2>2. to \in Nat /\ base <= to /\ to <= end
    <3> HIDE DEF rdlength, data
    <3> QED BY <1>2, <1>4, <1>5, <2>1
  <2>3. items \in Seq(Items)
    <3>1. rdata \in Bytes
      <4> HIDE DEF data, rdlength
      <4> QED BY <1>4, <1>5, Found, SliceBytes
    <3>2. section \in Sections BY SectionType
    <3>3. e \in Items
      <4> HIDE DEF section, rdata
      <4> QED BY <3>1, <3>2, ItemType
    <3> HIDE DEF e
    <3> QED BY <3>3, Found, AppendProperties
  <2>4. Touches(dns.at, to)
    <3>1. touched' = <<dns.at, to>> BY <1>1, <2>1
    <3> HIDE DEF to
    <3> QED BY <1>2, <2>2, <3>1 DEF Touches
  <2> HIDE DEF to, items
  <2>5. Spans' /\ InMessage' /\ UNCHANGED <<base, end>> BY <2>1, <2>2, <2>3, Found, NextItemSpans
  <2> QED BY <2>4, <2>5, StepBounds
<1>7. CASE Fail
  <2>1. Spans' /\ InMessage' /\ UNCHANGED <<base, end>> BY <1>7, Found, FailSpans
  <2>2. b \in Int /\ b <= end
    <3> HIDE DEF data, rdlength
    <3> QED BY <1>2, <1>4, <1>5
  <2> HIDE DEF b
  <2>3. Touches(dns.at, b) BY <1>1, <1>2, <2>2 DEF Touches
  <2> QED BY <2>1, <2>3, StepBounds
<1> QED BY <1>6, <1>7

(* Datagrams, segments and the length in front of a message: nothing is    *)
(* parsed, and the message lies in what has arrived.                       *)
LEMMA FlowBounds == BInv /\ (Datagram \/ Segment \/ Frame) => BInv'
<1> SUFFICES ASSUME BInv, Datagram \/ Segment \/ Frame PROVE BInv'
  OBVIOUS
<1>0. Spans BY DEF BInv
<1>1. Touches(0, 0) BY DEF Touches, Datagram, Segment, Frame, Nothing
<1>2. touched' \in Int \X Int /\ ReadsInBounds' BY <1>1 DEF Touches, ReadsInBounds
<1>3. flow \in Flows /\ flow.bytes \in Seq(0 .. 255) /\ Len(flow.bytes) \in Nat
  BY <1>0, FlowsAssumption, LenProperties DEF Spans
<1>4. CASE Datagram
  <2>1. PICK m \in Range(flow.msgs) :
           m.from = arrived /\ m.to > m.from /\ arrived' = m.to /\ base' = m.from /\ end' = m.to
    BY <1>4 DEF Datagram
  <2>2. pc' = "header" /\ UNCHANGED <<flow, pos, dns, app>> BY <1>4 DEF Datagram
  <2>3. m.from \in Nat /\ m.to \in Nat /\ m.to <= Len(flow.bytes) BY <1>3, MsgsType
  <2>4. Spans' BY <1>0, <1>3, <2>1, <2>2, <2>3 DEF Spans
  <2> QED BY <1>2, <2>2, <2>4 DEF BInv, InMessage
<1>5. CASE Segment
  <2>1. /\ arrived' \in arrived + 1 .. Len(flow.bytes) /\ pc' = "frame"
        /\ UNCHANGED <<flow, pos, base, end, dns, app>>
    BY <1>5 DEF Segment
  <2>2. Spans' BY <1>0, <1>3, <2>1 DEF Spans
  <2> QED BY <1>2, <2>1, <2>2 DEF BInv, InMessage
<1>6. CASE Frame
  <2> DEFINE n == Byte(pos) * 256 + Byte(pos + 1)
             there == arrived - pos >= PREFIX /\ arrived - pos >= PREFIX + n
  <2>1. /\ pc' = IF there THEN "header" ELSE "idle"
        /\ base' = IF there THEN pos + PREFIX ELSE base
        /\ end' = IF there THEN pos + PREFIX + n ELSE end
        /\ UNCHANGED <<flow, arrived, pos, dns, app>>
    BY <1>6 DEF Frame
  <2>2. n \in Nat
    <3>1. pos \in Nat /\ pos + 1 \in Nat BY <1>0 DEF Spans
    <3>2. Byte(pos) \in 0 .. 255 /\ Byte(pos + 1) \in 0 .. 255 BY <1>0, <3>1, ByteType
    <3>3. \A x, y \in 0 .. 255 : x * 256 + y \in Nat OBVIOUS
    <3> QED BY <3>2, <3>3
  <2> HIDE DEF n
  <2>3. Spans' BY <1>0, <2>1, <2>2 DEF Spans, PREFIX
  <2> QED BY <1>2, <2>1, <2>3 DEF BInv, InMessage
<1> QED BY <1>4, <1>5, <1>6

-----------------------------------------------------------------------------
(* The bounds hold throughout                                              *)

(* They hold at the start.                                                 *)
LEMMA InitBounds == Init => BInv
<1> SUFFICES ASSUME Init PROVE BInv
  OBVIOUS
<1>1. app \in Apps BY DEF Init, Apps
<1>2. dns \in Parsed BY NotParsingType DEF Init
<1>3. Len(flow.bytes) \in Nat BY MsgsType DEF Init
<1>4. Spans BY <1>1, <1>2, <1>3 DEF Init, Spans
<1> QED BY <1>4 DEF Init, BInv, InMessage, ReadsInBounds, Nothing

(* And after every step.                                                   *)
LEMMA NextBounds == BInv /\ [Next]_vars => BInv'
<1>1. BInv /\ UNCHANGED vars => BInv'
  BY DEF vars, BInv, Spans, InMessage, ReadsInBounds
<1> QED BY <1>1, ParseHeaderBounds, NameEndBounds, NamePointerBounds, NameLabelBounds,
           NameRefusedBounds, QuestionBounds, ResourceRecordBounds, FlowBounds DEF Next, Parse

(* Always.                                                                 *)
LEMMA AlwaysBounds == Spec => []BInv
BY InitBounds, NextBounds, PTL DEF Spec

-----------------------------------------------------------------------------
(* Framing                                                                 *)

(* The messages of f that end by p.                                        *)
Handled(f, p) == {m \in Range(f.msgs) : m.from < m.to /\ m.to <= p}

(* The messages that were counted, decoded or not.                         *)
Total(a) == Len(a.dns_messages) + a.decode_failures

(* The stream is consumed up to a message's end, and every message before  *)
(* it is counted.                                                          *)
Counted == /\ pos \in {0} \cup {m.to : m \in Handled(flow, pos)}
           /\ Total(app) = Cardinality(Handled(flow, pos))

(* The message being parsed is the next one of the flow.                   *)
Whole == Parsing => \E m \in Range(flow.msgs) : m.from = pos /\ m.to = end /\ m.from < m.to

(* A datagram is a message by itself.                                      *)
ByDatagram == ~flow.tcp => /\ pc # "frame"
                           /\ pc = "idle" => pos = arrived
                           /\ Parsing => end = arrived

(* Between polls no whole message waits.                                   *)
NoneWaits == pc = "idle" => \A m \in Range(flow.msgs) : m.to <= arrived => m.to <= pos

FInv == Counted /\ Whole /\ ByDatagram /\ NoneWaits

(* A step of parse goes on in the message or leaves it with one more       *)
(* message or failure counted.                                             *)
GoesOn == /\ pc' \in {"name", "fixed"}
          /\ UNCHANGED <<flow, arrived, pos, base, end, app>>
Leaves == /\ pc' = IF flow.tcp THEN "frame" ELSE "idle"
          /\ pos' = end /\ Total(app') = Total(app) + 1
          /\ UNCHANGED <<flow, arrived, base, end>>

(* A message that fails is counted.                                        *)
LEMMA FailLeaves == ASSUME Spans, Fail PROVE Leaves
<1>1. app \in Apps BY DEF Spans
<1>2. app' = [app EXCEPT !.decode_failures = @ + 1] BY DEF Fail, Leave
<1>3. app'.decode_failures = app.decode_failures + 1 /\ app'.dns_messages = app.dns_messages
  BY <1>1, <1>2 DEF Apps
<1>4. Len(app.dns_messages) \in Nat /\ app.decode_failures \in Nat BY <1>1, LenProperties DEF Apps
<1>5. Total(app') = Total(app) + 1 BY <1>3, <1>4 DEF Total
<1> QED BY <1>5 DEF Fail, Leave, Leaves

(* A message that is whole is counted.                                     *)
LEMMA NextItemOutcome ==
    ASSUME Spans, NEW at, NEW items \in Seq(Items), NextItem(at, items)
    PROVE  GoesOn \/ Leaves
<1> DEFINE m == [response |-> Header.response, items |-> items, base |-> base]
<1>1. CASE Len(items) = Count
  <2>1. /\ app' = [app EXCEPT !.dns_messages = Append(@, m)] /\ pos' = end
        /\ pc' = (IF flow.tcp THEN "frame" ELSE "idle")
        /\ UNCHANGED <<flow, arrived, base, end>>
    BY <1>1 DEF NextItem, Leave
  <2>2. m \in Messages BY HeaderType DEF Messages, Spans
  <2> HIDE DEF m
  <2>3. app \in Apps /\ app.dns_messages \in Seq(Messages) /\ app.decode_failures \in Nat
    BY DEF Spans, Apps
  <2>4. app'.dns_messages = Append(app.dns_messages, m) /\ app'.decode_failures = app.decode_failures
    BY <2>1, <2>3 DEF Apps
  <2>5. Len(app'.dns_messages) = Len(app.dns_messages) + 1 /\ Len(app.dns_messages) \in Nat
    BY <2>2, <2>3, <2>4, AppendProperties, LenProperties
  <2>6. Total(app') = (Len(app.dns_messages) + 1) + app.decode_failures BY <2>4, <2>5 DEF Total
  <2>7. \A x, y \in Nat : (x + 1) + y = (x + y) + 1 OBVIOUS
  <2>8. Total(app') = Total(app) + 1 BY <2>3, <2>5, <2>6, <2>7 DEF Total
  <2> QED BY <2>1, <2>8 DEF Leaves
<1>2. CASE Len(items) # Count
  BY <1>2 DEF NextItem, GoesOn
<1> QED BY <1>1, <1>2

(* A step of parse fails, reads on, or goes to the next name with one more *)
(* question or record.                                                     *)
LEMMA ParseStep ==
    ASSUME BInv, Parse
    PROVE  /\ Parsing
           /\ \/ Fail
              \/ GoesOn /\ UNCHANGED domains
              \/ \E at : \E items \in Seq(Items) : NextItem(at, items)
<1>0. Spans /\ dns.items \in Seq(Items) BY Found
<1>1. CASE ParseHeader
  <2>1. Parsing BY <1>1 DEF ParseHeader, Parsing
  <2>2. Fail \/ NextItem(base + HEADER_LEN, <<>>) BY <1>1 DEF ParseHeader
  <2>3. <<>> \in Seq(Items) OBVIOUS
  <2> QED BY <2>1, <2>2, <2>3
<1>2. CASE NameEnd BY <1>2 DEF NameEnd, Parsing, GoesOn
<1>3. CASE NamePointer
  <2>1. Parsing BY <1>3 DEF NamePointer, Parsing
  <2>2. Fail \/ (GoesOn /\ UNCHANGED domains) BY <1>3 DEF NamePointer, NameGoesOn, GoesOn
  <2> QED BY <2>1, <2>2
<1>4. CASE NameLabel
  <2>1. Parsing BY <1>4 DEF NameLabel, Parsing
  <2>2. Fail \/ (GoesOn /\ UNCHANGED domains) BY <1>4 DEF NameLabel, NameGoesOn, GoesOn
  <2> QED BY <2>1, <2>2
<1>5. CASE NameRefused
  BY <1>5 DEF NameRefused, Parsing
<1>6. CASE Question
  <2> DEFINE e == Item("questions", <<>>)
             items == Append(dns.items, e)
  <2>1. Parsing BY <1>6 DEF Question, Parsing
  <2>2. Fail \/ NextItem(dns.at + QUESTION_HEADER_LEN, items) BY <1>6 DEF Question
  <2>3. e \in Items
    <3>1. <<>> \in Bytes /\ "questions" \in Sections BY DEF Bytes, Sections
    <3> QED BY <3>1, ItemType
  <2> HIDE DEF e
  <2>4. items \in Seq(Items) BY <1>0, <2>3, AppendProperties
  <2> HIDE DEF items
  <2> QED BY <2>1, <2>2, <2>4
<1>7. CASE ResourceRecord
  <2> DEFINE section == Section(Len(dns.items) + 1)
             data == dns.at + RESOURCE_HEADER_LEN
             rdlength == Byte(data - 1)
             rdata == Slice(data, rdlength)
             e == Item(section, rdata)
             items == Append(dns.items, e)
  <2>1. Parsing BY <1>7 DEF ResourceRecord, Parsing
  <2>2. Fail \/ NextItem(data + rdlength, items) BY <1>7 DEF ResourceRecord
  <2>3. data \in Nat /\ data - 1 \in Nat
    <3>1. dns.at \in Nat BY Found
    <3>2. RESOURCE_HEADER_LEN \in Nat /\ RESOURCE_HEADER_LEN > 0 BY DnsAssumption
    <3> QED BY <3>1, <3>2
  <2>4. rdlength \in Nat
    <3> HIDE DEF data
    <3>1. rdlength \in 0 .. 255 BY <1>0, <2>3, ByteType
    <3> HIDE DEF rdlength
    <3> QED BY <3>1
  <2>5. rdata \in Bytes
    <3> HIDE DEF data, rdlength
    <3> QED BY <1>0, <2>3, <2>4, SliceBytes
  <2>6. e \in Items
    <3>1. section \in Sections BY SectionType
    <3> HIDE DEF section, rdata
    <3> QED BY <2>5, <3>1, ItemType
  <2> HIDE DEF e
  <2>7. items \in Seq(Items) BY <1>0, <2>6, AppendProperties
  <2> HIDE DEF items, data, rdlength
  <2> QED BY <2>1, <2>2, <2>7
<1> QED BY <1>1, <1>2, <1>3, <1>4, <1>5, <1>6, <1>7 DEF Parse

(* Either way the message goes on or is counted.                           *)
LEMMA ParseOutcome == ASSUME BInv, Parse PROVE Parsing /\ (GoesOn \/ Leaves)
<1>1. Spans BY Found
<1> QED BY <1>1, ParseStep, FailLeaves, NextItemOutcome

(* Consuming the message at p counts one more.                             *)
LEMMA OneMore ==
    ASSUME NEW f \in Flows, NEW p \in Nat, NEW e \in Nat, p < e,
           NEW m \in Range(f.msgs), m.from = p, m.to = e
    PROVE  /\ Cardinality(Handled(f, e)) = Cardinality(Handled(f, p)) + 1
           /\ e \in {x.to : x \in Handled(f, e)}
<1> DEFINE R == Range(f.msgs)
           H == Handled(f, p)
<1>1. IsFiniteSet(R) /\ \A x \in R : x.from \in Nat /\ x.to \in Nat BY MsgsType
<1>2. \A x, y \in R : x.from < x.to /\ y.from < y.to => x = y \/ x.to <= y.from \/ y.to <= x.from
  BY FlowsAssumption DEF LaidOut
<1>3. m \in Handled(f, e) BY DEF Handled
<1>4. m \notin H BY DEF Handled
<1>5. Handled(f, e) = H \cup {m}
  <2>1. ASSUME NEW x \in Handled(f, e) PROVE x \in H \cup {m}
    <3>1. x \in R /\ x.from < x.to /\ x.to <= e BY <2>1 DEF Handled
    <3>2. x = m \/ x.to <= p \/ e <= x.from BY <1>2, <3>1
    <3>3. x.from \in Nat /\ x.to \in Nat BY <1>1, <3>1
    <3>4. ~(e <= x.from) BY <3>1, <3>3
    <3> QED BY <3>1, <3>2, <3>4 DEF Handled
  <2>2. ASSUME NEW x \in H PROVE x \in Handled(f, e)
    <3>1. x \in R /\ x.from < x.to /\ x.to <= p BY <2>2 DEF Handled
    <3>2. x.to \in Nat BY <1>1, <3>1
    <3>3. x.to <= e BY <3>1, <3>2
    <3> QED BY <3>1, <3>3 DEF Handled
  <2> QED BY <1>3, <2>1, <2>2
<1>6. IsFiniteSet(H)
  <2>1. H \in SUBSET R BY DEF Handled
  <2> HIDE DEF H, R
  <2> QED BY <1>1, <2>1, FS_Subset
<1> HIDE DEF H
<1>7. Cardinality(H \cup {m}) = Cardinality(H) + 1 BY <1>4, <1>6, FS_AddElement
<1> QED BY <1>3, <1>5, <1>7 DEF H

(* A step of parse keeps the framing.                                      *)
LEMMA ParseFraming == BInv /\ FInv /\ Parse => FInv'
<1> SUFFICES ASSUME BInv, FInv, Parse PROVE FInv'
  OBVIOUS
<1>0. Spans /\ flow \in Flows /\ pos \in Nat /\ end \in Nat /\ arrived \in Nat /\ end <= arrived
  BY DEF BInv, Spans
<1>1. Parsing /\ (GoesOn \/ Leaves) BY ParseOutcome
<1>2. PICK m \in Range(flow.msgs) : m.from = pos /\ m.to = end /\ m.from < m.to
  BY <1>1 DEF FInv, Whole
<1>3. CASE GoesOn
  <2>1. /\ UNCHANGED <<flow, arrived, pos, base, end, app>> /\ pc' \in {"name", "fixed"}
    BY <1>3 DEF GoesOn
  <2>2. Parsing' BY <2>1 DEF Parsing
  <2> QED BY <1>1, <2>1, <2>2 DEF FInv, Counted, Whole, ByDatagram, NoneWaits
<1>4. CASE Leaves
  <2>1. /\ pc' = (IF flow.tcp THEN "frame" ELSE "idle") /\ pos' = end
        /\ Total(app') = Total(app) + 1 /\ UNCHANGED <<flow, arrived, base, end>>
    BY <1>4 DEF Leaves
  <2>2. ~Parsing' BY <2>1 DEF Parsing
  <2>3. /\ Cardinality(Handled(flow, end)) = Cardinality(Handled(flow, pos)) + 1
        /\ end \in {x.to : x \in Handled(flow, end)}
    BY <1>0, <1>2, OneMore
  <2>4. Counted' BY <2>1, <2>3 DEF FInv, Counted
  <2>5. ~flow.tcp => end = arrived BY <1>1 DEF FInv, ByDatagram
  <2>6. ByDatagram' BY <2>1, <2>2, <2>5 DEF ByDatagram
  <2>7. NoneWaits' BY <2>1, <2>5 DEF NoneWaits
  <2> QED BY <2>2, <2>4, <2>6, <2>7 DEF FInv, Whole
<1> QED BY <1>1, <1>3, <1>4

(* The message that starts where the stream was consumed to, over TCP.     *)
LEMMA NextMessage ==
    ASSUME BInv, FInv, flow.tcp, pos < Len(flow.bytes)
    PROVE  \E m \in Range(flow.msgs) :
              /\ m.from = pos /\ m.from < m.to
              /\ m.to = pos + PREFIX + (Byte(pos) * 256 + Byte(pos + 1))
<1>0. flow \in Flows /\ pos \in Nat BY DEF BInv, Spans
<1>1. Len(flow.bytes) \in Nat /\ \A m \in Range(flow.msgs) : m.to <= Len(flow.bytes) /\ m.to \in Nat
  BY <1>0, MsgsType
<1>2. pos \in {0} \cup {m.to : m \in Range(flow.msgs)} BY DEF FInv, Counted, Handled
<1>a. LaidOut(flow) BY <1>0, FlowsAssumption
<1>3. PICK m \in Range(flow.msgs) : m.from = pos /\ m.to > pos
  BY <1>a, <1>2 DEF LaidOut
<1>4. /\ pos + PREFIX <= m.to
      /\ m.to = pos + PREFIX + (flow.bytes[pos + 1] * 256 + flow.bytes[pos + 2])
  BY <1>a, <1>3 DEF LaidOut
<1>5. pos + 1 < Len(flow.bytes) BY <1>0, <1>1, <1>4 DEF PREFIX
<1>6. Byte(pos) = flow.bytes[pos + 1]
  <2>1. pos < Len(flow.bytes) BY <1>0, <1>1, <1>5
  <2> QED BY <2>1 DEF Byte
<1>7. Byte(pos + 1) = flow.bytes[pos + 2]
  <2>1. pos + 1 + 1 = pos + 2 BY <1>0
  <2> QED BY <1>5, <2>1 DEF Byte
<1>8. m.to = pos + PREFIX + (Byte(pos) * 256 + Byte(pos + 1)) BY <1>4, <1>6, <1>7
<1>9. m.from < m.to BY <1>0, <1>1, <1>3
<1> QED BY <1>3, <1>8, <1>9

(* pollDatagram takes the next datagram.                                   *)
LEMMA DatagramFraming == BInv /\ FInv /\ Datagram => FInv'
<1> SUFFICES ASSUME BInv, FInv, Datagram PROVE FInv'
  OBVIOUS
<1>1. PICK m \in Range(flow.msgs) :
         m.from = arrived /\ m.to > m.from /\ arrived' = m.to /\ base' = m.from /\ end' = m.to
  BY DEF Datagram
<1>2. pc = "idle" /\ ~flow.tcp /\ pc' = "header" /\ UNCHANGED <<flow, pos, app>> BY DEF Datagram
<1>3. pos = arrived BY <1>2 DEF FInv, ByDatagram
<1>4. m.from \in Nat /\ m.to \in Nat BY MsgsType DEF BInv, Spans
<1>5. m.from = pos' /\ m.to = end' /\ m.from < m.to BY <1>1, <1>2, <1>3, <1>4
<1>6. Whole' BY <1>2, <1>5 DEF Whole
<1>7. ByDatagram' /\ NoneWaits' BY <1>1, <1>2 DEF ByDatagram, NoneWaits
<1>8. Counted' BY <1>2 DEF FInv, Counted
<1> QED BY <1>6, <1>7, <1>8 DEF FInv

(* A segment brings more, and is polled before anything else happens.      *)
LEMMA SegmentFraming == FInv /\ Segment => FInv'
<1> SUFFICES ASSUME FInv, Segment PROVE FInv'
  OBVIOUS
<1>1. flow.tcp /\ pc' = "frame" /\ UNCHANGED <<flow, pos, app>> BY DEF Segment
<1>2. ~Parsing' BY <1>1 DEF Parsing
<1> QED BY <1>1, <1>2 DEF FInv, Counted, Whole, ByDatagram, NoneWaits

(* pollStream finds the next message, or all that is whole was taken.      *)
LEMMA FrameFraming == BInv /\ FInv /\ Frame => FInv'
<1> SUFFICES ASSUME BInv, FInv, Frame PROVE FInv'
  OBVIOUS
<1> DEFINE n == Byte(pos) * 256 + Byte(pos + 1)
           there == arrived - pos >= PREFIX /\ arrived - pos >= PREFIX + n
<1>1. /\ pc = "frame" /\ pc' = IF there THEN "header" ELSE "idle"
      /\ end' = IF there THEN pos + PREFIX + n ELSE end
      /\ UNCHANGED <<flow, arrived, pos, app>>
  BY DEF Frame
<1>2. flow.tcp BY <1>1 DEF FInv, ByDatagram
<1>3. /\ flow \in Flows /\ pos \in Nat /\ arrived \in Nat /\ pos <= arrived
      /\ arrived <= Len(flow.bytes)
  BY DEF BInv, Spans
<1>4. /\ Len(flow.bytes) \in Nat
      /\ \A m \in Range(flow.msgs) : m.from \in Nat /\ m.to \in Nat /\ m.to <= Len(flow.bytes)
  BY <1>3, MsgsType
<1>5. pos < Len(flow.bytes) =>
         \E m \in Range(flow.msgs) : m.from = pos /\ m.from < m.to /\ m.to = pos + PREFIX + n
  BY <1>2, NextMessage
<1>6. n \in Nat
  <2>1. pos + 1 \in Nat /\ Spans BY <1>3 DEF BInv
  <2>2. Byte(pos) \in 0 .. 255 /\ Byte(pos + 1) \in 0 .. 255 BY <1>3, <2>1, ByteType
  <2>3. \A x, y \in 0 .. 255 : x * 256 + y \in Nat OBVIOUS
  <2> QED BY <2>2, <2>3
<1> HIDE DEF n
<1>7. Counted' BY <1>1 DEF FInv, Counted
<1>8. ByDatagram' BY <1>1, <1>2 DEF ByDatagram
<1>9. CASE there
  <2>1. pos < Len(flow.bytes) BY <1>3, <1>4, <1>9 DEF PREFIX
  <2>2. Whole' BY <1>1, <1>5, <1>9, <2>1 DEF Whole
  <2>3. NoneWaits' BY <1>1, <1>9 DEF NoneWaits
  <2> QED BY <1>7, <1>8, <2>2, <2>3 DEF FInv
<1>10. CASE ~there
  <2>1. ~Parsing' BY <1>1, <1>10 DEF Parsing
  <2>2. ASSUME NEW m \in Range(flow.msgs), m.to <= arrived, pos < m.to PROVE FALSE
    <3>1. m.from \in Nat /\ m.to \in Nat BY <1>4
    <3>2. pos < Len(flow.bytes) BY <1>3, <1>4, <2>2
    <3>3. PICK k \in Range(flow.msgs) : k.from = pos /\ k.from < k.to /\ k.to = pos + PREFIX + n
      BY <1>5, <3>2
    <3>4. arrived < k.to /\ k.to \in Nat BY <1>3, <1>4, <1>6, <1>10, <3>3 DEF PREFIX
    <3>5. m.from + PREFIX <= m.to BY <1>2, <1>3, FlowsAssumption DEF LaidOut
    <3>6. m.from < m.to BY <3>1, <3>5 DEF PREFIX
    <3>7. m = k \/ m.to <= k.from \/ k.to <= m.from
      BY <1>3, <3>3, <3>6, FlowsAssumption DEF LaidOut
    <3>8. m # k BY <1>3, <2>2, <3>1, <3>4
    <3>9. ~(m.to <= k.from) BY <1>3, <2>2, <3>1, <3>3
    <3>10. ~(k.to <= m.from) BY <1>3, <2>2, <3>1, <3>4, <3>6
    <3> QED BY <3>7, <3>8, <3>9, <3>10
  <2>3. \A m \in Range(flow.msgs) : m.to <= arrived => m.to <= pos
    BY <1>3, <1>4, <2>2
  <2>4. NoneWaits' BY <1>1, <2>3 DEF NoneWaits
  <2> QED BY <1>7, <1>8, <2>1, <2>4 DEF FInv, Whole
<1> QED BY <1>9, <1>10

(* Nothing was handled at the start.                                       *)
LEMMA InitFraming == Init => FInv
<1> SUFFICES ASSUME Init PROVE FInv
  OBVIOUS
<1>1. pos = 0 /\ arrived = 0 /\ pc = "idle" /\ flow \in Flows BY DEF Init
<1>2. \A m \in Range(flow.msgs) : m.from \in Nat /\ m.to \in Nat BY <1>1, MsgsType
<1>3. Handled(flow, 0) = {} BY <1>2 DEF Handled
<1>4. Total(app) = 0 BY DEF Init, Total
<1>5. Counted BY <1>1, <1>3, <1>4, FS_EmptySet DEF Counted
<1> QED BY <1>1, <1>5 DEF FInv, Whole, ByDatagram, NoneWaits, Parsing

(* Always, with the bounds.                                                *)
LEMMA AlwaysFramed == Spec => [](BInv /\ FInv)
<1>1. Init => BInv /\ FInv BY InitBounds, InitFraming
<1>2. BInv /\ FInv /\ [Next]_vars => FInv'
  <2>1. FInv /\ UNCHANGED vars => FInv'
    BY DEF vars, FInv, Counted, Whole, ByDatagram, NoneWaits, Parsing
  <2> QED BY <2>1, ParseFraming, DatagramFraming, SegmentFraming, FrameFraming DEF Next
<1>3. BInv /\ FInv /\ [Next]_vars => (BInv /\ FInv)' BY <1>2, NextBounds
<1> QED BY <1>1, <1>3, PTL DEF Spec

-----------------------------------------------------------------------------
(* What a name means                                                       *)

(* A set of numbers that is not empty has a least one.                     *)
LEMMA LeastOf == ASSUME NEW T \in SUBSET Nat, T # {} PROVE \E t \in T : \A y \in T : t <= y
<1>1. PICK t \in T : \A y \in T : ~(<<y, t>> \in OpToRel(<, Nat))
  BY NatLessThanWellFounded, WFMin
<1>2. \A y \in T : ~(y < t) BY <1>1 DEF OpToRel
<1>3. \A y \in T : t <= y BY <1>2
<1> QED BY <1>3

(* Where Expansion is asked for a name: pointers left, and offset.         *)
Places(b, e) == (0 .. MaxDnsCompressionJumps) \X (b .. e + 64)

(* Each label and each pointer leaves less to read.                        *)
Weight(b, e, x) == x[1] * (e + 65 - b) + (e + 64 - x[2])

(* Expansion's body, with g for what the rest of the name means.           *)
Spells(b, e, g, x) ==
    LET n == x[1]
        p == x[2]
    IN  IF p >= e THEN Broken
        ELSE IF Byte(p) = 0 THEN <<>>
        ELSE IF Byte(p) >= 192
             THEN IF n > 0 /\ p + 1 < e /\ b + Target(p) < p
                  THEN g[<<n - 1, b + Target(p)>>] ELSE Broken
        ELSE IF Byte(p) < 64 /\ p + Byte(p) < e
             THEN Joined(Slice(p + 1, Byte(p)), g[<<n, p + 1 + Byte(p)>>])
        ELSE Broken

(* A pointer costs more than all the labels it can lead back over.         *)
LEMMA JumpWeight ==
    ASSUME NEW n \in Nat, NEW w \in Nat, n > 0, NEW r \in Nat, NEW s \in Nat, r < w
    PROVE  (n - 1) * w + r < n * w + s
<1>1. (n - 1) * w = n * w - w OBVIOUS
<1> DEFINE a == n * w
           c == (n - 1) * w
<1>2. a \in Nat /\ c = a - w BY <1>1
<1> HIDE DEF a, c
<1>3. c + r < a + s BY <1>2
<1> QED BY <1>3 DEF a, c

(* The rest of a name, after a label or a pointer, weighs less.            *)
LEMMA Smaller ==
    ASSUME Spans, NEW b \in Nat, NEW e \in Nat, b <= e, NEW x \in Places(b, e)
    PROVE  /\ x[1] \in Nat /\ x[1] <= MaxDnsCompressionJumps /\ x[2] \in Nat /\ b <= x[2]
           /\ Weight(b, e, x) \in Nat
           /\ Byte(x[2]) \in 0 .. 255
           /\ Byte(x[2]) >= 192 /\ x[1] > 0 /\ b + Target(x[2]) < x[2] =>
                 /\ <<x[1] - 1, b + Target(x[2])>> \in Places(b, e)
                 /\ Weight(b, e, <<x[1] - 1, b + Target(x[2])>>) < Weight(b, e, x)
           /\ x[2] + Byte(x[2]) < e /\ Byte(x[2]) < 64 =>
                 /\ <<x[1], x[2] + 1 + Byte(x[2])>> \in Places(b, e)
                 /\ Weight(b, e, <<x[1], x[2] + 1 + Byte(x[2])>>) < Weight(b, e, x)
<1> DEFINE n == x[1]
           p == x[2]
           w == e + 65 - b
           t == Target(p)
           c == Byte(p)
<1>1. n \in 0 .. MaxDnsCompressionJumps /\ p \in b .. e + 64 /\ MaxDnsCompressionJumps \in Nat
  BY DnsAssumption DEF Places
<1>2. n \in Nat /\ p \in Nat /\ n <= MaxDnsCompressionJumps /\ b <= p /\ p <= e + 64 BY <1>1
<1>3. w \in Nat BY <1>2
<1>4. c \in 0 .. 255
  <2> HIDE DEF p
  <2> QED BY <1>2, ByteType
<1>5. c >= 192 => t \in Nat
  <2> HIDE DEF p
  <2>1. p + 1 \in Nat BY <1>2
  <2>2. Byte(p + 1) \in 0 .. 255 BY <2>1, ByteType
  <2>3. \A u, v \in 0 .. 255 : u >= 192 => (u - 192) * 256 + v \in Nat OBVIOUS
  <2> QED BY <1>4, <2>2, <2>3 DEF Target
<1>6. n * w \in Nat
  <2> HIDE DEF n, w
  <2> QED BY <1>2, <1>3
<1>7. \A y : Weight(b, e, y) = y[1] * w + (e + 64 - y[2]) BY DEF Weight
<1>8. Weight(b, e, x) = n * w + (e + 64 - p) BY <1>7
<1>9. Weight(b, e, x) \in Nat
  <2> DEFINE a == n * w
  <2> HIDE DEF a, p
  <2> QED BY <1>2, <1>6, <1>8 DEF a
<1>10. ASSUME c >= 192, n > 0, b + t < p
       PROVE  /\ <<n - 1, b + t>> \in Places(b, e)
              /\ Weight(b, e, <<n - 1, b + t>>) < Weight(b, e, x)
  <2> HIDE DEF n, p, t, c
  <2>1. n - 1 \in 0 .. MaxDnsCompressionJumps /\ b + t \in b .. e + 64
    BY <1>1, <1>2, <1>5, <1>10
  <2>2. Weight(b, e, <<n - 1, b + t>>) = (n - 1) * w + (e + 64 - (b + t)) BY <1>7
  <2>3. e + 64 - (b + t) \in Nat /\ e + 64 - p \in Nat /\ e + 64 - (b + t) < w
    BY <1>2, <1>5, <1>10, <2>1
  <2> DEFINE r == e + 64 - (b + t)
             s == e + 64 - p
  <2> HIDE DEF r, s, w
  <2>4. (n - 1) * w + r < n * w + s BY <1>2, <1>3, <1>10, <2>3, JumpWeight DEF r, s
  <2> QED BY <1>8, <2>1, <2>2, <2>4 DEF Places, r, s
<1>11. ASSUME p + c < e, c < 64
       PROVE  /\ <<n, p + 1 + c>> \in Places(b, e)
              /\ Weight(b, e, <<n, p + 1 + c>>) < Weight(b, e, x)
  <2> DEFINE a == n * w
  <2> HIDE DEF n, p, c
  <2>1. p + 1 + c \in b .. e + 64 /\ p < p + 1 + c BY <1>2, <1>4, <1>11
  <2>2. Weight(b, e, <<n, p + 1 + c>>) = a + (e + 64 - (p + 1 + c)) BY <1>7
  <2>3. a \in Nat BY <1>6
  <2> HIDE DEF a
  <2>4. a + (e + 64 - (p + 1 + c)) < a + (e + 64 - p) BY <1>2, <1>4, <2>1, <2>3
  <2> QED BY <1>1, <1>8, <2>1, <2>2, <2>4 DEF Places, a
<1> QED BY <1>2, <1>4, <1>9, <1>10, <1>11

(* What a name means depends only on names that weigh less.                *)
LEMMA SameBelow ==
    ASSUME Spans, NEW b \in Nat, NEW e \in Nat, b <= e, NEW x \in Places(b, e), NEW g, NEW h,
           \A y \in Places(b, e) : Weight(b, e, y) < Weight(b, e, x) => g[y] = h[y]
    PROVE  Spells(b, e, g, x) = Spells(b, e, h, x)
<1> DEFINE y == <<x[1] - 1, b + Target(x[2])>>
           z == <<x[1], x[2] + 1 + Byte(x[2])>>
<1>1. Byte(x[2]) >= 192 /\ x[1] > 0 /\ b + Target(x[2]) < x[2] => g[y] = h[y] BY Smaller
<1>2. Byte(x[2]) < 64 /\ x[2] + Byte(x[2]) < e => g[z] = h[z] BY Smaller
<1> HIDE DEF y, z
<1> QED BY <1>1, <1>2, Zenon DEF Spells, y, z

(* g says what every name that weighs less than k means.                   *)
SpellsBelow(b, e, k, g) ==
    \A x \in Places(b, e) : Weight(b, e, x) < k => g[x] = Spells(b, e, g, x)

(* There is such a g for each k.                                           *)
LEMMA SpellingBelow ==
    ASSUME Spans, NEW b \in Nat, NEW e \in Nat, b <= e
    PROVE  \A k \in Nat : \E g : SpellsBelow(b, e, k, g)
<1> DEFINE T == {k \in Nat : ~\E g : SpellsBelow(b, e, k, g)}
<1>1. SUFFICES ASSUME T # {} PROVE FALSE
  BY Zenon
<1>2. PICK k \in T : \A y \in T : k <= y
  <2>1. T \in SUBSET Nat OBVIOUS
  <2> HIDE DEF T
  <2> QED BY <1>1, <2>1, LeastOf
<1>3. k \in Nat /\ ~\E g : SpellsBelow(b, e, k, g) OBVIOUS
<1>4. k # 0
  <2>1. SpellsBelow(b, e, 0, <<>>)
    <3>1. \A x \in Places(b, e) : Weight(b, e, x) \in Nat BY Smaller
    <3>2. \A x \in Places(b, e) : ~(Weight(b, e, x) < 0) BY <3>1
    <3> QED BY <3>2 DEF SpellsBelow
  <2> QED BY <1>3, <2>1
<1>5. k - 1 \in Nat /\ ~(k <= k - 1) BY <1>3, <1>4
<1>6. k - 1 \notin T BY <1>2, <1>5
<1>7. PICK g : SpellsBelow(b, e, k - 1, g) BY <1>5, <1>6
<1> DEFINE h == [x \in Places(b, e) |-> IF Weight(b, e, x) < k - 1 THEN g[x] ELSE Spells(b, e, g, x)]
<1>8. \A x \in Places(b, e) : Weight(b, e, x) < k - 1 => h[x] = g[x] OBVIOUS
<1>9. \A x \in Places(b, e) : h[x] = Spells(b, e, g, x) BY <1>7 DEF SpellsBelow
<1> HIDE DEF h
<1>10. ASSUME NEW x \in Places(b, e), Weight(b, e, x) < k PROVE h[x] = Spells(b, e, h, x)
  <2>1. Weight(b, e, x) \in Nat BY Smaller
  <2>2. ASSUME NEW y \in Places(b, e), Weight(b, e, y) < Weight(b, e, x) PROVE g[y] = h[y]
    <3>1. Weight(b, e, y) \in Nat BY Smaller
    <3>2. Weight(b, e, y) < k - 1 BY <1>3, <1>10, <2>1, <2>2, <3>1
    <3> QED BY <1>8, <3>2
  <2>3. Spells(b, e, g, x) = Spells(b, e, h, x) BY <2>2, SameBelow
  <2> QED BY <1>9, <2>3
<1>11. SpellsBelow(b, e, k, h) BY <1>10 DEF SpellsBelow
<1> QED BY <1>3, <1>11

(* And one for all names.                                                  *)
LEMMA SpellingExists ==
    ASSUME Spans, NEW b \in Nat, NEW e \in Nat, b <= e
    PROVE  \E g : g = [x \in Places(b, e) |-> Spells(b, e, g, x)]
<1> DEFINE w == e + 65 - b
           k == MaxDnsCompressionJumps * w + (e + 65)
<1>1. w \in Nat /\ MaxDnsCompressionJumps \in Nat BY DnsAssumption
<1>2. k \in Nat
  <2> HIDE DEF w
  <2>1. MaxDnsCompressionJumps * w \in Nat BY <1>1
  <2> QED BY <2>1
<1>3. ASSUME NEW x \in Places(b, e) PROVE Weight(b, e, x) < k
  <2>1. /\ x[1] \in Nat /\ x[1] <= MaxDnsCompressionJumps /\ x[2] \in Nat /\ b <= x[2]
    BY Smaller
  <2>2. Weight(b, e, x) = x[1] * w + (e + 64 - x[2]) BY DEF Weight
  <2> HIDE DEF w
  <2>3. \A i, j, l \in Nat : i <= j => i * l <= j * l /\ i * l \in Nat /\ j * l \in Nat
    <3> SUFFICES ASSUME NEW i \in Nat, NEW j \in Nat, NEW l \in Nat, i <= j
                 PROVE  i * l <= j * l /\ i * l \in Nat /\ j * l \in Nat
      OBVIOUS
    <3>1. j - i \in Nat OBVIOUS
    <3>2. (j - i) * l \in Nat BY <3>1
    <3>3. j * l = i * l + (j - i) * l OBVIOUS
    <3>4. i * l \in Nat /\ j * l \in Nat OBVIOUS
    <3> DEFINE A == j * l
               B == i * l
               C == (j - i) * l
    <3> HIDE DEF A, B, C
    <3>5. B <= A BY <3>2, <3>3, <3>4 DEF A, B, C
    <3> QED BY <3>4, <3>5 DEF A, B
  <2>4. x[1] * w <= MaxDnsCompressionJumps * w /\ x[1] * w \in Nat /\ MaxDnsCompressionJumps * w \in Nat
    BY <1>1, <2>1, <2>3
  <2> DEFINE A == x[1] * w
             B == MaxDnsCompressionJumps * w
             p == x[2]
  <2> HIDE DEF A, B, p
  <2>5. A + (e + 64 - p) < B + (e + 65) BY <2>1, <2>4 DEF A, B, p
  <2> QED BY <2>2, <2>5 DEF A, B, p
<1> HIDE DEF k
<1>4. PICK g : SpellsBelow(b, e, k, g) BY <1>2, SpellingBelow
<1> DEFINE h == [x \in Places(b, e) |-> g[x]]
<1>5. \A x \in Places(b, e) : h[x] = g[x] /\ h[x] = Spells(b, e, g, x) BY <1>3, <1>4 DEF SpellsBelow
<1>6. h = [x \in Places(b, e) |-> h[x]] OBVIOUS
<1> HIDE DEF h
<1>7. ASSUME NEW x \in Places(b, e) PROVE h[x] = Spells(b, e, h, x)
  <2>1. Spells(b, e, g, x) = Spells(b, e, h, x) BY <1>5, SameBelow
  <2> QED BY <1>5, <2>1
<1>8. h = [x \in Places(b, e) |-> Spells(b, e, h, x)] BY <1>6, <1>7
<1> QED BY <1>8

(* Expansion is well defined: it does as its body says.                    *)
LEMMA ExpansionIs ==
    ASSUME Spans, NEW b \in Nat, NEW e \in Nat, b <= e
    PROVE  Expansion(b, e) = [x \in Places(b, e) |-> Spells(b, e, Expansion(b, e), x)]
<1> DEFINE P(g) == g = [x \in Places(b, e) |-> Spells(b, e, g, x)]
<1>1. Expansion(b, e) = CHOOSE g : P(g) BY DEF Expansion, Spells, Places
<1>2. \E g : P(g) BY SpellingExists
<1> HIDE DEF P
<1>3. P(Expansion(b, e)) BY <1>1, <1>2
<1> QED BY <1>3 DEF P

(* Induction on the weight of a name.                                      *)
LEMMA PlacesInduction ==
    ASSUME Spans, NEW b \in Nat, NEW e \in Nat, b <= e, NEW S,
           \A x \in Places(b, e) :
              (\A y \in Places(b, e) : Weight(b, e, y) < Weight(b, e, x) => y \in S) => x \in S
    PROVE  \A x \in Places(b, e) : x \in S
<1> DEFINE T == {Weight(b, e, x) : x \in {z \in Places(b, e) : z \notin S}}
<1>1. SUFFICES ASSUME T # {} PROVE FALSE
  OBVIOUS
<1>2. T \in SUBSET Nat
  <2>1. \A x \in Places(b, e) : Weight(b, e, x) \in Nat BY Smaller
  <2> QED BY <2>1
<1>3. PICK t \in T : \A y \in T : t <= y
  <2> HIDE DEF T
  <2> QED BY <1>1, <1>2, LeastOf
<1>4. PICK x \in Places(b, e) : x \notin S /\ Weight(b, e, x) = t BY <1>3
<1>5. ASSUME NEW y \in Places(b, e), Weight(b, e, y) < Weight(b, e, x) PROVE y \in S
  <2>1. Weight(b, e, y) \in Nat /\ t \in Nat BY <1>2, Smaller
  <2>2. Weight(b, e, y) \notin T BY <1>3, <1>4, <1>5, <2>1
  <2> QED BY <2>2
<1> QED BY <1>4, <1>5

(* Parts of names are put together to sequences.                           *)
LEMMA JoinedType == ASSUME NEW l \in Seq(Int), NEW r \in Seq(Int) PROVE Joined(l, r) \in Seq(Int)
<1>1. <<DOT>> \in Seq(Int) /\ Broken \in Seq(Int) BY DEF DOT, Broken
<1>2. l \o <<DOT>> \in Seq(Int) BY <1>1, ConcatProperties
<1>3. (l \o <<DOT>>) \o r \in Seq(Int) BY <1>2, ConcatProperties
<1> QED BY <1>1, <1>3 DEF Joined

(* What a name means is a sequence.                                        *)
LEMMA ExpansionType ==
    ASSUME Spans, NEW b \in Nat, NEW e \in Nat, b <= e
    PROVE  \A x \in Places(b, e) : Expansion(b, e)[x] \in Seq(Int)
<1> DEFINE F == Expansion(b, e)
           S == {x \in Places(b, e) : F[x] \in Seq(Int)}
<1>1. \A x \in Places(b, e) : F[x] = Spells(b, e, F, x)
  <2>1. F = [x \in Places(b, e) |-> Spells(b, e, F, x)] BY ExpansionIs
  <2> HIDE DEF F
  <2> QED BY <2>1
<1> HIDE DEF F
<1>2. ASSUME NEW x \in Places(b, e),
             \A y \in Places(b, e) : Weight(b, e, y) < Weight(b, e, x) => y \in S
      PROVE  x \in S
  <2> DEFINE y == <<x[1] - 1, b + Target(x[2])>>
             z == <<x[1], x[2] + 1 + Byte(x[2])>>
             l == Slice(x[2] + 1, Byte(x[2]))
  <2>1. Byte(x[2]) >= 192 /\ x[1] > 0 /\ b + Target(x[2]) < x[2] => F[y] \in Seq(Int)
    BY <1>2, Smaller
  <2>2. Byte(x[2]) < 64 /\ x[2] + Byte(x[2]) < e => F[z] \in Seq(Int) BY <1>2, Smaller
  <2>3. l \in Seq(Int)
    <3>0. x[2] \in Nat /\ Byte(x[2]) \in 0 .. 255 BY Smaller
    <3>1. x[2] + 1 \in Nat /\ Byte(x[2]) \in Nat BY <3>0
    <3>2. l \in Bytes BY <3>1, SliceBytes
    <3> HIDE DEF l
    <3> QED BY <3>2 DEF Bytes
  <2>4. <<>> \in Seq(Int) /\ Broken \in Seq(Int) BY DEF Broken
  <2> HIDE DEF y, z, l
  <2>5. Byte(x[2]) < 64 /\ x[2] + Byte(x[2]) < e => Joined(l, F[z]) \in Seq(Int)
    BY <2>2, <2>3, JoinedType
  <2>6. Spells(b, e, F, x) \in Seq(Int) BY <2>1, <2>4, <2>5, Zenon DEF Spells, y, z, l
  <2> QED BY <1>1, <2>6
<1>3. \A x \in Places(b, e) : x \in S
  <2> HIDE DEF S
  <2> QED BY <1>2, PlacesInduction
<1> QED BY <1>3 DEF F

(* What a label adds to a name.                                            *)
WithLabel(name, l) == name \o (IF name = <<>> THEN <<>> ELSE <<DOT>>) \o l

(* One sequence after another.                                             *)
Cat(a, c) == a \o c

(* Three are put together in either order.                                 *)
LEMMA CatIs ==
    \A i, j, k \in Seq(Int) : Cat(i, j) \in Seq(Int) /\ Cat(Cat(i, j), k) = Cat(i, Cat(j, k))
<1> DEFINE I == Int
<1> HIDE DEF I
<1>1. \A i, j, k \in Seq(I) : (i \o j) \o k = i \o (j \o k) BY ConcatAssociative
<1>2. \A i, j \in Seq(I) : i \o j \in Seq(I) BY ConcatProperties
<1> QED BY <1>1, <1>2, Zenon DEF Cat, I

(* Taking a label before or after the rest of the name is the same.        *)
LEMMA JoinedOn ==
    ASSUME NEW name \in Bytes, NEW l \in Bytes, l # <<>>, NEW r \in Seq(Int)
    PROVE  Joined(name, Joined(l, r)) = Joined(WithLabel(name, l), r)
<1> DEFINE d == <<DOT>>
           nl == WithLabel(name, l)
<1>0. d \in Seq(Int) /\ name \in Seq(Int) /\ l \in Seq(Int) /\ d # <<>> BY DEF Bytes, DOT
<1>1. l # Broken
  <2>1. l = Broken => l[1] = -1 /\ Len(l) = 1 BY DEF Broken
  <2>2. Len(l) = 1 => l[1] \in Nat BY DEF Bytes
  <2>3. -1 \notin Nat OBVIOUS
  <2> QED BY <2>1, <2>2, <2>3
<1>2. CASE r = Broken
  <2>1. Joined(l, r) = Broken BY <1>2 DEF Joined
  <2>2. Joined(name, Joined(l, r)) = Broken BY <2>1 DEF Joined
  <2>3. Joined(nl, r) = Broken BY <1>2 DEF Joined
  <2> QED BY <2>2, <2>3
<1>3. CASE r = <<>>
  <2>0. r # Broken BY <1>3 DEF Broken
  <2>1. Joined(l, r) = l BY <1>3, <2>0 DEF Joined
  <2>2. Joined(nl, r) = nl BY <1>3, <2>0 DEF Joined
  <2>3. Joined(name, l) = nl
    <3>1. CASE name = <<>>
      <4>1. nl = l BY <1>0, <3>1, ConcatEmptySeq DEF WithLabel
      <4> QED BY <1>1, <3>1, <4>1 DEF Joined
    <3>2. CASE name # <<>>
      <4>1. nl = name \o d \o l BY <3>2 DEF WithLabel
      <4> QED BY <1>1, <3>2, <4>1 DEF Joined
    <3> QED BY <3>1, <3>2
  <2> QED BY <2>1, <2>2, <2>3
<1>4. CASE r # <<>> /\ r # Broken
  <2> DEFINE m == (l \o d) \o r
  <2>1. Joined(l, r) = m BY <1>4 DEF Joined
  <2>2. m # <<>> /\ m # Broken /\ m \in Seq(Int)
    <3>1. /\ l \o d \in Seq(Int) /\ Len(l \o d) = Len(l) + Len(d)
          /\ m \in Seq(Int) /\ Len(m) = Len(l \o d) + Len(r)
      BY <1>0, ConcatProperties
    <3>2. Len(l) \in Nat /\ Len(l) > 0 /\ Len(d) = 1 /\ Len(r) \in Nat BY <1>0, EmptySeq
    <3>3. Len(m) > 1 BY <3>1, <3>2
    <3>4. Len(Broken) = 1 /\ Len(<<>>) = 0 BY DEF Broken
    <3>5. m \in Seq(Int) BY <3>1
    <3> HIDE DEF m
    <3>6. Len(m) # 0 /\ Len(m) # 1 BY <3>3
    <3> QED BY <3>4, <3>5, <3>6, Zenon
  <2>3. nl \in Seq(Int) /\ nl # <<>>
    <3>1. WithLabel(name, l) = (IF name = <<>> THEN name \o <<>> ELSE name \o d) \o l BY DEF WithLabel
    <3> DEFINE q == IF name = <<>> THEN name \o <<>> ELSE name \o d
    <3>2. q \in Seq(Int) BY <1>0, ConcatProperties
    <3> HIDE DEF q
    <3>3. q \o l \in Seq(Int) /\ Len(q \o l) = Len(q) + Len(l) BY <1>0, <3>2, ConcatProperties
    <3>4. Len(l) > 0 /\ Len(l) \in Nat /\ Len(q) \in Nat BY <1>0, <3>2, EmptySeq
    <3>5. Len(q \o l) # 0 BY <3>3, <3>4
    <3> QED BY <3>1, <3>3, <3>5 DEF q
  <2>4. Joined(nl, r) = (nl \o d) \o r BY <1>4, <2>3 DEF Joined
  <2>5. CASE name = <<>>
    <3>1. nl = l BY <1>0, <2>5, ConcatEmptySeq DEF WithLabel
    <3>2. Joined(name, m) = m BY <2>2, <2>5 DEF Joined
    <3> QED BY <2>1, <2>4, <3>1, <3>2
  <2>6. CASE name # <<>>
    <3>1. nl = (name \o d) \o l BY <2>6 DEF WithLabel
    <3>2. Joined(name, m) = (name \o d) \o m
      <4> HIDE DEF m
      <4> QED BY <2>2, <2>6 DEF Joined
    <3> DEFINE q == name \o d
    <3>3. q \in Seq(Int) BY <1>0, ConcatProperties
    <3>4. Cat(q, Cat(Cat(l, d), r)) = Cat(Cat(Cat(q, l), d), r)
      <4> HIDE DEF q, d
      <4> QED BY <1>0, <3>3, CatIs
    <3>5. q \o m = ((q \o l) \o d) \o r
      <4> HIDE DEF q, d
      <4> QED BY <3>4 DEF Cat
    <3> HIDE DEF m
    <3> QED BY <2>1, <2>4, <3>1, <3>2, <3>5
  <2> QED BY <2>5, <2>6
<1> QED BY <1>2, <1>3, <1>4

(* InPlaceEnd's body, and what it comes to.                                *)
Stops(e, g, q) ==
    IF q >= e THEN q ELSE IF Byte(q) = 0 THEN q + 1
    ELSE IF Byte(q) >= 192 THEN q + 2 ELSE g[q + 1 + Byte(q)]

(* Where InPlaceEnd is asked.                                              *)
Offsets(b, e) == b .. e + 192

(* g says where each name ends that starts less than k before the last     *)
(* offset.                                                                 *)
StopsBelow(b, e, k, g) == \A q \in b .. e + 192 : e + 192 - q < k => g[q] = Stops(e, g, q)

(* Where a name ends depends only on what comes after its first label.     *)
LEMMA StopsSame ==
    ASSUME Spans, NEW b \in Nat, NEW e \in Nat, b <= e, NEW q \in Offsets(b, e), NEW g, NEW h,
           \A r \in Offsets(b, e) : q < r => g[r] = h[r]
    PROVE  Stops(e, g, q) = Stops(e, h, q)
<1>1. q \in Nat BY DEF Spans, Offsets
<1>2. Byte(q) \in 0 .. 255 BY <1>1, ByteType
<1> DEFINE c == Byte(q)
           r == q + 1 + c
<1> HIDE DEF c
<1>3. q < e /\ ~(c >= 192) => r \in b .. e + 192 /\ q < r BY <1>1, <1>2 DEF c, Offsets
<1>4. q < e /\ ~(c >= 192) => g[r] = h[r] BY <1>3 DEF Offsets
<1>5. ~(q >= e) => q < e BY <1>1
<1>6. ~(q >= e) /\ ~(c >= 192) => g[q + 1 + Byte(q)] = h[q + 1 + Byte(q)]
  BY <1>4, <1>5 DEF c
<1> QED BY <1>6, Zenon DEF Stops, c

(* There is such a g for each k.                                           *)
LEMMA StoppingBelow ==
    ASSUME Spans, NEW b \in Nat, NEW e \in Nat, b <= e
    PROVE  \A k \in Nat : \E g : StopsBelow(b, e, k, g)
<1> DEFINE T == {k \in Nat : ~\E g : StopsBelow(b, e, k, g)}
<1>1. SUFFICES ASSUME T # {} PROVE FALSE
  BY Zenon
<1>2. PICK k \in T : \A y \in T : k <= y
  <2>1. T \in SUBSET Nat OBVIOUS
  <2> HIDE DEF T
  <2> QED BY <1>1, <2>1, LeastOf
<1>3. k \in Nat /\ ~\E g : StopsBelow(b, e, k, g) OBVIOUS
<1>4. k # 0
  <2>1. StopsBelow(b, e, 0, <<>>)
    <3>1. \A q \in b .. e + 192 : ~(e + 192 - q < 0) OBVIOUS
    <3> QED BY <3>1 DEF StopsBelow
  <2> QED BY <1>3, <2>1
<1>5. k - 1 \in Nat /\ ~(k <= k - 1) BY <1>3, <1>4
<1>6. k - 1 \notin T BY <1>2, <1>5
<1>7. PICK g : StopsBelow(b, e, k - 1, g) BY <1>5, <1>6
<1> DEFINE h == [q \in b .. e + 192 |-> IF e + 192 - q < k - 1 THEN g[q] ELSE Stops(e, g, q)]
<1>8. \A q \in b .. e + 192 : e + 192 - q < k - 1 => h[q] = g[q] OBVIOUS
<1>9. \A q \in b .. e + 192 : h[q] = Stops(e, g, q) BY <1>7 DEF StopsBelow
<1> HIDE DEF h
<1>10. ASSUME NEW q \in b .. e + 192, e + 192 - q < k PROVE h[q] = Stops(e, h, q)
  <2>1. ASSUME NEW r \in b .. e + 192, q < r PROVE g[r] = h[r]
    <3>1. e + 192 - r < k - 1 BY <1>3, <1>10, <2>1
    <3> QED BY <1>8, <3>1
  <2>2. \A r \in Offsets(b, e) : q < r => g[r] = h[r] BY <2>1 DEF Offsets
  <2>a. q \in Offsets(b, e) BY DEF Offsets
  <2>3. Stops(e, g, q) = Stops(e, h, q) BY <2>2, <2>a, StopsSame
  <2> QED BY <1>9, <2>3
<1>11. StopsBelow(b, e, k, h) BY <1>10 DEF StopsBelow
<1> QED BY <1>3, <1>11

(* InPlaceEnd is well defined.                                             *)
LEMMA InPlaceEndIs ==
    ASSUME Spans, NEW b \in Nat, NEW e \in Nat, b <= e
    PROVE  InPlaceEnd(b, e) = [q \in b .. e + 192 |-> Stops(e, InPlaceEnd(b, e), q)]
<1> DEFINE P(g) == g = [q \in b .. e + 192 |-> Stops(e, g, q)]
<1>1. InPlaceEnd(b, e) = CHOOSE g : P(g) BY DEF InPlaceEnd, Stops
<1>2. \E g : P(g)
  <2>1. e + 193 \in Nat OBVIOUS
  <2>2. PICK g : StopsBelow(b, e, e + 193, g) BY <2>1, StoppingBelow
  <2>3. \A q \in b .. e + 192 : e + 192 - q < e + 193 OBVIOUS
  <2> DEFINE h == [q \in b .. e + 192 |-> g[q]]
  <2>4. \A q \in b .. e + 192 : h[q] = g[q] /\ h[q] = Stops(e, g, q) BY <2>2, <2>3 DEF StopsBelow
  <2>5. h = [q \in b .. e + 192 |-> h[q]] OBVIOUS
  <2> HIDE DEF h
  <2>6. ASSUME NEW q \in b .. e + 192 PROVE h[q] = Stops(e, h, q)
    <3>0. \A r \in Offsets(b, e) : g[r] = h[r] BY <2>4 DEF Offsets
    <3>a. q \in Offsets(b, e) BY DEF Offsets
    <3>1. Stops(e, g, q) = Stops(e, h, q) BY <3>0, <3>a, StopsSame
    <3> QED BY <2>4, <3>1
  <2>7. h = [q \in b .. e + 192 |-> Stops(e, h, q)] BY <2>5, <2>6
  <2> QED BY <2>7
<1> HIDE DEF P
<1>3. P(InPlaceEnd(b, e)) BY <1>1, <1>2
<1> QED BY <1>3 DEF P

(* While a name is read: it means what was read of it and then what stands *)
(* where parseName looks now, with the pointers that are left; a pointer   *)
(* was followed to no later than that; and the span goes on where the name *)
(* ends in place.                                                          *)
SoFar(F, G, b, d) ==
    /\ d.jumps > 0 => b + d.ceiling <= d.cur
    /\ F[<<MaxDnsCompressionJumps, d.start>>]
          = Joined(d.name, F[<<MaxDnsCompressionJumps - d.jumps, d.cur>>])
    /\ IF d.jumps = 0 THEN G[d.start] = G[d.cur] ELSE d.at = G[d.start]

(* Once it is read.                                                        *)
Read(F, G, d) == d.name = F[<<MaxDnsCompressionJumps, d.start>>] /\ d.at = G[d.start]

NInv == /\ pc = "name" => SoFar(Expansion(base, end), InPlaceEnd(base, end), base, dns)
        /\ pc = "fixed" => Read(Expansion(base, end), InPlaceEnd(base, end), dns)

(* The bytes of a message do not change while it is parsed.                *)
LEMMA MeaningKept ==
    ASSUME UNCHANGED <<flow, base, end>>
    PROVE  /\ Expansion(base, end)' = Expansion(base, end)
           /\ InPlaceEnd(base, end)' = InPlaceEnd(base, end)
<1>1. Expansion(base, end)' = Expansion(base, end)
  BY DEF Expansion, Byte, Target, Slice, Joined, Broken
<1>2. InPlaceEnd(base, end)' = InPlaceEnd(base, end)
  BY DEF InPlaceEnd, Byte
<1> QED BY <1>1, <1>2

(* What Expansion and InPlaceEnd say at the byte parseName looks at.       *)
LEMMA AtCur ==
    ASSUME BInv, pc = "name", dns.cur < end, NEW F, F = Expansion(base, end),
           NEW G, G = InPlaceEnd(base, end)
    PROVE  /\ F[<<MaxDnsCompressionJumps - dns.jumps, dns.cur>>]
                 = Spells(base, end, F, <<MaxDnsCompressionJumps - dns.jumps, dns.cur>>)
           /\ G[dns.cur] = Stops(end, G, dns.cur)
           /\ <<MaxDnsCompressionJumps - dns.jumps, dns.cur>> \in Places(base, end)
<1> DEFINE x == <<MaxDnsCompressionJumps - dns.jumps, dns.cur>>
<1>1. /\ Spans /\ base \in Nat /\ end \in Nat /\ base <= end /\ dns.cur \in Nat /\ dns.jumps \in Nat
      /\ base <= dns.cur /\ dns.cur <= end /\ MaxDnsCompressionJumps \in Nat
  BY Found
<1>2. dns.jumps <= MaxDnsCompressionJumps
  <2>1. dns.jumps \in 0 .. MaxDnsCompressionJumps BY Found DEF Parsed
  <2> QED BY <1>1, <2>1
<1>3. /\ MaxDnsCompressionJumps - dns.jumps \in 0 .. MaxDnsCompressionJumps
      /\ dns.cur \in base .. end + 64 /\ dns.cur \in base .. end + 192
  BY <1>1, <1>2
<1>4. x \in Places(base, end) BY <1>3 DEF Places
<1>5. F = [y \in Places(base, end) |-> Spells(base, end, F, y)] BY <1>1, ExpansionIs
<1>6. G = [q \in base .. end + 192 |-> Stops(end, G, q)] BY <1>1, InPlaceEndIs
<1>7. F[x] = Spells(base, end, F, x)
  <2> HIDE DEF x
  <2> QED BY <1>4, <1>5
<1>8. G[dns.cur] = Stops(end, G, dns.cur) BY <1>3, <1>6
<1> QED BY <1>4, <1>7, <1>8

(* The root ends the name.                                                 *)
LEMMA NameEndReads == BInv /\ NInv /\ NameEnd => NInv'
<1> SUFFICES ASSUME BInv, NInv, NameEnd PROVE NInv'
  OBVIOUS
<1> DEFINE F == Expansion(base, end)
           G == InPlaceEnd(base, end)
           d == [dns EXCEPT !.at = IF dns.jumps = 0 THEN dns.cur + 1 ELSE @]
           x == <<MaxDnsCompressionJumps - dns.jumps, dns.cur>>
<1>1. /\ pc = "name" /\ dns.cur < end /\ Byte(dns.cur) = 0 /\ dns' = d /\ pc' = "fixed"
      /\ UNCHANGED <<flow, base, end>>
  BY DEF NameEnd
<1>2. SoFar(F, G, base, dns) BY <1>1 DEF NInv
<1>3. Expansion(base, end)' = F /\ InPlaceEnd(base, end)' = G BY <1>1, MeaningKept
<1>4. F[x] = Spells(base, end, F, x) /\ G[dns.cur] = Stops(end, G, dns.cur) BY <1>1, AtCur
<1> HIDE DEF F, G
<1>5. x[2] = dns.cur /\ ~(dns.cur >= end) BY <1>1, Found
<1>6. F[x] = <<>> BY <1>1, <1>4, <1>5 DEF Spells
<1>7. G[dns.cur] = dns.cur + 1 BY <1>1, <1>4, <1>5 DEF Stops
<1>8. <<>> # Broken BY DEF Broken
<1>9. dns.name = F[<<MaxDnsCompressionJumps, dns.start>>]
  <2>1. F[<<MaxDnsCompressionJumps, dns.start>>] = Joined(dns.name, F[x]) BY <1>2 DEF SoFar
  <2>2. Joined(dns.name, <<>>) = dns.name BY <1>8 DEF Joined
  <2> QED BY <1>6, <2>1, <2>2
<1>10. d.name = dns.name /\ d.start = dns.start
       /\ d.at = (IF dns.jumps = 0 THEN dns.cur + 1 ELSE dns.at)
  BY Found DEF Parsed
<1>11. d.at = G[dns.start] BY <1>2, <1>7, <1>10 DEF SoFar
<1> HIDE DEF d
<1>12. Read(F, G, d) BY <1>9, <1>10, <1>11 DEF Read
<1> QED BY <1>1, <1>3, <1>12 DEF NInv

(* A pointer that parseName follows is one that Expansion follows: it      *)
(* leads back from where it stands, since it leads back from where the     *)
(* last one led to.                                                        *)
LEMMA NamePointerReads == BInv /\ NInv /\ NamePointer => NInv'
<1> SUFFICES ASSUME BInv, NInv, NamePointer PROVE NInv'
  OBVIOUS
<1> DEFINE F == Expansion(base, end)
           G == InPlaceEnd(base, end)
           t == Target(dns.cur)
           d == [dns EXCEPT !.jumps = @ + 1, !.at = IF dns.jumps = 0 THEN dns.cur + 2 ELSE @,
                            !.ceiling = t, !.cur = base + t]
           n == MaxDnsCompressionJumps - dns.jumps
           x == <<n, dns.cur>>
<1>1. CASE Fail
  BY <1>1 DEF Fail, Leave, NInv
<1>2. CASE ~Fail
  <2>1. /\ pc = "name" /\ dns.cur < end /\ Byte(dns.cur) >= 192 /\ ~(dns.cur + 1 >= end)
        /\ PointerAllowed(t) /\ NameGoesOn(d)
    BY <1>2 DEF NamePointer
  <2>2. dns' = d /\ pc' = "name" /\ UNCHANGED <<flow, base, end>> BY <2>1 DEF NameGoesOn
  <2>3. SoFar(F, G, base, dns) BY <2>1 DEF NInv
  <2>4. Expansion(base, end)' = F /\ InPlaceEnd(base, end)' = G BY <2>2, MeaningKept
  <2>5. F[x] = Spells(base, end, F, x) /\ G[dns.cur] = Stops(end, G, dns.cur) BY <2>1, AtCur
  <2>6. t \in Nat /\ dns.cur \in Nat /\ dns.jumps \in Nat /\ end \in Nat /\ base \in Nat
    <3>1. dns.cur \in Nat /\ dns.cur + 1 \in Nat BY Found
    <3>2. Byte(dns.cur) \in 0 .. 255 /\ Byte(dns.cur + 1) \in 0 .. 255 BY <3>1, Found, ByteType
    <3>3. \A u, v \in 0 .. 255 : u >= 192 => (u - 192) * 256 + v \in Nat OBVIOUS
    <3>4. t \in Nat BY <2>1, <3>2, <3>3 DEF Target
    <3> QED BY <3>4, Found
  <2>7. n > 0 /\ n - 1 = MaxDnsCompressionJumps - (dns.jumps + 1)
    <3>1. dns.jumps + 1 <= MaxDnsCompressionJumps BY <2>1 DEF PointerAllowed
    <3>2. MaxDnsCompressionJumps \in Nat BY DnsAssumption
    <3> QED BY <2>6, <3>1, <3>2
  <2>8. base + t < dns.cur
    <3>1. t < (IF dns.jumps = 0 THEN dns.cur - base ELSE dns.ceiling) BY <2>1 DEF PointerAllowed
    <3>2. dns.jumps > 0 => base + dns.ceiling <= dns.cur BY <2>3 DEF SoFar
    <3>3. dns.ceiling \in Int BY Found
    <3>4. CASE dns.jumps = 0
      <4>1. t < dns.cur - base BY <3>1, <3>4
      <4> HIDE DEF t
      <4> QED BY <2>6, <4>1
    <3>5. CASE dns.jumps # 0
      <4>1. t < dns.ceiling BY <3>1, <3>5
      <4>2. base + dns.ceiling <= dns.cur BY <2>6, <3>2, <3>5
      <4> HIDE DEF t
      <4> QED BY <2>6, <3>3, <4>1, <4>2
    <3> QED BY <3>4, <3>5
  <2>9. /\ d.jumps = dns.jumps + 1 /\ d.ceiling = t /\ d.cur = base + t /\ d.name = dns.name
        /\ d.start = dns.start /\ d.at = (IF dns.jumps = 0 THEN dns.cur + 2 ELSE dns.at)
    BY Found DEF Parsed
  <2> HIDE DEF F, G, d, t
  <2>10. x[1] = n /\ x[2] = dns.cur /\ ~(dns.cur >= end) /\ dns.cur + 1 < end /\ Byte(dns.cur) # 0
    <3>1. dns.cur + 1 < end /\ ~(dns.cur >= end) BY <2>1, <2>6
    <3>2. Byte(dns.cur) # 0 BY <2>1
    <3> QED BY <3>1, <3>2
  <2>11. F[x] = F[<<n - 1, base + t>>]
    <3> HIDE DEF x, n
    <3> QED BY <2>1, <2>5, <2>7, <2>8, <2>10 DEF Spells, t
  <2>12. G[dns.cur] = dns.cur + 2 BY <2>1, <2>5, <2>10 DEF Stops
  <2>13. F[<<MaxDnsCompressionJumps, d.start>>]
            = Joined(d.name, F[<<MaxDnsCompressionJumps - d.jumps, d.cur>>])
    <3>1. F[<<MaxDnsCompressionJumps, dns.start>>] = Joined(dns.name, F[x]) BY <2>3 DEF SoFar
    <3> HIDE DEF x
    <3> QED BY <2>7, <2>9, <2>11, <3>1
  <2>14. d.jumps # 0 /\ d.at = G[d.start]
    <3>1. d.jumps # 0 BY <2>6, <2>9
    <3>2. CASE dns.jumps = 0 BY <2>3, <2>9, <2>12, <3>1, <3>2 DEF SoFar
    <3>3. CASE dns.jumps # 0 BY <2>3, <2>9, <3>1, <3>3 DEF SoFar
    <3> QED BY <3>1, <3>2, <3>3
  <2>15. base + d.ceiling <= d.cur BY <2>6, <2>9
  <2>16. SoFar(F, G, base, d) BY <2>13, <2>14, <2>15 DEF SoFar
  <2> QED BY <2>2, <2>4, <2>16 DEF NInv
<1> QED BY <1>1, <1>2

(* A label is added to the name.                                           *)
LEMMA NameLabelReads == BInv /\ NInv /\ NameLabel => NInv'
<1> SUFFICES ASSUME BInv, NInv, NameLabel PROVE NInv'
  OBVIOUS
<1> DEFINE F == Expansion(base, end)
           G == InPlaceEnd(base, end)
           c == Byte(dns.cur)
           l == Slice(dns.cur + 1, c)
           text == WithLabel(dns.name, l)
           d == [dns EXCEPT !.octets = @ + c + 1, !.name = text, !.cur = @ + 1 + c]
           n == MaxDnsCompressionJumps - dns.jumps
           x == <<n, dns.cur>>
           y == <<n, dns.cur + 1 + c>>
<1>1. CASE Fail
  BY <1>1 DEF Fail, Leave, NInv
<1>2. CASE ~Fail
  <2>1. pc = "name" /\ dns.cur < end /\ c \in 1 .. 63 /\ LabelFits(c) /\ NameGoesOn(d)
    BY <1>2 DEF NameLabel, WithLabel
  <2>2. dns' = d /\ pc' = "name" /\ UNCHANGED <<flow, base, end>> BY <2>1 DEF NameGoesOn
  <2>3. SoFar(F, G, base, dns) BY <2>1 DEF NInv
  <2>4. Expansion(base, end)' = F /\ InPlaceEnd(base, end)' = G BY <2>2, MeaningKept
  <2>5. /\ F[x] = Spells(base, end, F, x) /\ G[dns.cur] = Stops(end, G, dns.cur)
        /\ x \in Places(base, end)
    BY <2>1, AtCur
  <2>6. dns.cur \in Nat /\ c \in Nat /\ end \in Nat /\ base \in Nat /\ dns.jumps \in Nat
        /\ base <= dns.cur /\ base <= end
    <3>1. c \in Nat BY <2>1
    <3> QED BY <2>1, <3>1, Found
  <2>7. dns.cur + c < end
    <3>1. dns.cur + 1 + c <= end BY <2>1 DEF LabelFits
    <3> HIDE DEF c
    <3> QED BY <2>6, <3>1
  <2>8. l \in Bytes /\ l # <<>> /\ dns.name \in Bytes
    <3>1. dns.cur + 1 \in Nat BY <2>6
    <3>2. l \in Bytes BY <2>6, <3>1, Found, SliceBytes
    <3>3. Len(l) = c
      <4>1. l = [i \in 1 .. c |-> Byte(dns.cur + 1 + i - 1)] BY DEF Slice
      <4> HIDE DEF c, l
      <4>2. DOMAIN l = 1 .. c BY <4>1
      <4>3. DOMAIN l = 1 .. Len(l) /\ Len(l) \in Nat BY <3>2, LenProperties DEF Bytes
      <4> QED BY <2>6, <4>2, <4>3
    <3>4. c # 0 BY <2>1
    <3> HIDE DEF l, c
    <3>5. l # <<>> BY <3>3, <3>4
    <3> QED BY <3>2, <3>5, Found
  <2>9. /\ d.name = text /\ d.cur = dns.cur + 1 + c /\ d.start = dns.start /\ d.jumps = dns.jumps
        /\ d.ceiling = dns.ceiling /\ d.at = dns.at
    BY Found DEF Parsed
  <2>10. y \in Places(base, end)
    <3>1. x[1] = n /\ x[2] = dns.cur OBVIOUS
    <3>2. c < 64 /\ dns.cur + c < end BY <2>1, <2>7
    <3> HIDE DEF c
    <3>3. n \in 0 .. MaxDnsCompressionJumps BY <2>5 DEF Places
    <3>4. dns.cur + 1 + c \in base .. end + 64 BY <2>6, <2>7
    <3> QED BY <3>3, <3>4 DEF Places
  <2>11. F[y] \in Seq(Int) BY <2>6, <2>10, Found, ExpansionType
  <2> HIDE DEF F, G, d, text
  <2>12. F[x] = Joined(l, F[y])
    <3>1. x[1] = n /\ x[2] = dns.cur OBVIOUS
    <3>2. ~(dns.cur >= end) /\ c # 0 /\ ~(c >= 192) /\ c < 64 BY <2>1, <2>6
    <3> HIDE DEF x, n
    <3> QED BY <2>5, <2>7, <3>1, <3>2 DEF Spells
  <2>13. G[dns.cur] = G[dns.cur + 1 + c]
    <3>2. ~(dns.cur >= end) /\ c # 0 /\ ~(c >= 192) BY <2>1, <2>6
    <3> QED BY <2>5, <3>2 DEF Stops
  <2> HIDE DEF l, c, n
  <2>14. Joined(dns.name, Joined(l, F[y])) = Joined(text, F[y]) BY <2>8, <2>11, JoinedOn DEF text
  <2>15. F[<<MaxDnsCompressionJumps, d.start>>]
            = Joined(d.name, F[<<MaxDnsCompressionJumps - d.jumps, d.cur>>])
    <3>1. F[<<MaxDnsCompressionJumps, dns.start>>] = Joined(dns.name, F[x]) BY <2>3 DEF SoFar, n
    <3>2. <<MaxDnsCompressionJumps - d.jumps, d.cur>> = y BY <2>9 DEF n
    <3> HIDE DEF x, y
    <3> QED BY <2>9, <2>12, <2>14, <3>1, <3>2
  <2>16. d.jumps > 0 => base + d.ceiling <= d.cur
    <3>1. dns.jumps > 0 => base + dns.ceiling <= dns.cur BY <2>3 DEF SoFar
    <3>2. dns.ceiling \in Int BY Found
    <3> QED BY <2>6, <2>9, <3>1, <3>2
  <2>17. IF d.jumps = 0 THEN G[d.start] = G[d.cur] ELSE d.at = G[d.start]
    BY <2>3, <2>9, <2>13 DEF SoFar
  <2>18. SoFar(F, G, base, d) BY <2>15, <2>16, <2>17 DEF SoFar
  <2> QED BY <2>2, <2>4, <2>18 DEF NInv
<1> QED BY <1>1, <1>2

(* A name starts with nothing read of it.                                  *)
LEMMA NextItemReads == ASSUME BInv, NEW at, NEW items, NextItem(at, items) PROVE NInv'
<1>1. CASE Len(items) = Count
  BY <1>1 DEF NextItem, Leave, NInv
<1>2. CASE Len(items) # Count
  <2> DEFINE d == [NotParsing EXCEPT !.at = at, !.cur = at, !.start = at, !.items = items]
             F == Expansion(base, end)
             G == InPlaceEnd(base, end)
  <2>1. dns' = d /\ pc' = "name" /\ UNCHANGED <<flow, base, end>> BY <1>2 DEF NextItem
  <2>2. d.cur = at /\ d.start = at /\ d.jumps = 0 /\ d.name = <<>> BY DEF NotParsing
  <2>3. Expansion(base, end)' = F /\ InPlaceEnd(base, end)' = G BY <2>1, MeaningKept
  <2> HIDE DEF d, F, G
  <2>4. MaxDnsCompressionJumps - 0 = MaxDnsCompressionJumps BY DnsAssumption
  <2>5. \A r : Joined(<<>>, r) = r BY DEF Joined
  <2>6. SoFar(F, G, base, d) BY <2>2, <2>4, <2>5 DEF SoFar
  <2> QED BY <2>1, <2>3, <2>6 DEF NInv
<1> QED BY <1>1, <1>2

(* Every step keeps what the names read so far mean.                       *)
LEMMA NextReads == BInv /\ NInv /\ [Next]_vars => NInv'
<1> SUFFICES ASSUME BInv, NInv, [Next]_vars PROVE NInv'
  OBVIOUS
<1>1. CASE UNCHANGED vars
  <2>1. UNCHANGED <<flow, base, end, pc, dns>> BY <1>1 DEF vars
  <2>2. /\ Expansion(base, end)' = Expansion(base, end) /\ InPlaceEnd(base, end)' = InPlaceEnd(base, end)
    BY <2>1, MeaningKept
  <2> QED BY <2>1, <2>2 DEF NInv
<1>2. CASE Fail BY <1>2 DEF Fail, Leave, NInv
<1>3. CASE Datagram BY <1>3 DEF Datagram, NInv
<1>4. CASE Segment BY <1>4 DEF Segment, NInv
<1>5. CASE Frame BY <1>5 DEF Frame, NInv
<1>6. CASE ParseHeader /\ ~Fail
  <2>1. NextItem(base + HEADER_LEN, <<>>) BY <1>6 DEF ParseHeader
  <2> QED BY <2>1, NextItemReads
<1>7. CASE Question /\ ~Fail
  <2>1. NextItem(dns.at + QUESTION_HEADER_LEN, Append(dns.items, Item("questions", <<>>)))
    BY <1>7 DEF Question
  <2> QED BY <2>1, NextItemReads
<1>8. CASE ResourceRecord /\ ~Fail
  <2>1. \E at, items : NextItem(at, items) BY <1>8 DEF ResourceRecord
  <2> QED BY <2>1, NextItemReads
<1>9. CASE NameRefused BY <1>9, <1>2 DEF NameRefused
<1> QED BY <1>1, <1>2, <1>3, <1>4, <1>5, <1>6, <1>7, <1>8, <1>9, NameEndReads, NamePointerReads,
           NameLabelReads DEF Next, Parse

-----------------------------------------------------------------------------
(* The table of resolved names                                             *)

(* Which addresses a table has under which names, and its shape.           *)
Pairs(t) == UNION {{<<k, n>> : n \in Range(t[k])} : k \in DOMAIN t}
IsTable(t) == \A k \in DOMAIN t : t[k] \in Seq(Bytes) /\ IsInjective(t[k])

(* A record that the table takes, and what it says.                        *)
Says(rr) == rr.section \in {"answers", "additional"} /\ IsAddress(rr)
Said(items, k) == {<<IpKey(items[i]), items[i].name>> : i \in {j \in 1 .. k : Says(items[j])}}

(* What is in the table.                                                   *)
LEMMA PairIn ==
    ASSUME NEW t, NEW v
    PROVE  v \in Pairs(t) <=> \E x \in DOMAIN t : \E y \in Range(t[x]) : v = <<x, y>>
BY DEF Pairs

(* A name that was not there is added at the end.                          *)
LEMMA AppendNew ==
    ASSUME NEW s \in Seq(Bytes), IsInjective(s), NEW n \in Bytes, n \notin Range(s)
    PROVE  /\ Append(s, n) \in Seq(Bytes) /\ IsInjective(Append(s, n))
           /\ Range(Append(s, n)) = Range(s) \cup {n}
<1> DEFINE r == Append(s, n)
<1>1. /\ r \in Seq(Bytes) /\ Len(r) = Len(s) + 1 /\ Len(s) \in Nat
      /\ \A i \in 1 .. Len(s) : r[i] = s[i]
      /\ r[Len(s) + 1] = n
  BY AppendProperties, LenProperties
<1>2. DOMAIN s = 1 .. Len(s) /\ DOMAIN r = 1 .. Len(s) + 1 BY <1>1, LenProperties
<1> HIDE DEF r
<1>3. DOMAIN r = DOMAIN s \cup {Len(s) + 1} /\ Len(s) + 1 \notin DOMAIN s BY <1>1, <1>2
<1>4. \A i \in DOMAIN s : r[i] = s[i] /\ r[i] # n BY <1>1, <1>2 DEF Range
<1>5. IsInjective(r)
  <2>1. \A i, j \in DOMAIN s : s[i] = s[j] => i = j BY DEF IsInjective
  <2>2. \A i, j \in DOMAIN r : r[i] = r[j] => i = j BY <1>1, <1>3, <1>4, <2>1
  <2> QED BY <2>2 DEF IsInjective
<1>6. Range(r) = Range(s) \cup {n} BY <1>1, <1>3, <1>4 DEF Range
<1> QED BY <1>1, <1>5, <1>6 DEF r

(* One more name for an address.                                           *)
LEMMA WithNameAdds ==
    ASSUME NEW t, IsTable(t), NEW k, NEW n \in Bytes, n \notin Range(NamesOf(t, k))
    PROVE  IsTable(WithName(t, k, n)) /\ Pairs(WithName(t, k, n)) = Pairs(t) \cup {<<k, n>>}
<1> DEFINE s == NamesOf(t, k)
           u == WithName(t, k, n)
<1>1. s \in Seq(Bytes) /\ IsInjective(s)
  <2>1. <<>> \in Seq(Bytes) OBVIOUS
  <2>2. IsInjective(<<>>) BY DEF IsInjective
  <2> QED BY <2>1, <2>2 DEF NamesOf, IsTable
<1>2. /\ DOMAIN u = DOMAIN t \cup {k} /\ u[k] = Append(s, n)
      /\ \A x \in DOMAIN t : x # k => u[x] = t[x]
  BY DEF WithName
<1>3. /\ Append(s, n) \in Seq(Bytes) /\ IsInjective(Append(s, n))
      /\ Range(Append(s, n)) = Range(s) \cup {n}
  BY <1>1, AppendNew
<1>4. k \in DOMAIN t => t[k] = s BY DEF NamesOf
<1>5. k \notin DOMAIN t => Range(s) = {}
  <2>1. Range(<<>>) = {} BY DEF Range
  <2> QED BY <2>1 DEF NamesOf
<1> HIDE DEF s, u
<1>6. IsTable(u) BY <1>2, <1>3 DEF IsTable
<1>7. ASSUME NEW v PROVE v \in Pairs(u) <=> v \in Pairs(t) \cup {<<k, n>>}
  <2>0. \A w : v \in Pairs(w) <=> \E x \in DOMAIN w : \E y \in Range(w[x]) : v = <<x, y>>
    BY PairIn
  <2>1. ASSUME v \in Pairs(u) PROVE v \in Pairs(t) \cup {<<k, n>>}
    <3>1. PICK x \in DOMAIN u : \E y \in Range(u[x]) : v = <<x, y>> BY <2>0, <2>1
    <3>2. PICK y \in Range(u[x]) : v = <<x, y>> BY <3>1
    <3>3. CASE x # k
      <4>1. x \in DOMAIN t /\ y \in Range(t[x]) BY <1>2, <3>2, <3>3
      <4> QED BY <2>0, <3>2, <4>1
    <3>4. CASE x = k
      <4>1. y \in Range(s) \cup {n} BY <1>2, <1>3, <3>2, <3>4
      <4>2. CASE y = n BY <3>2, <3>4, <4>2
      <4>3. CASE y \in Range(s)
        <5>1. k \in DOMAIN t /\ y \in Range(t[k]) BY <1>4, <1>5, <4>3
        <5> QED BY <2>0, <3>2, <3>4, <5>1
      <4> QED BY <4>1, <4>2, <4>3
    <3> QED BY <3>3, <3>4
  <2>2. ASSUME v \in Pairs(t) PROVE v \in Pairs(u)
    <3>1. PICK x \in DOMAIN t : \E y \in Range(t[x]) : v = <<x, y>> BY <2>0, <2>2
    <3>2. PICK y \in Range(t[x]) : v = <<x, y>> BY <3>1
    <3>3. x \in DOMAIN u /\ y \in Range(u[x]) BY <1>2, <1>3, <1>4, <3>2
    <3> QED BY <2>0, <3>2, <3>3
  <2>3. ASSUME v = <<k, n>> PROVE v \in Pairs(u)
    <3>1. k \in DOMAIN u /\ n \in Range(u[k]) BY <1>2, <1>3
    <3> QED BY <2>0, <2>3, <3>1
  <2> QED BY <2>1, <2>2, <2>3
<1>8. Pairs(u) = Pairs(t) \cup {<<k, n>>} BY <1>7
<1> QED BY <1>6, <1>8 DEF u

(* A record adds its name to its address, once, if it has one.             *)
LEMMA RecordRecordAdds ==
    ASSUME NEW t, IsTable(t), NEW rr \in Items
    PROVE  /\ IsTable(RecordRecord(t, rr))
           /\ Pairs(RecordRecord(t, rr))
                 = Pairs(t) \cup (IF IsAddress(rr) THEN {<<IpKey(rr), rr.name>>} ELSE {})
<1> DEFINE k == IpKey(rr)
           n == rr.name
<1>1. n \in Bytes BY DEF Items
<1> HIDE DEF k
<1>2. CASE ~IsAddress(rr) BY <1>2 DEF RecordRecord
<1>3. CASE IsAddress(rr) /\ n \in Range(NamesOf(t, k))
  <2>1. RecordRecord(t, rr) = t BY <1>3 DEF RecordRecord, k
  <2>2. <<k, n>> \in Pairs(t)
    <3>1. k \in DOMAIN t /\ n \in Range(t[k])
      <4>1. Range(<<>>) = {} BY DEF Range
      <4> QED BY <1>3, <4>1 DEF NamesOf
    <3> QED BY <3>1, PairIn
  <2> QED BY <1>3, <2>1, <2>2 DEF k
<1>4. CASE IsAddress(rr) /\ n \notin Range(NamesOf(t, k))
  <2>1. RecordRecord(t, rr) = WithName(t, k, n) BY <1>4 DEF RecordRecord, k
  <2>2. IsTable(WithName(t, k, n)) /\ Pairs(WithName(t, k, n)) = Pairs(t) \cup {<<k, n>>}
    BY <1>1, <1>4, WithNameAdds
  <2> QED BY <1>4, <2>1, <2>2 DEF k
<1> QED BY <1>2, <1>3, <1>4

(* One turn of record's loop, and the table after k of them.               *)
Recorded(t, items, k) ==
    IF items[k].section \in {"answers", "additional"} THEN RecordRecord(t, items[k]) ELSE t
IsRun(table, items, n, g) ==
    g = [k \in 0 .. n |-> IF k = 0 THEN table ELSE Recorded(g[k - 1], items, k)]

(* The loop of record is well defined.                                     *)
LEMMA RecordRunExists ==
    ASSUME NEW table, NEW items PROVE \A n \in Nat : \E g : IsRun(table, items, n, g)
<1> DEFINE T == {n \in Nat : ~\E g : IsRun(table, items, n, g)}
<1>1. SUFFICES ASSUME T # {} PROVE FALSE
  BY Zenon
<1>2. PICK n \in T : \A y \in T : n <= y
  <2>1. T \in SUBSET Nat OBVIOUS
  <2> HIDE DEF T
  <2> QED BY <1>1, <2>1, LeastOf
<1>3. n \in Nat /\ ~\E g : IsRun(table, items, n, g) OBVIOUS
<1>4. n # 0
  <2> DEFINE g == [k \in 0 .. 0 |-> table]
  <2>1. IsRun(table, items, 0, g) BY DEF IsRun
  <2> QED BY <1>3, <2>1
<1>5. n - 1 \in Nat /\ ~(n <= n - 1) BY <1>3, <1>4
<1>6. PICK g : IsRun(table, items, n - 1, g) BY <1>2, <1>5
<1> DEFINE h == [k \in 0 .. n |-> IF k = n THEN Recorded(g[n - 1], items, n) ELSE g[k]]
<1>7. \A k \in 0 .. n - 1 : g[k] = (IF k = 0 THEN table ELSE Recorded(g[k - 1], items, k))
  BY <1>6 DEF IsRun
<1>8. \A k \in 0 .. n - 1 : h[k] = g[k] BY <1>5
<1>9. h[n] = Recorded(g[n - 1], items, n) BY <1>3
<1>10. h = [k \in 0 .. n |-> h[k]] OBVIOUS
<1> HIDE DEF h
<1>11. ASSUME NEW k \in 0 .. n PROVE h[k] = (IF k = 0 THEN table ELSE Recorded(h[k - 1], items, k))
  <2>1. CASE k = n
    <3>1. n - 1 \in 0 .. n - 1 BY <1>5
    <3> QED BY <1>4, <1>8, <1>9, <2>1, <3>1
  <2>2. CASE k # n
    <3>1. k \in 0 .. n - 1 /\ (k # 0 => k - 1 \in 0 .. n - 1) BY <1>3, <2>2
    <3> QED BY <1>7, <1>8, <3>1
  <2> QED BY <2>1, <2>2
<1>12. IsRun(table, items, n, h) BY <1>10, <1>11 DEF IsRun
<1> QED BY <1>3, <1>12

(* Record is the table after the last turn.                                *)
LEMMA RecordIs ==
    ASSUME NEW table, NEW m, m.response, m.items \in Seq(Items)
    PROVE  \E g : IsRun(table, m.items, Len(m.items), g) /\ Record(table, m) = g[Len(m.items)]
<1> DEFINE n == Len(m.items)
           g == CHOOSE x : IsRun(table, m.items, n, x)
<1>1. n \in Nat BY LenProperties
<1>2. \E x : IsRun(table, m.items, n, x) BY <1>1, RecordRunExists
<1>3. Record(table, m) = g[n] BY DEF Record, IsRun, Recorded
<1>4. IsRun(table, m.items, n, g) BY <1>2
<1> QED BY <1>3, <1>4

(* One more item.                                                          *)
LEMMA SaidNext ==
    ASSUME NEW items, NEW k \in Nat, k > 0
    PROVE  Said(items, k) = Said(items, k - 1)
              \cup (IF Says(items[k]) THEN {<<IpKey(items[k]), items[k].name>>} ELSE {})
<1>1. 1 .. k = (1 .. k - 1) \cup {k} BY SMT
<1> HIDE DEF Says
<1> QED BY <1>1, Zenon DEF Said

(* After k turns the table has what the first k items say.                 *)
LEMMA RunAdds ==
    ASSUME NEW table, IsTable(table), NEW items \in Seq(Items), NEW g,
           IsRun(table, items, Len(items), g)
    PROVE  \A k \in 0 .. Len(items) : IsTable(g[k]) /\ Pairs(g[k]) = Pairs(table) \cup Said(items, k)
<1> DEFINE Good(k) == IsTable(g[k]) /\ Pairs(g[k]) = Pairs(table) \cup Said(items, k)
           T == {k \in 0 .. Len(items) : ~Good(k)}
<1>0. Len(items) \in Nat BY LenProperties
<1>1. SUFFICES ASSUME T # {} PROVE FALSE
  BY Zenon
<1>2. PICK k \in T : \A y \in T : k <= y
  <2>1. T \in SUBSET Nat BY <1>0
  <2> HIDE DEF T
  <2> QED BY <1>1, <2>1, LeastOf
<1>3. k \in 0 .. Len(items) /\ ~Good(k) OBVIOUS
<1>4. \A j \in 0 .. Len(items) : g[j] = (IF j = 0 THEN table ELSE Recorded(g[j - 1], items, j))
  BY DEF IsRun
<1>5. k # 0
  <2>1. g[0] = table BY <1>0, <1>4
  <2>2. Said(items, 0) = {} BY DEF Said
  <2>3. Good(0) BY <2>1, <2>2
  <2> QED BY <1>3, <2>3
<1>6. k - 1 \in 0 .. Len(items) /\ ~(k <= k - 1) /\ k \in Nat /\ k > 0 /\ k \in 1 .. Len(items)
  BY <1>0, <1>3, <1>5
<1>7. Good(k - 1) BY <1>2, <1>6
<1>8. g[k] = Recorded(g[k - 1], items, k) BY <1>3, <1>4, <1>5
<1> DEFINE t == g[k - 1]
           rr == items[k]
           added == IF Says(rr) THEN {<<IpKey(rr), rr.name>>} ELSE {}
<1>9. rr \in Items BY <1>6, ElementOfSeq
<1> HIDE DEF t, rr
<1>10. IsTable(Recorded(t, items, k)) /\ Pairs(Recorded(t, items, k)) = Pairs(t) \cup added
  <2>1. /\ IsTable(RecordRecord(t, rr))
        /\ Pairs(RecordRecord(t, rr)) = Pairs(t) \cup (IF IsAddress(rr) THEN {<<IpKey(rr), rr.name>>} ELSE {})
    BY <1>7, <1>9, RecordRecordAdds DEF t
  <2>2. CASE rr.section \in {"answers", "additional"}
    <3>1. Recorded(t, items, k) = RecordRecord(t, rr) BY <2>2 DEF Recorded, rr
    <3>2. Says(rr) <=> IsAddress(rr) BY <2>2 DEF Says
    <3> QED BY <2>1, <3>1, <3>2
  <2>3. CASE rr.section \notin {"answers", "additional"}
    <3>1. Recorded(t, items, k) = t BY <2>3 DEF Recorded, rr
    <3>2. ~Says(rr) BY <2>3 DEF Says
    <3> QED BY <1>7, <3>1, <3>2 DEF t
  <2> QED BY <2>2, <2>3
<1>11. Said(items, k) = Said(items, k - 1) \cup added BY <1>6, SaidNext DEF rr
<1>12. Good(k) BY <1>7, <1>8, <1>10, <1>11 DEF t
<1> QED BY <1>3, <1>12

(* What record adds to the table.                                          *)
LEMMA RecordAdds ==
    ASSUME NEW table, IsTable(table), NEW m \in Messages
    PROVE  /\ IsTable(Record(table, m))
           /\ Pairs(Record(table, m))
                 = Pairs(table) \cup (IF m.response THEN Said(m.items, Len(m.items)) ELSE {})
<1>1. m.items \in Seq(Items) /\ m.response \in BOOLEAN BY DEF Messages
<1>2. CASE ~m.response
  <2>1. Record(table, m) = table BY <1>2 DEF Record
  <2> QED BY <1>2, <2>1
<1>3. CASE m.response
  <2>1. PICK g : IsRun(table, m.items, Len(m.items), g) /\ Record(table, m) = g[Len(m.items)]
    BY <1>1, <1>3, RecordIs
  <2>2. Len(m.items) \in 0 .. Len(m.items)
    <3>1. Len(m.items) \in Nat BY <1>1, LenProperties
    <3> QED BY <3>1
  <2>3. /\ IsTable(g[Len(m.items)])
        /\ Pairs(g[Len(m.items)]) = Pairs(table) \cup Said(m.items, Len(m.items))
    BY <1>1, <2>1, <2>2, RunAdds
  <2> QED BY <1>3, <2>1, <2>3
<1> QED BY <1>1, <1>2, <1>3

(* What the listed messages say.                                           *)
SaidBy(msgs) == UNION {Said(m.items, Len(m.items)) : m \in {x \in msgs : x.response}}

(* Message by message, they say what Stated collects.                      *)
LEMMA StatedIs == Spans => Stated = SaidBy(Range(app.dns_messages))
<1> SUFFICES ASSUME Spans PROVE Stated = SaidBy(Range(app.dns_messages))
  OBVIOUS
<1> DEFINE R == Range(app.dns_messages)
           Q == {x \in R : x.response}
<1>1. app.dns_messages \in Seq(Messages) BY DEF Spans, Apps
<1>2. R \in SUBSET Messages BY <1>1, RangeOfSeq
<1>3. \A m \in Q : m.items \in Seq(Items) BY <1>2 DEF Messages
<1> HIDE DEF R
<1>4. \A m \in Q : Said(m.items, Len(m.items)) = {<<IpKey(rr), rr.name>> : rr \in {r \in Range(m.items) : Says(r)}}
  <2> SUFFICES ASSUME NEW m \in Q
               PROVE  Said(m.items, Len(m.items))
                         = {<<IpKey(rr), rr.name>> : rr \in {r \in Range(m.items) : Says(r)}}
    OBVIOUS
  <2>1. DOMAIN m.items = 1 .. Len(m.items) BY <1>3, LenProperties
  <2>2. Range(m.items) = {m.items[i] : i \in 1 .. Len(m.items)} BY <2>1 DEF Range
  <2> DEFINE s == m.items
             n == Len(m.items)
  <2> HIDE DEF s, n
  <2>3. Range(s) = {s[i] : i \in 1 .. n} BY <2>2 DEF s, n
  <2>4. Said(s, n) = {<<IpKey(rr), rr.name>> : rr \in {r \in Range(s) : Says(r)}}
    BY <2>3 DEF Said
  <2> QED BY <2>4 DEF s, n
<1>5. Stated = {<<IpKey(rr), rr.name>> : rr \in {r \in UNION {Range(m.items) : m \in Q} : Says(r)}}
  BY DEF Stated, Says, R
<1>6. SaidBy(R) = UNION {Said(m.items, Len(m.items)) : m \in Q} BY DEF SaidBy
<1> HIDE DEF Q
<1>7. SaidBy(R) = {<<IpKey(rr), rr.name>> : rr \in {r \in UNION {Range(m.items) : m \in Q} : Says(r)}}
  BY <1>4, <1>6
<1> QED BY <1>5, <1>7 DEF R

(* The table has what the listed messages say, each name once.             *)
TInv == IsTable(domains) /\ Pairs(domains) = SaidBy(Range(app.dns_messages))

(* A message that failed is not in the list, and left nothing in the table.*)
LEMMA FailTable == ASSUME Spans, TInv, Fail PROVE TInv'
<1>1. app'.dns_messages = app.dns_messages /\ domains' = domains
  BY DEF Fail, Leave, Spans, Apps
<1> QED BY <1>1 DEF TInv

(* A message that is whole is listed, and its records are in the table.    *)
LEMMA NextItemTable == ASSUME Spans, TInv, NEW at, NEW items \in Seq(Items), NextItem(at, items) PROVE TInv'
<1> DEFINE m == [response |-> Header.response, items |-> items, base |-> base]
           s == app.dns_messages
<1>1. CASE Len(items) = Count
  <2>1. app' = [app EXCEPT !.dns_messages = Append(@, m)] /\ domains' = Record(domains, m)
    BY <1>1 DEF NextItem, Leave
  <2>2. m \in Messages BY HeaderType DEF Messages, Spans
  <2> HIDE DEF m
  <2>3. s \in Seq(Messages) BY DEF Spans, Apps
  <2>4. app'.dns_messages = Append(s, m) BY <2>1 DEF Spans, Apps
  <2>5. Range(Append(s, m)) = Range(s) \cup {m}
    <3>1. /\ Append(s, m) \in Seq(Messages) /\ Len(Append(s, m)) = Len(s) + 1 /\ Len(s) \in Nat
          /\ \A i \in 1 .. Len(s) : Append(s, m)[i] = s[i]
          /\ Append(s, m)[Len(s) + 1] = m
      BY <2>2, <2>3, AppendProperties, LenProperties
    <3>2. DOMAIN s = 1 .. Len(s) /\ DOMAIN Append(s, m) = 1 .. Len(s) + 1
      BY <2>3, <3>1, LenProperties
    <3>3. 1 .. Len(s) + 1 = (1 .. Len(s)) \cup {Len(s) + 1} BY <3>1
    <3> DEFINE r == Append(s, m)
    <3> HIDE DEF r, s
    <3> QED BY <3>1, <3>2, <3>3 DEF Range, r
  <2> DEFINE said == IF m.response THEN Said(m.items, Len(m.items)) ELSE {}
  <2>6. IsTable(domains') /\ Pairs(domains') = Pairs(domains) \cup said
    BY <2>1, <2>2, RecordAdds DEF TInv
  <2>7. SaidBy(Range(s) \cup {m}) = SaidBy(Range(s)) \cup said
    <3> DEFINE R == Range(s)
    <3> HIDE DEF R
    <3>1. m.response \in BOOLEAN BY <2>2 DEF Messages
    <3>2. CASE m.response
      <4>1. {x \in R \cup {m} : x.response} = {x \in R : x.response} \cup {m} BY <3>2
      <4> QED BY <3>2, <4>1 DEF SaidBy, R
    <3>3. CASE ~m.response
      <4>1. {x \in R \cup {m} : x.response} = {x \in R : x.response} BY <3>3
      <4> QED BY <3>3, <4>1 DEF SaidBy, R
    <3> QED BY <3>1, <3>2, <3>3
  <2> HIDE DEF said, s
  <2>8. Range(app'.dns_messages) = Range(s) \cup {m} BY <2>4, <2>5
  <2> QED BY <2>6, <2>7, <2>8 DEF TInv, s
<1>2. CASE Len(items) # Count
  <2>1. UNCHANGED <<app, domains>> BY <1>2 DEF NextItem
  <2> QED BY <2>1 DEF TInv
<1> QED BY <1>1, <1>2

(* Every step keeps the table and the list of messages in agreement.       *)
LEMMA NextTable == BInv /\ TInv /\ [Next]_vars => TInv'
<1> SUFFICES ASSUME BInv, TInv, [Next]_vars PROVE TInv'
  OBVIOUS
<1>1. CASE UNCHANGED <<app, domains>> BY <1>1 DEF TInv
<1>2. CASE Parse
  <2>1. Spans BY Found
  <2>2. CASE GoesOn /\ UNCHANGED domains BY <1>1, <2>2 DEF GoesOn
  <2> QED BY <1>2, <2>1, <2>2, ParseStep, FailTable, NextItemTable
<1>3. CASE Datagram \/ Segment \/ Frame BY <1>1, <1>3 DEF Datagram, Segment, Frame
<1> QED BY <1>1, <1>2, <1>3 DEF Next, vars

-----------------------------------------------------------------------------
(* Theorems                                                                *)

(* The message being parsed lies in what has arrived, nothing is consumed  *)
(* before it arrived, and a name keeps to its limits of jumps and octets   *)
(* (parseName).                                                            *)
THEOREM TypeCorrect == Spec => []TypeOK
<1>1. BInv => TypeOK
  <2> SUFFICES ASSUME BInv PROVE TypeOK
    OBVIOUS
  <2>1. Spans /\ dns \in Parsed /\ app \in Apps BY DEF BInv, Spans
  <2>2. /\ dns.jumps \in 0 .. MaxDnsCompressionJumps /\ dns.octets \in 0 .. MaxDnsNameOctets
        /\ app.decode_failures \in Nat
    BY <2>1 DEF Parsed, Apps
  <2> QED BY <2>1, <2>2 DEF Spans, TypeOK
<1> QED BY <1>1, AlwaysBounds, PTL

(* dns::parse reads nothing outside its message, wherever names point and  *)
(* whatever lengths and counts say, for every sequence of bytes.           *)
THEOREM ReadsAreInBounds == Spec => []ReadsInBounds
<1>1. BInv => ReadsInBounds BY DEF BInv
<1> QED BY <1>1, AlwaysBounds, PTL

(* However segments cut the stream, every message is taken whole and once: *)
(* pollStream and pollDatagram consume up to a message's end, count each   *)
(* message as decoded or as failed, and leave no whole one waiting.        *)
THEOREM FramingIsExact == Spec => []FramingExact
<1>1. BInv /\ FInv => FramingExact
  BY DEF FInv, Counted, NoneWaits, Handled, Total, FramingExact
<1> QED BY <1>1, AlwaysFramed, PTL

(* However labels and pointers are laid out, a name that parseName accepts *)
(* is the one they spell, and the message is read on right after it.       *)
THEOREM NamesAreExact == Spec => []NameExact
<1>1. Init => NInv BY DEF Init, NInv
<1>2. BInv /\ NInv /\ [Next]_vars => (BInv /\ NInv)' BY NextReads, NextBounds
<1>3. BInv /\ NInv => NameExact BY DEF NInv, NameExact, Read
<1> QED BY <1>1, <1>2, <1>3, InitBounds, PTL DEF Spec

(* The table of resolved names has every address record that an accepted   *)
(* response brought, once, and none from a query or from a message that    *)
(* failed after the record was read (DnsTable::record).                    *)
THEOREM TableAgreesWithMessages == Spec => []TableAgrees
<1>1. Init => TInv
  <2> SUFFICES ASSUME Init PROVE TInv
    OBVIOUS
  <2>1. domains = <<>> /\ app.dns_messages = <<>> BY DEF Init
  <2>2. DOMAIN domains = {} BY <2>1
  <2>3. Range(app.dns_messages) = {} BY <2>1 DEF Range
  <2>4. IsTable(domains) /\ Pairs(domains) = {} BY <2>2 DEF IsTable, Pairs
  <2>5. SaidBy({}) = {} BY DEF SaidBy
  <2> QED BY <2>3, <2>4, <2>5 DEF TInv
<1>2. BInv /\ TInv /\ [Next]_vars => (BInv /\ TInv)' BY NextTable, NextBounds
<1>3. BInv /\ TInv => TableAgrees
  BY StatedIs DEF BInv, TInv, TableAgrees, IsTable, Pairs
<1> QED BY <1>1, <1>2, <1>3, InitBounds, PTL DEF Spec
=============================================================================
