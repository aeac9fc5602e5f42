----------------------------- MODULE DnsMessages -----------------------------
(***************************************************************************)
(* The DNS messages of one direction of a flow: pollStream's framing over  *)
(* TCP or pollDatagram, dns::parse with the decompression of names, and    *)
(* DnsTable::record.                                                       *)
(*                                                                         *)
(* Bytes are numbers.  A message's header has one byte for each field that *)
(* is looked at (flags, and the four counts); the fixed part of a question *)
(* or a record starts with its type and a record's ends with rdlength.     *)
(* These lengths, and the limits on names, are parameters, so that short   *)
(* messages reach them.  Offsets count from 0, from the flow's first byte. *)
(*                                                                         *)
(* A turn of parseName's loop is a step, and so is each fixed part.        *)
(***************************************************************************)
EXTENDS Integers, Sequences, SequencesExt, FiniteSetsExt

CONSTANTS
    Flows,                      \* a direction's bytes, and where its messages lie
    HEADER_LEN, QUESTION_HEADER_LEN, RESOURCE_HEADER_LEN,
    MaxDnsCompressionJumps, MaxDnsNameOctets,
    IPV4_LEN, IPV6_LEN          \* rdata sizes of TYPE_A and TYPE_AAAA

TYPE_A    == 1
TYPE_AAAA == 28
DOT       == 46
PREFIX    == 2

(* Messages lie one after another from the front of the bytes to their     *)
(* end, over TCP each behind its length.                                   *)
LaidOut(f) ==
    LET msgs == Range(f.msgs)
    IN  /\ \A p \in {0} \cup {m.to : m \in msgs} :
              p < Len(f.bytes) => \E m \in msgs : m.from = p /\ m.to > p
        /\ \A m, n \in msgs : m.from < m.to /\ n.from < n.to =>
              m = n \/ m.to <= n.from \/ n.to <= m.from
        /\ f.tcp => \A m \in msgs :
              /\ m.from + PREFIX <= m.to
              /\ m.to = m.from + PREFIX + (f.bytes[m.from + 1] * 256 + f.bytes[m.from + 2])

ASSUME DnsAssumption ==
    /\ HEADER_LEN \in Nat /\ QUESTION_HEADER_LEN \in Nat /\ RESOURCE_HEADER_LEN \in Nat
    /\ HEADER_LEN >= 5 /\ QUESTION_HEADER_LEN >= 1 /\ RESOURCE_HEADER_LEN >= 2
    /\ MaxDnsCompressionJumps \in Nat /\ MaxDnsNameOctets \in Nat
    /\ IPV4_LEN # IPV6_LEN

ASSUME FlowsAssumption ==
    \A f \in Flows :
       /\ f.tcp \in BOOLEAN /\ f.bytes \in Seq(0 .. 255)
       /\ f.msgs \in Seq([from : Nat, to : 0 .. Len(f.bytes), sound : BOOLEAN,
                          names : Seq(Seq(0 .. 255))])
       /\ LaidOut(f)

VARIABLES
    flow,       \* what the direction carries
    arrived,    \* bytes captured so far
    pos,        \* bytes consumed
    pc,         \* "idle", "frame", "header", "name" or "fixed"
    base, end,  \* the message being parsed: dns_base and dns_end
    dns,        \* the locals of parse and parseName
    app,        \* the Applications: dns_messages, decode_failures
    domains,    \* DnsTable::domains_by_ip_
    touched     \* offsets the last step read: from, up to but not to

vars == <<flow, arrived, pos, pc, base, end, dns, app, domains, touched>>

-----------------------------------------------------------------------------
(* Past the captured bytes lies other memory; nothing reads there.         *)
Byte(i) == IF i < Len(flow.bytes) THEN flow.bytes[i + 1] ELSE 0

Slice(from, n) == [i \in 1 .. n |-> Byte(from + i - 1)]

NotParsing == [at |-> 0, cur |-> 0, jumps |-> 0, octets |-> 0, ceiling |-> -1,
               name |-> <<>>, start |-> 0, items |-> <<>>]

Nothing == <<0, 0>>

Init ==
    /\ flow \in Flows
    /\ arrived = 0 /\ pos = 0 /\ pc = "idle" /\ base = 0 /\ end = 0
    /\ dns = NotParsing
    /\ app = [dns_messages |-> <<>>, decode_failures |-> 0]
    /\ domains = << >>
    /\ touched = Nothing

-----------------------------------------------------------------------------
(* DnsTable                                                                *)

IsAddress(rr) == \/ rr.type = TYPE_A /\ Len(rr.rdata) = IPV4_LEN
                 \/ rr.type = TYPE_AAAA /\ Len(rr.rdata) = IPV6_LEN

IpKey(rr) == [isIpv4 |-> rr.type = TYPE_A, ip |-> rr.rdata]

(* The names an address has, and the table with one more.                  *)
NamesOf(table, k) == IF k \in DOMAIN table THEN table[k] ELSE <<>>
WithName(table, k, name) ==
    [x \in DOMAIN table \cup {k} |-> IF x = k THEN Append(NamesOf(table, k), name) ELSE table[x]]

(* Fault: a name is added again each time it is seen.                      *)
RecordRecordAgain(table, rr) ==
    IF ~IsAddress(rr) THEN table ELSE WithName(table, IpKey(rr), rr.name)

(* The table after one record.                                             *)
RecordRecord(table, rr) ==
    IF ~IsAddress(rr) \/ rr.name \in Range(NamesOf(table, IpKey(rr))) THEN table
    ELSE WithName(table, IpKey(rr), rr.name)

(* record: the answers and then the additional records of a response, in   *)
(* the order in which they stand.                                          *)
Record(table, m) ==
    LET t[k \in 0 .. Len(m.items)] ==
           IF k = 0 THEN table
           ELSE IF m.items[k].section \in {"answers", "additional"}
                THEN RecordRecord(t[k - 1], m.items[k]) ELSE t[k - 1]
    IN  IF m.response THEN t[Len(m.items)] ELSE table

-----------------------------------------------------------------------------
(* How a message ends: it is consumed, and over TCP the next is looked for.*)

(* Fault: the length in front is not consumed.                             *)
LeaveWithoutPrefix(a, t) ==
    /\ app' = a /\ domains' = t
    /\ pos' = pos + (end - base)
    /\ pc' = IF flow.tcp THEN "frame" ELSE "idle"
    /\ dns' = NotParsing
    /\ UNCHANGED <<flow, arrived, base, end>>

Leave(a, t) ==
    /\ app' = a /\ domains' = t
    /\ pos' = end
    /\ pc' = IF flow.tcp THEN "frame" ELSE "idle"
    /\ dns' = NotParsing
    /\ UNCHANGED <<flow, arrived, base, end>>

Fail == Leave([app EXCEPT !.decode_failures = @ + 1], domains)

Header == [response |-> Byte(base) > 0, qdcount |-> Byte(base + 1), ancount |-> Byte(base + 2),
           nscount |-> Byte(base + 3), arcount |-> Byte(base + 4)]

(* Which list the k-th question or record belongs to.                      *)
Section(k) ==
    LET h == Header
    IN  CASE k <= h.qdcount -> "questions"
          [] k > h.qdcount /\ k <= h.qdcount + h.ancount -> "answers"
          [] k > h.qdcount + h.ancount /\ k <= h.qdcount + h.ancount + h.nscount -> "authority"
          [] OTHER -> "additional"

Count == Header.qdcount + Header.ancount + Header.nscount + Header.arcount

(* On to the next name at offset at, or the message is whole.              *)
NextItem(at, items) ==
    IF Len(items) = Count
    THEN LET m == [response |-> Header.response, items |-> items, base |-> base]
         IN  Leave([app EXCEPT !.dns_messages = Append(@, m)], Record(domains, m))
    ELSE /\ dns' = [NotParsing EXCEPT !.at = at, !.cur = at, !.start = at, !.items = items]
         /\ pc' = "name"
         /\ UNCHANGED <<flow, arrived, pos, base, end, app, domains>>

-----------------------------------------------------------------------------
(* parse: the header                                                       *)

MinBytes == Header.qdcount * (1 + QUESTION_HEADER_LEN)
            + (Header.ancount + Header.nscount + Header.arcount) * (1 + RESOURCE_HEADER_LEN)

ParseHeader ==
    LET short == end - base < HEADER_LEN
    IN  /\ pc = "header"
        /\ touched' = IF short THEN <<base, base>> ELSE <<base, base + HEADER_LEN>>
        /\ IF short \/ end - base - HEADER_LEN < MinBytes THEN Fail
           ELSE NextItem(base + HEADER_LEN, <<>>)

-----------------------------------------------------------------------------
(* parseName: one turn of the loop                                         *)

NameGoesOn(d) ==
    /\ dns' = d
    /\ UNCHANGED <<flow, arrived, pos, pc, base, end, app, domains>>

(* Fault: the span is moved to the end of the text pointed to.             *)
NameEndMoves ==
    /\ pc = "name" /\ dns.cur < end /\ Byte(dns.cur) = 0
    /\ touched' = <<dns.cur, dns.cur + 1>>
    /\ dns' = [dns EXCEPT !.at = dns.cur + 1]
    /\ pc' = "fixed"
    /\ UNCHANGED <<flow, arrived, pos, base, end, app, domains>>

(* The root: the span goes on after it, unless a pointer led here.         *)
NameEnd ==
    /\ pc = "name" /\ dns.cur < end /\ Byte(dns.cur) = 0
    /\ touched' = <<dns.cur, dns.cur + 1>>
    /\ dns' = [dns EXCEPT !.at = IF dns.jumps = 0 THEN dns.cur + 1 ELSE @]
    /\ pc' = "fixed"
    /\ UNCHANGED <<flow, arrived, pos, base, end, app, domains>>

Target(cur) == (Byte(cur) - 192) * 256 + Byte(cur + 1)

(* Fault: one jump fewer is allowed.                                       *)
PointerAllowedFewer(target) ==
    /\ dns.jumps + 1 < MaxDnsCompressionJumps
    /\ target < (IF dns.jumps = 0 THEN dns.cur - base ELSE dns.ceiling)

(* Fault: one jump more is allowed.                                        *)
PointerAllowedMore(target) ==
    /\ dns.jumps <= MaxDnsCompressionJumps
    /\ target < (IF dns.jumps = 0 THEN dns.cur - base ELSE dns.ceiling)

(* A pointer goes back, each time further than before, a few times only.   *)
PointerAllowed(target) ==
    /\ dns.jumps + 1 <= MaxDnsCompressionJumps
    /\ target < (IF dns.jumps = 0 THEN dns.cur - base ELSE dns.ceiling)

NamePointer ==
    LET target == Target(dns.cur)
        cut    == dns.cur + 1 >= end
    IN  /\ pc = "name" /\ dns.cur < end /\ Byte(dns.cur) >= 192
        /\ touched' = <<dns.cur, dns.cur + (IF cut THEN 1 ELSE 2)>>
        /\ IF ~cut /\ PointerAllowed(target)
           THEN NameGoesOn([dns EXCEPT !.jumps = @ + 1,
                                       !.at = IF dns.jumps = 0 THEN dns.cur + 2 ELSE @,
                                       !.ceiling = target,
                                       !.cur = base + target])
           ELSE Fail

(* Fault: the length byte is not counted when looking for the end.         *)
LabelFitsOneMore(len) == dns.cur + len <= end

LabelFits(len) == dns.cur + 1 + len <= end

NameLabel ==
    LET len == Byte(dns.cur)
        fits == LabelFits(len) /\ dns.octets + len + 1 <= MaxDnsNameOctets
        dot == IF dns.name = <<>> THEN <<>> ELSE <<DOT>>
    IN  /\ pc = "name" /\ dns.cur < end /\ len \in 1 .. 63
        /\ touched' = <<dns.cur, dns.cur + 1 + (IF fits THEN len ELSE 0)>>
        /\ IF fits
           THEN NameGoesOn([dns EXCEPT !.octets = @ + len + 1,
                                       !.name = @ \o dot \o Slice(dns.cur + 1, len),
                                       !.cur = @ + 1 + len])
           ELSE Fail

(* Reserved top bits, or the end of the message in a name.                 *)
NameRefused ==
    /\ pc = "name"
    /\ dns.cur < end => Byte(dns.cur) \in 64 .. 191
    /\ touched' = <<dns.cur, IF dns.cur < end THEN dns.cur + 1 ELSE dns.cur>>
    /\ Fail

-----------------------------------------------------------------------------
(* parseQuestion, parseResourceRecord: after the name                      *)

Item(section, rdata) ==
    [section |-> section, name |-> dns.name, type |-> Byte(dns.at), rdata |-> rdata]

Question ==
    LET fits == end - dns.at >= QUESTION_HEADER_LEN
    IN  /\ pc = "fixed" /\ Section(Len(dns.items) + 1) = "questions"
        /\ touched' = <<dns.at, dns.at + (IF fits THEN QUESTION_HEADER_LEN ELSE 0)>>
        /\ IF fits THEN NextItem(dns.at + QUESTION_HEADER_LEN,
                                 Append(dns.items, Item("questions", <<>>)))
           ELSE Fail

ResourceRecord ==
    LET section  == Section(Len(dns.items) + 1)
        data     == dns.at + RESOURCE_HEADER_LEN
        fits     == data <= end
        rdlength == Byte(data - 1)
        whole    == fits /\ end - data >= rdlength
    IN  /\ pc = "fixed" /\ section # "questions"
        /\ touched' = <<dns.at, IF whole THEN data + rdlength ELSE IF fits THEN data ELSE dns.at>>
        /\ IF whole
           THEN NextItem(data + rdlength,
                         Append(dns.items, Item(section, Slice(data, rdlength))))
           ELSE Fail

-----------------------------------------------------------------------------
(* The flow                                                                *)

(* pollDatagram; an empty datagram is left alone.                          *)
Datagram ==
    /\ pc = "idle" /\ ~flow.tcp
    /\ \E m \in Range(flow.msgs) :
          /\ m.from = arrived /\ m.to > m.from
          /\ arrived' = m.to /\ base' = m.from /\ end' = m.to
    /\ pc' = "header"
    /\ touched' = Nothing
    /\ UNCHANGED <<flow, pos, dns, app, domains>>

(* A segment brings more of the stream, and it is polled.                  *)
Segment ==
    /\ pc = "idle" /\ flow.tcp
    /\ arrived' \in arrived + 1 .. Len(flow.bytes)
    /\ pc' = "frame"
    /\ touched' = Nothing
    /\ UNCHANGED <<flow, pos, base, end, dns, app, domains>>

(* pollStream: the next message, if all of it is there.                    *)
Frame ==
    LET msg_len == Byte(pos) * 256 + Byte(pos + 1)
        there   == arrived - pos >= PREFIX /\ arrived - pos >= PREFIX + msg_len
    IN  /\ pc = "frame"
        /\ pc' = IF there THEN "header" ELSE "idle"
        /\ base' = IF there THEN pos + PREFIX ELSE base
        /\ end'  = IF there THEN pos + PREFIX + msg_len ELSE end
        /\ touched' = Nothing
        /\ UNCHANGED <<flow, arrived, pos, dns, app, domains>>

Parse == \/ ParseHeader \/ NameEnd \/ NamePointer \/ NameLabel \/ NameRefused
         \/ Question \/ ResourceRecord

Next == Datagram \/ Segment \/ Frame \/ Parse

Spec == Init /\ [][Next]_vars

-----------------------------------------------------------------------------
(* Properties                                                              *)

(* The message lies in what arrived and the name within its limits.        *)
TypeOK ==
    /\ 0 <= pos /\ pos <= arrived /\ arrived <= Len(flow.bytes)
    /\ pc \in {"idle", "frame", "header", "name", "fixed"}
    /\ 0 <= base /\ base <= end /\ end <= arrived
    /\ dns.jumps \in 0 .. MaxDnsCompressionJumps
    /\ dns.octets \in 0 .. MaxDnsNameOctets
    /\ app.decode_failures \in Nat

(* dns::parse reads nothing outside the message, wherever names point and  *)
(* whatever lengths and counts say.                                        *)
ReadsInBounds == touched[1] = touched[2] \/ (base <= touched[1] /\ touched[2] <= end)

(* Two parts of a name, with a dot between them if both are there.         *)
Broken == <<-1>>
Joined(l, rest) == IF rest = Broken THEN Broken
                   ELSE IF rest = <<>> THEN l
                   ELSE IF l = <<>> THEN rest ELSE l \o <<DOT>> \o rest

(* What a name at offset p of the message from b to e means, following at  *)
(* most n pointers: its labels; Broken when it has no meaning.             *)
Expansion(b, e) ==
    LET f[x \in (0 .. MaxDnsCompressionJumps) \X (b .. e + 64)] ==
           LET n == x[1]
               p == x[2]
           IN  IF p >= e THEN Broken
               ELSE IF Byte(p) = 0 THEN <<>>
               ELSE IF Byte(p) >= 192
                    THEN IF n > 0 /\ p + 1 < e /\ b + Target(p) < p
                         THEN f[<<n - 1, b + Target(p)>>] ELSE Broken
               ELSE IF Byte(p) < 64 /\ p + Byte(p) < e
                    THEN Joined(Slice(p + 1, Byte(p)), f[<<n, p + 1 + Byte(p)>>])
               ELSE Broken
    IN  f

(* Where the bytes of a name end in place: after its root or its pointer.  *)
InPlaceEnd(b, e) ==
    LET f[q \in b .. e + 192] ==
           IF q >= e THEN q ELSE IF Byte(q) = 0 THEN q + 1
           ELSE IF Byte(q) >= 192 THEN q + 2 ELSE f[q + 1 + Byte(q)]
    IN  f

(* A name that parseName accepts is the one its bytes and pointers spell,  *)
(* and what follows is read right after it, however far pointers led.      *)
NameExact ==
    pc = "fixed" =>
       /\ dns.name = Expansion(base, end)[<<MaxDnsCompressionJumps, dns.start>>]
       /\ dns.at = InPlaceEnd(base, end)[dns.start]

(* However segments cut the stream, every message is taken whole and once: *)
(* the stream is consumed up to a message's end, each message consumed     *)
(* counts as decoded or as failed, and no whole one is left waiting.       *)
FramingExact ==
    LET handled == {m \in Range(flow.msgs) : m.from < m.to /\ m.to <= pos}
    IN  /\ pc \in {"idle", "frame"} =>
              /\ pos \in {0} \cup {m.to : m \in handled}
              /\ Len(app.dns_messages) + app.decode_failures = Cardinality(handled)
        /\ pc = "idle" => \A m \in Range(flow.msgs) : m.to <= arrived => m.to <= pos

(* A message that is sound as sent is decoded, with the names its sender   *)
(* put in, compressed or not, to the limits; and none other in its place.  *)
SoundDecoded ==
    pc = "idle" =>
       \A m \in Range(flow.msgs) :
          m.sound /\ m.to <= pos =>
             \E d \in Range(app.dns_messages) :
                /\ d.base = m.from + (IF flow.tcp THEN PREFIX ELSE 0)
                /\ [k \in 1 .. Len(d.items) |-> d.items[k].name] = m.names

(* The address records a listed response brought.                          *)
Stated == {<<IpKey(rr), rr.name>> : rr \in
             {r \in UNION {Range(m.items) : m \in {x \in Range(app.dns_messages) : x.response}} :
                 r.section \in {"answers", "additional"} /\ IsAddress(r)}}

(* The table of resolved names agrees with the messages listed: it has     *)
(* every address record that an accepted response brought, once, and none  *)
(* from a query or from a message that failed later on.                    *)
TableAgrees ==
    /\ UNION {{<<k, n>> : n \in Range(domains[k])} : k \in DOMAIN domains} = Stated
    /\ \A k \in DOMAIN domains : IsInjective(domains[k])

=============================================================================
