------------------------ MODULE PacketDecoder_proofs ------------------------
(***************************************************************************)
(* What holds of PacketDecoder for every set of frames, whatever their     *)
(* bytes read as: each parse function stays within the span it was given,  *)
(* the span within the frame, and a packet that is accepted has what a     *)
(* flow key is made from.  And a sound frame is walked header by header:   *)
(* its headers do not overlap, so where one begins that one is read, and   *)
(* nothing but its checksum can make its parse function refuse it.         *)
(***************************************************************************)
EXTENDS PacketDecoder, SequenceTheorems, WellFoundedInduction, TLAPS

-----------------------------------------------------------------------------
(* A parse function as its checks and reads                                *)

ParseErrors == {"None", "UnexpectedEof", "MalformedHeader", "InvalidFieldValue",
                "ChecksumMismatch"}
Steps == [when : BOOLEAN, err : ParseErrors, from : Int, to : Int]

(* No check up to the i-th step refuses.                                   *)
Passed(steps, i) == \A j \in 1 .. i : ~steps[j].when

(* What a parse function has to show: a check that refuses has an error,   *)
(* and a read that comes after checks that passed lies in a span of n      *)
(* bytes.                                                                  *)
Safe(steps, n) ==
    /\ steps \in Seq(Steps)
    /\ \A i \in 1 .. Len(steps) :
          /\ steps[i].when => steps[i].err # "None"
          /\ Passed(steps, i) => 0 <= steps[i].from /\ steps[i].from <= steps[i].to /\ steps[i].to <= n

(* A non-empty set of natural numbers has a least element, and Min is it.  *)
LEMMA LeastNat ==
    ASSUME NEW S \in SUBSET Nat, S # {}
    PROVE  Min(S) \in S /\ \A y \in S : Min(S) <= y
<1>1. PICK x \in S : \A y \in S : ~(<<y, x>> \in OpToRel(<, Nat))
  BY NatLessThanWellFounded, WFMin, Zenon
<1>2. \A y \in S : ~(y < x)
  <2>1. \A a, b \in Nat : a < b => <<a, b>> \in OpToRel(<, Nat) BY DEF OpToRel
  <2> QED BY <1>1, <2>1, Zenon
<1>3. \A y \in S : x <= y BY <1>2
<1> QED BY <1>3 DEF Min

(* Its result: what was read came before the first check that refuses, and *)
(* the error is the one of that check; there is none only when every check *)
(* passed.                                                                 *)
Reported(out, steps, n) ==
    /\ out.err \in ParseErrors
    /\ out.err = "None" => Passed(steps, Len(steps))
    /\ out.err # "None" => \E i \in 1 .. Len(steps) : steps[i].when /\ out.err = steps[i].err
    /\ \A r \in out.reads : 0 <= r.from /\ r.from <= r.to /\ r.to <= n

(* Outcome gives that result of a safe parse function.                     *)
LEMMA SafeOutcome ==
    ASSUME NEW n \in Nat, NEW steps, Safe(steps, n)
    PROVE  Reported(Outcome(steps), steps, n)
<1> DEFINE S == {i \in 1 .. Len(steps) : steps[i].when} \cup {Len(steps) + 1}
           end == Min(S)
           last == Refuse(TRUE, "None")
           all == Append(steps, last)
           out == Outcome(steps)
<1>1. steps \in Seq(Steps) /\ Len(steps) \in Nat BY LenProperties DEF Safe
<1>2. end \in S /\ \A y \in S : end <= y
  <2>1. S \in SUBSET Nat /\ S # {} BY <1>1
  <2> HIDE DEF S
  <2> QED BY <2>1, LeastNat
<1>3. end \in 1 .. Len(steps) + 1 /\ end \in Nat BY <1>1, <1>2
<1>4. out.err = all[end].err /\ out.reads = {[from |-> steps[i].from, to |-> steps[i].to] : i \in 1 .. end - 1}
  BY DEF Outcome
<1>5. \A i \in 1 .. end - 1 : Passed(steps, i) /\ i \in 1 .. Len(steps)
  <2>1. ASSUME NEW i \in 1 .. end - 1, NEW j \in 1 .. i PROVE ~steps[j].when
    <3>1. j \in 1 .. Len(steps) /\ ~(end <= j) BY <1>1, <1>3
    <3> HIDE DEF end
    <3> QED BY <1>2, <3>1
  <2> HIDE DEF end
  <2> QED BY <1>1, <1>3, <2>1 DEF Passed
<1> HIDE DEF end, out
<1>6. \A r \in out.reads : 0 <= r.from /\ r.from <= r.to /\ r.to <= n
  BY <1>4, <1>5 DEF Safe
<1>7. CASE end = Len(steps) + 1
  <2>1. last \in [when : BOOLEAN, err : ParseErrors, from : Int, to : Int]
    BY DEF Refuse, ParseErrors
  <2>2. all[end] = last
    <3> HIDE DEF last
    <3> QED BY <1>1, <1>7, <2>1, AppendProperties DEF Steps
  <2>3. out.err = "None"
    <3>1. last.err = "None" BY DEF Refuse
    <3> HIDE DEF last, all
    <3> QED BY <1>4, <2>2, <3>1
  <2>4. Passed(steps, Len(steps))
    <3>1. ASSUME NEW j \in 1 .. Len(steps) PROVE ~steps[j].when
      <4>1. ~(end <= j) BY <1>1, <1>7
      <4> QED BY <1>2, <4>1
    <3> QED BY <3>1 DEF Passed
  <2> QED BY <1>6, <2>3, <2>4 DEF Reported, ParseErrors, out
<1>8. CASE end \in 1 .. Len(steps)
  <2>1. all[end] = steps[end]
    <3>1. last \in Steps BY DEF Refuse, ParseErrors, Steps
    <3> HIDE DEF last
    <3> QED BY <1>1, <1>8, <3>1, AppendProperties
  <2>2. steps[end].when
    <3>1. end # Len(steps) + 1 BY <1>1, <1>8
    <3> QED BY <1>2, <3>1
  <2>3. steps[end].err # "None" BY <1>8, <2>2 DEF Safe
  <2>4. steps[end] \in Steps BY <1>1, <1>8, ElementOfSeq
  <2>5. out.err = steps[end].err /\ out.err # "None" /\ out.err \in ParseErrors
    BY <1>4, <2>1, <2>3, <2>4 DEF Steps
  <2> QED BY <1>6, <1>8, <2>2, <2>5 DEF Reported, out
<1> QED BY <1>1, <1>3, <1>7, <1>8

-----------------------------------------------------------------------------
(* Every parse function is safe                                            *)

(* A check, and a read of bytes a up to b.                                 *)
IsCheck(s)      == s \in Steps /\ (s.when => s.err # "None") /\ s.from = 0 /\ s.to = 0
IsRead(s, a, b) == s \in Steps /\ ~s.when /\ s.from = a /\ s.to = b

(* Refuse makes a check.                                                   *)
LEMMA RefuseIs ==
    ASSUME NEW w \in BOOLEAN, NEW e \in ParseErrors \ {"None"}, NEW s, s = Refuse(w, e)
    PROVE  IsCheck(s) /\ (s.when <=> w)
<1>1. s = [when |-> w, err |-> e, from |-> 0, to |-> 0] BY DEF Refuse
<1> QED BY <1>1 DEF IsCheck, Steps

(* The errors there are.                                                   *)
LEMMA ErrorNames ==
    /\ "UnexpectedEof" \in ParseErrors \ {"None"} /\ "MalformedHeader" \in ParseErrors \ {"None"}
    /\ "InvalidFieldValue" \in ParseErrors \ {"None"}
    /\ "ChecksumMismatch" \in ParseErrors \ {"None"}
BY DEF ParseErrors

(* Touch makes a read.                                                     *)
LEMMA TouchIs ==
    ASSUME NEW a \in Int, NEW b \in Int, NEW s, s = Touch(a, b)
    PROVE  IsRead(s, a, b)
<1>1. s = [when |-> FALSE, err |-> "None", from |-> a, to |-> b] BY DEF Touch
<1> QED BY <1>1 DEF IsRead, Steps, ParseErrors

(* What the parse functions find.                                          *)
Typed == size \in Nat /\ config.verify_checksum \in BOOLEAN

(* A parse function is safe, and post holds when it returns no error.      *)
ParserSafe(steps, n, post) == Safe(steps, n) /\ (Passed(steps, Len(steps)) => post)

(* ethernet::parse reads its 14 bytes.                                     *)
LEMMA EthernetSafe ==
    ASSUME Typed, NEW h
    PROVE  ParserSafe(EthernetSteps(h), size, 14 <= size)
<1> DEFINE s1 == Refuse(size < 14, "UnexpectedEof")
           s2 == Touch(0, 14)
           s == <<s1, s2>>
<1>0. size \in Nat BY DEF Typed
<1>1. IsCheck(s1) /\ (s1.when <=> (size < 14))
  <2>1. (size < 14) \in BOOLEAN OBVIOUS
  <2> QED BY <2>1, ErrorNames, RefuseIs, Zenon
<1>2. IsRead(s2, 0, 14)
  <2>1. 0 \in Int /\ 14 \in Int BY <1>0
  <2> QED BY <2>1, TouchIs, Zenon
<1>3. EthernetSteps(h) = s BY DEF EthernetSteps
<1> HIDE DEF s1, s2
<1>4. ~s1.when => 14 <= size BY <1>0, <1>1
<1>5. s1 \in Steps /\ s2 \in Steps
  BY <1>1, <1>2 DEF IsCheck, IsRead
<1>6. /\ s \in Seq(Steps) /\ Len(s) = 2
      /\ s[1] = s1 /\ s[2] = s2
  BY <1>5
<1> HIDE DEF s
<1>7. Passed(s, 2) => ~s1.when /\ ~s2.when
  BY <1>6 DEF Passed
<1>8. Passed(s, 2) => 0 <= 0 /\ 0 <= 14 /\ 14 <= size
  BY <1>0, <1>4, <1>7
<1>9. Safe(s, size)
  <2>1. ASSUME NEW i \in 1 .. 2
        PROVE  /\ s[i].when => s[i].err # "None"
               /\ Passed(s, i) => 0 <= s[i].from /\ s[i].from <= s[i].to /\ s[i].to <= size
    <3>1. CASE i = 1 BY <1>0, <1>1, <1>6, <3>1 DEF IsCheck
    <3>2. CASE i = 2 BY <1>2, <1>6, <1>8, <3>2 DEF IsRead
    <3> QED BY <3>1, <3>2
  <2> QED BY <1>6, <2>1 DEF Safe
<1>10. Passed(s, Len(s)) => 14 <= size
  BY <1>0, <1>4, <1>6, <1>7
<1> QED BY <1>3, <1>9, <1>10 DEF ParserSafe

(* vlan::parse reads its 4 bytes, and takes no tag past the limit.         *)
LEMMA VlanSafe ==
    ASSUME Typed, NEW h, Fields("vlan", h), pkt.vlan_tags \in 0 .. MAX_TAGS
    PROVE  ParserSafe(VlanSteps(h), size, 4 <= size /\ pkt.vlan_tags + 1 \in 0 .. MAX_TAGS)
<1> DEFINE s1 == Refuse(pkt.vlan_tags >= MAX_TAGS, "MalformedHeader")
           s2 == Refuse(size < 4, "UnexpectedEof")
           s3 == Touch(0, 4)
           s4 == Refuse(h.reserved, "InvalidFieldValue")
           s == <<s1, s2, s3, s4>>
<1>0. size \in Nat /\ h.reserved \in BOOLEAN /\ pkt.vlan_tags \in 0 .. MAX_TAGS BY DEF Typed, Fields
<1>1. IsCheck(s1) /\ (s1.when <=> (pkt.vlan_tags >= MAX_TAGS))
  <2>1. (pkt.vlan_tags >= MAX_TAGS) \in BOOLEAN OBVIOUS
  <2> QED BY <2>1, ErrorNames, RefuseIs, Zenon
<1>2. IsCheck(s2) /\ (s2.when <=> (size < 4))
  <2>1. (size < 4) \in BOOLEAN OBVIOUS
  <2> QED BY <2>1, ErrorNames, RefuseIs, Zenon
<1>3. IsRead(s3, 0, 4)
  <2>1. 0 \in Int /\ 4 \in Int BY <1>0
  <2> QED BY <2>1, TouchIs, Zenon
<1>4. IsCheck(s4) /\ (s4.when <=> (h.reserved))
  <2>1. (h.reserved) \in BOOLEAN BY <1>0
  <2> QED BY <2>1, ErrorNames, RefuseIs, Zenon
<1>5. VlanSteps(h) = s BY DEF VlanSteps
<1> HIDE DEF s1, s2, s3, s4
<1>6. ~s1.when => pkt.vlan_tags + 1 \in 0 .. MAX_TAGS BY <1>0, <1>1 DEF MAX_TAGS
<1>7. ~s2.when => 4 <= size BY <1>0, <1>2
<1>8. s1 \in Steps /\ s2 \in Steps /\ s3 \in Steps /\ s4 \in Steps
  BY <1>1, <1>2, <1>3, <1>4 DEF IsCheck, IsRead
<1>9. /\ s \in Seq(Steps) /\ Len(s) = 4
      /\ s[1] = s1 /\ s[2] = s2 /\ s[3] = s3 /\ s[4] = s4
  BY <1>8
<1> HIDE DEF s
<1>10. Passed(s, 3) => ~s1.when /\ ~s2.when /\ ~s3.when
  BY <1>9 DEF Passed
<1>11. Passed(s, 4) => ~s1.when /\ ~s2.when /\ ~s3.when /\ ~s4.when
  BY <1>9 DEF Passed
<1>12. Passed(s, 3) => 0 <= 0 /\ 0 <= 4 /\ 4 <= size
  BY <1>0, <1>6, <1>7, <1>10
<1>13. Safe(s, size)
  <2>1. ASSUME NEW i \in 1 .. 4
        PROVE  /\ s[i].when => s[i].err # "None"
               /\ Passed(s, i) => 0 <= s[i].from /\ s[i].from <= s[i].to /\ s[i].to <= size
    <3>1. CASE i = 1 BY <1>0, <1>1, <1>9, <3>1 DEF IsCheck
    <3>2. CASE i = 2 BY <1>0, <1>2, <1>9, <3>2 DEF IsCheck
    <3>3. CASE i = 3 BY <1>3, <1>9, <1>12, <3>3 DEF IsRead
    <3>4. CASE i = 4 BY <1>0, <1>4, <1>9, <3>4 DEF IsCheck
    <3> QED BY <3>1, <3>2, <3>3, <3>4
  <2> QED BY <1>9, <2>1 DEF Safe
<1>14. Passed(s, Len(s)) => 4 <= size /\ pkt.vlan_tags + 1 \in 0 .. MAX_TAGS
  BY <1>0, <1>6, <1>7, <1>9, <1>11
<1> QED BY <1>5, <1>13, <1>14 DEF ParserSafe

(* ipv4::parse reads the header whose length ihl states, and what it       *)
(* leaves is what total_length states.                                     *)
LEMMA Ipv4Safe ==
    ASSUME Typed, NEW h, Fields("ipv4", h), NEW sum_ok \in BOOLEAN
    PROVE  ParserSafe(Ipv4Steps(h, sum_ok), size, 4 * h.ihl <= h.total_length /\ h.total_length <= size)
<1> DEFINE s1 == Refuse(size < 20, "UnexpectedEof")
           s2 == Touch(0, 20)
           s3 == Refuse(4 * h.ihl < 20, "MalformedHeader")
           s4 == Refuse(size < 4 * h.ihl, "UnexpectedEof")
           s5 == Refuse(h.version # 4, "InvalidFieldValue")
           s6 == Touch(0, 4 * h.ihl)
           s7 == Refuse(config.verify_checksum /\ ~sum_ok, "ChecksumMismatch")
           s8 == Refuse(h.total_length < 4 * h.ihl, "MalformedHeader")
           s9 == Refuse(h.total_length > size, "UnexpectedEof")
           s == <<s1, s2, s3, s4, s5, s6, s7, s8, s9>>
<1>0. size \in Nat /\ h.ihl \in Nat /\ h.total_length \in Nat /\ h.version \in Nat /\ config.verify_checksum \in BOOLEAN BY DEF Typed, Fields
<1>1. IsCheck(s1) /\ (s1.when <=> (size < 20))
  <2>1. (size < 20) \in BOOLEAN OBVIOUS
  <2> QED BY <2>1, ErrorNames, RefuseIs, Zenon
<1>2. IsRead(s2, 0, 20)
  <2>1. 0 \in Int /\ 20 \in Int BY <1>0
  <2> QED BY <2>1, TouchIs, Zenon
<1>3. IsCheck(s3) /\ (s3.when <=> (4 * h.ihl < 20))
  <2>1. (4 * h.ihl < 20) \in BOOLEAN OBVIOUS
  <2> QED BY <2>1, ErrorNames, RefuseIs, Zenon
<1>4. IsCheck(s4) /\ (s4.when <=> (size < 4 * h.ihl))
  <2>1. (size < 4 * h.ihl) \in BOOLEAN OBVIOUS
  <2> QED BY <2>1, ErrorNames, RefuseIs, Zenon
<1>5. IsCheck(s5) /\ (s5.when <=> (h.version # 4))
  <2>1. (h.version # 4) \in BOOLEAN OBVIOUS
  <2> QED BY <2>1, ErrorNames, RefuseIs, Zenon
<1>6. IsRead(s6, 0, 4 * h.ihl)
  <2>1. 0 \in Int /\ 4 * h.ihl \in Int BY <1>0
  <2> QED BY <2>1, TouchIs, Zenon
<1>7. IsCheck(s7) /\ (s7.when <=> (config.verify_checksum /\ ~sum_ok))
  <2>1. (config.verify_checksum /\ ~sum_ok) \in BOOLEAN OBVIOUS
  <2> QED BY <2>1, ErrorNames, RefuseIs, Zenon
<1>8. IsCheck(s8) /\ (s8.when <=> (h.total_length < 4 * h.ihl))
  <2>1. (h.total_length < 4 * h.ihl) \in BOOLEAN OBVIOUS
  <2> QED BY <2>1, ErrorNames, RefuseIs, Zenon
<1>9. IsCheck(s9) /\ (s9.when <=> (h.total_length > size))
  <2>1. (h.total_length > size) \in BOOLEAN OBVIOUS
  <2> QED BY <2>1, ErrorNames, RefuseIs, Zenon
<1>10. Ipv4Steps(h, sum_ok) = s BY DEF Ipv4Steps
<1> HIDE DEF s1, s2, s3, s4, s5, s6, s7, s8, s9
<1>11. ~s1.when => 20 <= size BY <1>0, <1>1
<1>12. ~s4.when => 4 * h.ihl <= size BY <1>0, <1>4
<1>13. ~s8.when => 4 * h.ihl <= h.total_length BY <1>0, <1>8
<1>14. ~s9.when => h.total_length <= size BY <1>0, <1>9
<1>15. s1 \in Steps /\ s2 \in Steps /\ s3 \in Steps /\ s4 \in Steps /\ s5 \in Steps /\ s6 \in Steps /\ s7 \in Steps /\ s8 \in Steps /\ s9 \in Steps
  BY <1>1, <1>2, <1>3, <1>4, <1>5, <1>6, <1>7, <1>8, <1>9 DEF IsCheck, IsRead
<1>16. /\ s \in Seq(Steps) /\ Len(s) = 9
      /\ s[1] = s1 /\ s[2] = s2 /\ s[3] = s3 /\ s[4] = s4 /\ s[5] = s5
      /\ s[6] = s6 /\ s[7] = s7 /\ s[8] = s8 /\ s[9] = s9
  BY <1>15
<1> HIDE DEF s
<1>17. Passed(s, 2) => ~s1.when /\ ~s2.when
  BY <1>16 DEF Passed
<1>18. Passed(s, 6) => ~s1.when /\ ~s2.when /\ ~s3.when /\ ~s4.when /\ ~s5.when /\ ~s6.when
  BY <1>16 DEF Passed
<1>19. Passed(s, 9) => ~s1.when /\ ~s2.when /\ ~s3.when /\ ~s4.when /\ ~s5.when /\ ~s6.when /\ ~s7.when /\ ~s8.when /\ ~s9.when
  BY <1>16 DEF Passed
<1>20. Passed(s, 2) => 0 <= 0 /\ 0 <= 20 /\ 20 <= size
  BY <1>0, <1>11, <1>12, <1>13, <1>14, <1>17
<1>21. Passed(s, 6) => 0 <= 0 /\ 0 <= 4 * h.ihl /\ 4 * h.ihl <= size
  BY <1>0, <1>11, <1>12, <1>13, <1>14, <1>18
<1>22. Safe(s, size)
  <2>1. ASSUME NEW i \in 1 .. 9
        PROVE  /\ s[i].when => s[i].err # "None"
               /\ Passed(s, i) => 0 <= s[i].from /\ s[i].from <= s[i].to /\ s[i].to <= size
    <3>1. CASE i = 1 BY <1>0, <1>1, <1>16, <3>1 DEF IsCheck
    <3>2. CASE i = 2 BY <1>2, <1>16, <1>20, <3>2 DEF IsRead
    <3>3. CASE i = 3 BY <1>0, <1>3, <1>16, <3>3 DEF IsCheck
    <3>4. CASE i = 4 BY <1>0, <1>4, <1>16, <3>4 DEF IsCheck
    <3>5. CASE i = 5 BY <1>0, <1>5, <1>16, <3>5 DEF IsCheck
    <3>6. CASE i = 6 BY <1>6, <1>16, <1>21, <3>6 DEF IsRead
    <3>7. CASE i = 7 BY <1>0, <1>7, <1>16, <3>7 DEF IsCheck
    <3>8. CASE i = 8 BY <1>0, <1>8, <1>16, <3>8 DEF IsCheck
    <3>9. CASE i = 9 BY <1>0, <1>9, <1>16, <3>9 DEF IsCheck
    <3> QED BY <3>1, <3>2, <3>3, <3>4, <3>5, <3>6, <3>7, <3>8, <3>9
  <2> QED BY <1>16, <2>1 DEF Safe
<1>23. Passed(s, Len(s)) => 4 * h.ihl <= h.total_length /\ h.total_length <= size
  BY <1>0, <1>11, <1>12, <1>13, <1>14, <1>16, <1>19
<1> QED BY <1>10, <1>22, <1>23 DEF ParserSafe

(* ipv6::parse reads its 40 bytes, and what it leaves is what              *)
(* payload_length states.                                                  *)
LEMMA Ipv6Safe ==
    ASSUME Typed, NEW h, Fields("ipv6", h)
    PROVE  ParserSafe(Ipv6Steps(h), size, 40 + h.payload_length <= size)
<1> DEFINE s1 == Refuse(size < 40, "UnexpectedEof")
           s2 == Touch(0, 40)
           s3 == Refuse(h.version # 6, "InvalidFieldValue")
           s4 == Refuse(h.payload_length > size - 40, "UnexpectedEof")
           s == <<s1, s2, s3, s4>>
<1>0. size \in Nat /\ h.payload_length \in Nat /\ h.version \in Nat BY DEF Typed, Fields
<1>1. IsCheck(s1) /\ (s1.when <=> (size < 40))
  <2>1. (size < 40) \in BOOLEAN OBVIOUS
  <2> QED BY <2>1, ErrorNames, RefuseIs, Zenon
<1>2. IsRead(s2, 0, 40)
  <2>1. 0 \in Int /\ 40 \in Int BY <1>0
  <2> QED BY <2>1, TouchIs, Zenon
<1>3. IsCheck(s3) /\ (s3.when <=> (h.version # 6))
  <2>1. (h.version # 6) \in BOOLEAN OBVIOUS
  <2> QED BY <2>1, ErrorNames, RefuseIs, Zenon
<1>4. IsCheck(s4) /\ (s4.when <=> (h.payload_length > size - 40))
  <2>1. (h.payload_length > size - 40) \in BOOLEAN OBVIOUS
  <2> QED BY <2>1, ErrorNames, RefuseIs, Zenon
<1>5. Ipv6Steps(h) = s BY DEF Ipv6Steps
<1> HIDE DEF s1, s2, s3, s4
<1>6. ~s1.when => 40 <= size BY <1>0, <1>1
<1>7. ~s4.when => 40 + h.payload_length <= size BY <1>0, <1>4
<1>8. s1 \in Steps /\ s2 \in Steps /\ s3 \in Steps /\ s4 \in Steps
  BY <1>1, <1>2, <1>3, <1>4 DEF IsCheck, IsRead
<1>9. /\ s \in Seq(Steps) /\ Len(s) = 4
      /\ s[1] = s1 /\ s[2] = s2 /\ s[3] = s3 /\ s[4] = s4
  BY <1>8
<1> HIDE DEF s
<1>10. Passed(s, 2) => ~s1.when /\ ~s2.when
  BY <1>9 DEF Passed
<1>11. Passed(s, 4) => ~s1.when /\ ~s2.when /\ ~s3.when /\ ~s4.when
  BY <1>9 DEF Passed
<1>12. Passed(s, 2) => 0 <= 0 /\ 0 <= 40 /\ 40 <= size
  BY <1>0, <1>6, <1>7, <1>10
<1>13. Safe(s, size)
  <2>1. ASSUME NEW i \in 1 .. 4
        PROVE  /\ s[i].when => s[i].err # "None"
               /\ Passed(s, i) => 0 <= s[i].from /\ s[i].from <= s[i].to /\ s[i].to <= size
    <3>1. CASE i = 1 BY <1>0, <1>1, <1>9, <3>1 DEF IsCheck
    <3>2. CASE i = 2 BY <1>2, <1>9, <1>12, <3>2 DEF IsRead
    <3>3. CASE i = 3 BY <1>0, <1>3, <1>9, <3>3 DEF IsCheck
    <3>4. CASE i = 4 BY <1>0, <1>4, <1>9, <3>4 DEF IsCheck
    <3> QED BY <3>1, <3>2, <3>3, <3>4
  <2> QED BY <1>9, <2>1 DEF Safe
<1>14. Passed(s, Len(s)) => 40 + h.payload_length <= size
  BY <1>0, <1>6, <1>7, <1>9, <1>11
<1> QED BY <1>5, <1>13, <1>14 DEF ParserSafe

(* arp::parse reads the addresses whose lengths it states.                 *)
LEMMA ArpSafe ==
    ASSUME Typed, NEW h, Fields("arp", h)
    PROVE  ParserSafe(ArpSteps(h), size, 8 + 2 * h.hlen + 2 * h.plen <= size)
<1> DEFINE s1 == Refuse(size < 8, "UnexpectedEof")
           s2 == Touch(0, 8)
           s3 == Refuse(h.hlen = 0 \/ h.plen = 0, "InvalidFieldValue")
           s4 == Refuse(size < 8 + 2 * h.hlen + 2 * h.plen, "UnexpectedEof")
           s5 == Touch(8, 8 + 2 * h.hlen + 2 * h.plen)
           s == <<s1, s2, s3, s4, s5>>
<1>0. size \in Nat /\ h.hlen \in Nat /\ h.plen \in Nat BY DEF Typed, Fields
<1>1. IsCheck(s1) /\ (s1.when <=> (size < 8))
  <2>1. (size < 8) \in BOOLEAN OBVIOUS
  <2> QED BY <2>1, ErrorNames, RefuseIs, Zenon
<1>2. IsRead(s2, 0, 8)
  <2>1. 0 \in Int /\ 8 \in Int BY <1>0
  <2> QED BY <2>1, TouchIs, Zenon
<1>3. IsCheck(s3) /\ (s3.when <=> (h.hlen = 0 \/ h.plen = 0))
  <2>1. (h.hlen = 0 \/ h.plen = 0) \in BOOLEAN OBVIOUS
  <2> QED BY <2>1, ErrorNames, RefuseIs, Zenon
<1>4. IsCheck(s4) /\ (s4.when <=> (size < 8 + 2 * h.hlen + 2 * h.plen))
  <2>1. (size < 8 + 2 * h.hlen + 2 * h.plen) \in BOOLEAN OBVIOUS
  <2> QED BY <2>1, ErrorNames, RefuseIs, Zenon
<1>5. IsRead(s5, 8, 8 + 2 * h.hlen + 2 * h.plen)
  <2>1. 8 \in Int /\ 8 + 2 * h.hlen + 2 * h.plen \in Int BY <1>0
  <2> QED BY <2>1, TouchIs, Zenon
<1>6. ArpSteps(h) = s BY DEF ArpSteps
<1> HIDE DEF s1, s2, s3, s4, s5
<1>7. ~s1.when => 8 <= size BY <1>0, <1>1
<1>8. ~s4.when => 8 + 2 * h.hlen + 2 * h.plen <= size BY <1>0, <1>4
<1>9. s1 \in Steps /\ s2 \in Steps /\ s3 \in Steps /\ s4 \in Steps /\ s5 \in Steps
  BY <1>1, <1>2, <1>3, <1>4, <1>5 DEF IsCheck, IsRead
<1>10. /\ s \in Seq(Steps) /\ Len(s) = 5
      /\ s[1] = s1 /\ s[2] = s2 /\ s[3] = s3 /\ s[4] = s4 /\ s[5] = s5
  BY <1>9
<1> HIDE DEF s
<1>11. Passed(s, 2) => ~s1.when /\ ~s2.when
  BY <1>10 DEF Passed
<1>12. Passed(s, 5) => ~s1.when /\ ~s2.when /\ ~s3.when /\ ~s4.when /\ ~s5.when
  BY <1>10 DEF Passed
<1>13. Passed(s, 2) => 0 <= 0 /\ 0 <= 8 /\ 8 <= size
  BY <1>0, <1>7, <1>8, <1>11
<1>14. Passed(s, 5) => 0 <= 8 /\ 8 <= 8 + 2 * h.hlen + 2 * h.plen /\ 8 + 2 * h.hlen + 2 * h.plen <= size
  BY <1>0, <1>7, <1>8, <1>12
<1>15. Safe(s, size)
  <2>1. ASSUME NEW i \in 1 .. 5
        PROVE  /\ s[i].when => s[i].err # "None"
               /\ Passed(s, i) => 0 <= s[i].from /\ s[i].from <= s[i].to /\ s[i].to <= size
    <3>1. CASE i = 1 BY <1>0, <1>1, <1>10, <3>1 DEF IsCheck
    <3>2. CASE i = 2 BY <1>2, <1>10, <1>13, <3>2 DEF IsRead
    <3>3. CASE i = 3 BY <1>0, <1>3, <1>10, <3>3 DEF IsCheck
    <3>4. CASE i = 4 BY <1>0, <1>4, <1>10, <3>4 DEF IsCheck
    <3>5. CASE i = 5 BY <1>5, <1>10, <1>14, <3>5 DEF IsRead
    <3> QED BY <3>1, <3>2, <3>3, <3>4, <3>5
  <2> QED BY <1>10, <2>1 DEF Safe
<1>16. Passed(s, Len(s)) => 8 + 2 * h.hlen + 2 * h.plen <= size
  BY <1>0, <1>7, <1>8, <1>10, <1>12
<1> QED BY <1>6, <1>15, <1>16 DEF ParserSafe

(* tcp::parse reads the header that data_offset states, and sums what the  *)
(* network layer states, both within the span.                             *)
LEMMA TcpSafe ==
    ASSUME Typed, NEW h, Fields("tcp", h), NEW sum_ok \in BOOLEAN, PseudoHeader.length \in Nat
    PROVE  ParserSafe(TcpSteps(h, sum_ok), size, 4 * h.data_offset <= size)
<1> DEFINE s1 == Refuse(size < 20, "UnexpectedEof")
           s2 == Touch(0, 20)
           s3 == Refuse(\/ 4 * h.data_offset < 20 \/ PseudoHeader.length < 4 * h.data_offset
                      \/ size < PseudoHeader.length, "MalformedHeader")
           s4 == Refuse(size < 4 * h.data_offset, "UnexpectedEof")
           s5 == Touch(0, PseudoHeader.length)
           s6 == Refuse(config.verify_checksum /\ ~sum_ok, "ChecksumMismatch")
           s == <<s1, s2, s3, s4, s5, s6>>
<1>0. size \in Nat /\ h.data_offset \in Nat /\ PseudoHeader.length \in Nat /\ config.verify_checksum \in BOOLEAN BY DEF Typed, Fields
<1>1. IsCheck(s1) /\ (s1.when <=> (size < 20))
  <2>1. (size < 20) \in BOOLEAN OBVIOUS
  <2> QED BY <2>1, ErrorNames, RefuseIs, Zenon
<1>2. IsRead(s2, 0, 20)
  <2>1. 0 \in Int /\ 20 \in Int BY <1>0
  <2> QED BY <2>1, TouchIs, Zenon
<1>3. IsCheck(s3) /\ (s3.when <=> (\/ 4 * h.data_offset < 20 \/ PseudoHeader.length < 4 * h.data_offset
                      \/ size < PseudoHeader.length))
  <2>1. (\/ 4 * h.data_offset < 20 \/ PseudoHeader.length < 4 * h.data_offset
                      \/ size < PseudoHeader.length) \in BOOLEAN OBVIOUS
  <2> QED BY <2>1, ErrorNames, RefuseIs, Zenon
<1>4. IsCheck(s4) /\ (s4.when <=> (size < 4 * h.data_offset))
  <2>1. (size < 4 * h.data_offset) \in BOOLEAN OBVIOUS
  <2> QED BY <2>1, ErrorNames, RefuseIs, Zenon
<1>5. IsRead(s5, 0, PseudoHeader.length)
  <2>1. 0 \in Int /\ PseudoHeader.length \in Int BY <1>0
  <2> QED BY <2>1, TouchIs, Zenon
<1>6. IsCheck(s6) /\ (s6.when <=> (config.verify_checksum /\ ~sum_ok))
  <2>1. (config.verify_checksum /\ ~sum_ok) \in BOOLEAN OBVIOUS
  <2> QED BY <2>1, ErrorNames, RefuseIs, Zenon
<1>7. TcpSteps(h, sum_ok) = s BY DEF TcpSteps
<1> HIDE DEF s1, s2, s3, s4, s5, s6
<1>8. ~s1.when => 20 <= size BY <1>0, <1>1
<1>9. ~s3.when => PseudoHeader.length <= size BY <1>0, <1>3
<1>10. ~s4.when => 4 * h.data_offset <= size BY <1>0, <1>4
<1>11. s1 \in Steps /\ s2 \in Steps /\ s3 \in Steps /\ s4 \in Steps /\ s5 \in Steps /\ s6 \in Steps
  BY <1>1, <1>2, <1>3, <1>4, <1>5, <1>6 DEF IsCheck, IsRead
<1>12. /\ s \in Seq(Steps) /\ Len(s) = 6
      /\ s[1] = s1 /\ s[2] = s2 /\ s[3] = s3 /\ s[4] = s4 /\ s[5] = s5 /\ s[6] = s6
  BY <1>11
<1> HIDE DEF s
<1>13. Passed(s, 2) => ~s1.when /\ ~s2.when
  BY <1>12 DEF Passed
<1>14. Passed(s, 5) => ~s1.when /\ ~s2.when /\ ~s3.when /\ ~s4.when /\ ~s5.when
  BY <1>12 DEF Passed
<1>15. Passed(s, 6) => ~s1.when /\ ~s2.when /\ ~s3.when /\ ~s4.when /\ ~s5.when /\ ~s6.when
  BY <1>12 DEF Passed
<1>16. Passed(s, 2) => 0 <= 0 /\ 0 <= 20 /\ 20 <= size
  BY <1>0, <1>8, <1>9, <1>10, <1>13
<1>17. Passed(s, 5) => 0 <= 0 /\ 0 <= PseudoHeader.length /\ PseudoHeader.length <= size
  BY <1>0, <1>8, <1>9, <1>10, <1>14
<1>18. Safe(s, size)
  <2>1. ASSUME NEW i \in 1 .. 6
        PROVE  /\ s[i].when => s[i].err # "None"
               /\ Passed(s, i) => 0 <= s[i].from /\ s[i].from <= s[i].to /\ s[i].to <= size
    <3>1. CASE i = 1 BY <1>0, <1>1, <1>12, <3>1 DEF IsCheck
    <3>2. CASE i = 2 BY <1>2, <1>12, <1>16, <3>2 DEF IsRead
    <3>3. CASE i = 3 BY <1>0, <1>3, <1>12, <3>3 DEF IsCheck
    <3>4. CASE i = 4 BY <1>0, <1>4, <1>12, <3>4 DEF IsCheck
    <3>5. CASE i = 5 BY <1>5, <1>12, <1>17, <3>5 DEF IsRead
    <3>6. CASE i = 6 BY <1>0, <1>6, <1>12, <3>6 DEF IsCheck
    <3> QED BY <3>1, <3>2, <3>3, <3>4, <3>5, <3>6
  <2> QED BY <1>12, <2>1 DEF Safe
<1>19. Passed(s, Len(s)) => 4 * h.data_offset <= size
  BY <1>0, <1>8, <1>9, <1>10, <1>12, <1>15
<1> QED BY <1>7, <1>18, <1>19 DEF ParserSafe

(* udp::parse keeps what its length field states.                          *)
LEMMA UdpSafe ==
    ASSUME Typed, NEW h, Fields("udp", h), NEW sum_ok \in BOOLEAN
    PROVE  ParserSafe(UdpSteps(h, sum_ok), size, 8 <= h.length /\ h.length <= size)
<1> DEFINE s1 == Refuse(size < 8, "UnexpectedEof")
           s2 == Touch(0, 8)
           s3 == Refuse(h.length < 8 \/ size < h.length, "MalformedHeader")
           s4 == Touch(0, h.length)
           s5 == Refuse(config.verify_checksum /\ (~h.zero \/ pkt.network = "ipv6") /\ ~sum_ok, "ChecksumMismatch")
           s == <<s1, s2, s3, s4, s5>>
<1>0. size \in Nat /\ h.length \in Nat /\ h.zero \in BOOLEAN /\ config.verify_checksum \in BOOLEAN BY DEF Typed, Fields
<1>1. IsCheck(s1) /\ (s1.when <=> (size < 8))
  <2>1. (size < 8) \in BOOLEAN OBVIOUS
  <2> QED BY <2>1, ErrorNames, RefuseIs, Zenon
<1>2. IsRead(s2, 0, 8)
  <2>1. 0 \in Int /\ 8 \in Int BY <1>0
  <2> QED BY <2>1, TouchIs, Zenon
<1>3. IsCheck(s3) /\ (s3.when <=> (h.length < 8 \/ size < h.length))
  <2>1. (h.length < 8 \/ size < h.length) \in BOOLEAN OBVIOUS
  <2> QED BY <2>1, ErrorNames, RefuseIs, Zenon
<1>4. IsRead(s4, 0, h.length)
  <2>1. 0 \in Int /\ h.length \in Int BY <1>0
  <2> QED BY <2>1, TouchIs, Zenon
<1>5. IsCheck(s5) /\ (s5.when <=> (config.verify_checksum /\ (~h.zero \/ pkt.network = "ipv6") /\ ~sum_ok))
  <2>1. (config.verify_checksum /\ (~h.zero \/ pkt.network = "ipv6") /\ ~sum_ok) \in BOOLEAN OBVIOUS
  <2> QED BY <2>1, ErrorNames, RefuseIs, Zenon
<1>6. UdpSteps(h, sum_ok) = s BY DEF UdpSteps
<1> HIDE DEF s1, s2, s3, s4, s5
<1>7. ~s1.when => 8 <= size BY <1>0, <1>1
<1>8. ~s3.when => 8 <= h.length /\ h.length <= size BY <1>0, <1>3
<1>9. s1 \in Steps /\ s2 \in Steps /\ s3 \in Steps /\ s4 \in Steps /\ s5 \in Steps
  BY <1>1, <1>2, <1>3, <1>4, <1>5 DEF IsCheck, IsRead
<1>10. /\ s \in Seq(Steps) /\ Len(s) = 5
      /\ s[1] = s1 /\ s[2] = s2 /\ s[3] = s3 /\ s[4] = s4 /\ s[5] = s5
  BY <1>9
<1> HIDE DEF s
<1>11. Passed(s, 2) => ~s1.when /\ ~s2.when
  BY <1>10 DEF Passed
<1>12. Passed(s, 4) => ~s1.when /\ ~s2.when /\ ~s3.when /\ ~s4.when
  BY <1>10 DEF Passed
<1>13. Passed(s, 5) => ~s1.when /\ ~s2.when /\ ~s3.when /\ ~s4.when /\ ~s5.when
  BY <1>10 DEF Passed
<1>14. Passed(s, 2) => 0 <= 0 /\ 0 <= 8 /\ 8 <= size
  BY <1>0, <1>7, <1>8, <1>11
<1>15. Passed(s, 4) => 0 <= 0 /\ 0 <= h.length /\ h.length <= size
  BY <1>0, <1>7, <1>8, <1>12
<1>16. Safe(s, size)
  <2>1. ASSUME NEW i \in 1 .. 5
        PROVE  /\ s[i].when => s[i].err # "None"
               /\ Passed(s, i) => 0 <= s[i].from /\ s[i].from <= s[i].to /\ s[i].to <= size
    <3>1. CASE i = 1 BY <1>0, <1>1, <1>10, <3>1 DEF IsCheck
    <3>2. CASE i = 2 BY <1>2, <1>10, <1>14, <3>2 DEF IsRead
    <3>3. CASE i = 3 BY <1>0, <1>3, <1>10, <3>3 DEF IsCheck
    <3>4. CASE i = 4 BY <1>4, <1>10, <1>15, <3>4 DEF IsRead
    <3>5. CASE i = 5 BY <1>0, <1>5, <1>10, <3>5 DEF IsCheck
    <3> QED BY <3>1, <3>2, <3>3, <3>4, <3>5
  <2> QED BY <1>10, <2>1 DEF Safe
<1>17. Passed(s, Len(s)) => 8 <= h.length /\ h.length <= size
  BY <1>0, <1>7, <1>8, <1>10, <1>13
<1> QED BY <1>6, <1>16, <1>17 DEF ParserSafe

(* icmp::parse reads its 8 bytes and sums the whole span.                  *)
LEMMA IcmpSafe ==
    ASSUME Typed, NEW h, Fields("icmp", h), NEW sum_ok \in BOOLEAN
    PROVE  ParserSafe(IcmpSteps(h, sum_ok), size, 8 <= size)
<1> DEFINE s1 == Refuse(size < 8, "UnexpectedEof")
           s2 == Touch(0, 8)
           s3 == Refuse(h.code > IcmpMaxCode(h.type), "InvalidFieldValue")
           s4 == Touch(0, size)
           s5 == Refuse(config.verify_checksum /\ ~sum_ok, "ChecksumMismatch")
           s == <<s1, s2, s3, s4, s5>>
<1>0. size \in Nat /\ config.verify_checksum \in BOOLEAN BY DEF Typed
<1>1. IsCheck(s1) /\ (s1.when <=> (size < 8))
  <2>1. (size < 8) \in BOOLEAN OBVIOUS
  <2> QED BY <2>1, ErrorNames, RefuseIs, Zenon
<1>2. IsRead(s2, 0, 8)
  <2>1. 0 \in Int /\ 8 \in Int BY <1>0
  <2> QED BY <2>1, TouchIs, Zenon
<1>3. IsCheck(s3) /\ (s3.when <=> (h.code > IcmpMaxCode(h.type)))
  <2>1. (h.code > IcmpMaxCode(h.type)) \in BOOLEAN OBVIOUS
  <2> QED BY <2>1, ErrorNames, RefuseIs, Zenon
<1>4. IsRead(s4, 0, size)
  <2>1. 0 \in Int /\ size \in Int BY <1>0
  <2> QED BY <2>1, TouchIs, Zenon
<1>5. IsCheck(s5) /\ (s5.when <=> (config.verify_checksum /\ ~sum_ok))
  <2>1. (config.verify_checksum /\ ~sum_ok) \in BOOLEAN OBVIOUS
  <2> QED BY <2>1, ErrorNames, RefuseIs, Zenon
<1>6. IcmpSteps(h, sum_ok) = s BY DEF IcmpSteps
<1> HIDE DEF s1, s2, s3, s4, s5
<1>7. ~s1.when => 8 <= size BY <1>0, <1>1
<1>8. s1 \in Steps /\ s2 \in Steps /\ s3 \in Steps /\ s4 \in Steps /\ s5 \in Steps
  BY <1>1, <1>2, <1>3, <1>4, <1>5 DEF IsCheck, IsRead
<1>9. /\ s \in Seq(Steps) /\ Len(s) = 5
      /\ s[1] = s1 /\ s[2] = s2 /\ s[3] = s3 /\ s[4] = s4 /\ s[5] = s5
  BY <1>8
<1> HIDE DEF s
<1>10. Passed(s, 2) => ~s1.when /\ ~s2.when
  BY <1>9 DEF Passed
<1>11. Passed(s, 4) => ~s1.when /\ ~s2.when /\ ~s3.when /\ ~s4.when
  BY <1>9 DEF Passed
<1>12. Passed(s, 5) => ~s1.when /\ ~s2.when /\ ~s3.when /\ ~s4.when /\ ~s5.when
  BY <1>9 DEF Passed
<1>13. Passed(s, 2) => 0 <= 0 /\ 0 <= 8 /\ 8 <= size
  BY <1>0, <1>7, <1>10
<1>14. Passed(s, 4) => 0 <= 0 /\ 0 <= size /\ size <= size
  BY <1>0, <1>7, <1>11
<1>15. Safe(s, size)
  <2>1. ASSUME NEW i \in 1 .. 5
        PROVE  /\ s[i].when => s[i].err # "None"
               /\ Passed(s, i) => 0 <= s[i].from /\ s[i].from <= s[i].to /\ s[i].to <= size
    <3>1. CASE i = 1 BY <1>0, <1>1, <1>9, <3>1 DEF IsCheck
    <3>2. CASE i = 2 BY <1>2, <1>9, <1>13, <3>2 DEF IsRead
    <3>3. CASE i = 3 BY <1>0, <1>3, <1>9, <3>3 DEF IsCheck
    <3>4. CASE i = 4 BY <1>4, <1>9, <1>14, <3>4 DEF IsRead
    <3>5. CASE i = 5 BY <1>0, <1>5, <1>9, <3>5 DEF IsCheck
    <3> QED BY <3>1, <3>2, <3>3, <3>4, <3>5
  <2> QED BY <1>9, <2>1 DEF Safe
<1>16. Passed(s, Len(s)) => 8 <= size
  BY <1>0, <1>7, <1>9, <1>12
<1> QED BY <1>6, <1>15, <1>16 DEF ParserSafe

(* icmpv6::parse reads its 8 bytes and sums what the network layer states. *)
LEMMA Icmpv6Safe ==
    ASSUME Typed, NEW h, Fields("icmpv6", h), NEW sum_ok \in BOOLEAN, PseudoHeader.length \in Nat
    PROVE  ParserSafe(Icmpv6Steps(h, sum_ok), size, 8 <= size)
<1> DEFINE s1 == Refuse(size < 8, "UnexpectedEof")
           s2 == Touch(0, 8)
           s3 == Refuse(size < PseudoHeader.length, "MalformedHeader")
           s4 == Refuse(h.code > Icmpv6MaxCode(h.type), "InvalidFieldValue")
           s5 == Refuse(h.type = "too_big" /\ h.mtu < 1280, "InvalidFieldValue")
           s6 == Touch(0, PseudoHeader.length)
           s7 == Refuse(config.verify_checksum /\ ~sum_ok, "ChecksumMismatch")
           s == <<s1, s2, s3, s4, s5, s6, s7>>
<1>0. size \in Nat /\ PseudoHeader.length \in Nat /\ config.verify_checksum \in BOOLEAN BY DEF Typed
<1>1. IsCheck(s1) /\ (s1.when <=> (size < 8))
  <2>1. (size < 8) \in BOOLEAN OBVIOUS
  <2> QED BY <2>1, ErrorNames, RefuseIs, Zenon
<1>2. IsRead(s2, 0, 8)
  <2>1. 0 \in Int /\ 8 \in Int BY <1>0
  <2> QED BY <2>1, TouchIs, Zenon
<1>3. IsCheck(s3) /\ (s3.when <=> (size < PseudoHeader.length))
  <2>1. (size < PseudoHeader.length) \in BOOLEAN OBVIOUS
  <2> QED BY <2>1, ErrorNames, RefuseIs, Zenon
<1>4. IsCheck(s4) /\ (s4.when <=> (h.code > Icmpv6MaxCode(h.type)))
  <2>1. (h.code > Icmpv6MaxCode(h.type)) \in BOOLEAN OBVIOUS
  <2> QED BY <2>1, ErrorNames, RefuseIs, Zenon
<1>5. IsCheck(s5) /\ (s5.when <=> (h.type = "too_big" /\ h.mtu < 1280))
  <2> DEFINE w == h.type = "too_big" /\ h.mtu < 1280
  <2>1. w \in BOOLEAN OBVIOUS
  <2>2. s5 = Refuse(w, "InvalidFieldValue") OBVIOUS
  <2> HIDE DEF w, s5
  <2>3. IsCheck(s5) /\ (s5.when <=> w) BY <2>1, <2>2, ErrorNames, RefuseIs, Zenon
  <2> QED BY <2>3 DEF w
<1>6. IsRead(s6, 0, PseudoHeader.length)
  <2>1. 0 \in Int /\ PseudoHeader.length \in Int BY <1>0
  <2> QED BY <2>1, TouchIs, Zenon
<1>7. IsCheck(s7) /\ (s7.when <=> (config.verify_checksum /\ ~sum_ok))
  <2>1. (config.verify_checksum /\ ~sum_ok) \in BOOLEAN OBVIOUS
  <2> QED BY <2>1, ErrorNames, RefuseIs, Zenon
<1>8. Icmpv6Steps(h, sum_ok) = s BY DEF Icmpv6Steps
<1> HIDE DEF s1, s2, s3, s4, s5, s6, s7
<1>9. ~s1.when => 8 <= size BY <1>0, <1>1
<1>10. ~s3.when => PseudoHeader.length <= size BY <1>0, <1>3
<1>11. s1 \in Steps /\ s2 \in Steps /\ s3 \in Steps /\ s4 \in Steps /\ s5 \in Steps /\ s6 \in Steps /\ s7 \in Steps
  BY <1>1, <1>2, <1>3, <1>4, <1>5, <1>6, <1>7 DEF IsCheck, IsRead
<1>12. /\ s \in Seq(Steps) /\ Len(s) = 7
      /\ s[1] = s1 /\ s[2] = s2 /\ s[3] = s3 /\ s[4] = s4 /\ s[5] = s5 /\ s[6] = s6 /\ s[7] = s7
  BY <1>11
<1> HIDE DEF s
<1>13. Passed(s, 2) => ~s1.when /\ ~s2.when
  BY <1>12 DEF Passed
<1>14. Passed(s, 6) => ~s1.when /\ ~s2.when /\ ~s3.when /\ ~s4.when /\ ~s5.when /\ ~s6.when
  BY <1>12 DEF Passed
<1>15. Passed(s, 7) => ~s1.when /\ ~s2.when /\ ~s3.when /\ ~s4.when /\ ~s5.when /\ ~s6.when /\ ~s7.when
  BY <1>12 DEF Passed
<1>16. Passed(s, 2) => 0 <= 0 /\ 0 <= 8 /\ 8 <= size
  BY <1>0, <1>9, <1>10, <1>13
<1>17. Passed(s, 6) => 0 <= 0 /\ 0 <= PseudoHeader.length /\ PseudoHeader.length <= size
  BY <1>0, <1>9, <1>10, <1>14
<1>18. Safe(s, size)
  <2>1. ASSUME NEW i \in 1 .. 7
        PROVE  /\ s[i].when => s[i].err # "None"
               /\ Passed(s, i) => 0 <= s[i].from /\ s[i].from <= s[i].to /\ s[i].to <= size
    <3>1. CASE i = 1 BY <1>0, <1>1, <1>12, <3>1 DEF IsCheck
    <3>2. CASE i = 2 BY <1>2, <1>12, <1>16, <3>2 DEF IsRead
    <3>3. CASE i = 3 BY <1>0, <1>3, <1>12, <3>3 DEF IsCheck
    <3>4. CASE i = 4 BY <1>0, <1>4, <1>12, <3>4 DEF IsCheck
    <3>5. CASE i = 5 BY <1>0, <1>5, <1>12, <3>5 DEF IsCheck
    <3>6. CASE i = 6 BY <1>6, <1>12, <1>17, <3>6 DEF IsRead
    <3>7. CASE i = 7 BY <1>0, <1>7, <1>12, <3>7 DEF IsCheck
    <3> QED BY <3>1, <3>2, <3>3, <3>4, <3>5, <3>6, <3>7
  <2> QED BY <1>12, <2>1 DEF Safe
<1>19. Passed(s, Len(s)) => 8 <= size
  BY <1>0, <1>9, <1>10, <1>12, <1>15
<1> QED BY <1>8, <1>18, <1>19 DEF ParserSafe

(* The steps of a routing header behind those of every extension header.   *)
LEMMA Joined ==
    ASSUME NEW T, NEW a \in Seq(T), NEW b \in Seq(T), NEW s \in Seq(T),
           Len(a) = 6, Len(b) = 2, Len(s) = 8,
           \A i \in 1 .. 8 : s[i] = IF i <= 6 THEN a[i] ELSE b[i - 6]
    PROVE  a \o b = s
<1> DEFINE c == a \o b
<1>1. /\ c \in Seq(T) /\ Len(c) = Len(a) + Len(b)
      /\ \A i \in 1 .. Len(a) + Len(b) : c[i] = IF i <= Len(a) THEN a[i] ELSE b[i - Len(a)]
  BY ConcatProperties, Zenon
<1> HIDE DEF c
<1>2. Len(c) = 8 /\ \A i \in 1 .. 8 : c[i] = IF i <= 6 THEN a[i] ELSE b[i - 6]
  <2>1. Len(a) + Len(b) = 8 OBVIOUS
  <2> QED BY <1>1, <2>1, Zenon
<1>3. Len(c) = Len(s) /\ \A i \in 1 .. Len(c) : c[i] = s[i] BY <1>2, Zenon
<1>4. c = s BY <1>1, <1>3, SeqEqual
<1> QED BY <1>4 DEF c

(* ipv6::parseExtension reads the 8 bytes that every extension header has, *)
(* and what it leaves is behind the length stated.                         *)
LEMMA PlainExtSafe ==
    ASSUME Typed, NEW type, NEW h, Fields("ext", h), Len(pkt.ipv6_ext) \in 0 .. MAX_HEADERS, ~Addressed(type, h)
    PROVE  ParserSafe(ExtSteps(type, h), size,
                      ExtLength(type, h.hdr_ext_len) <= size /\ Len(pkt.ipv6_ext) + 1 \in 0 .. MAX_HEADERS)
<1> DEFINE length == ExtLength(type, h.hdr_ext_len)
           room == Len(pkt.ipv6_ext) + 1 \in 0 .. MAX_HEADERS
           s1 == Refuse(Len(pkt.ipv6_ext) >= MAX_HEADERS, "MalformedHeader")
           s2 == Refuse(type = "hopopt" /\ pkt.ipv6_ext # <<>>, "InvalidFieldValue")
           s3 == Refuse(size < 8, "UnexpectedEof")
           s4 == Touch(0, 8)
           s5 == Refuse(type = "ah" /\ length < 12, "MalformedHeader")
           s6 == Refuse(size < length, "UnexpectedEof")
           s == <<s1, s2, s3, s4, s5, s6>>
<1>0. size \in Nat /\ h.hdr_ext_len \in Nat /\ length \in Nat /\ Len(pkt.ipv6_ext) \in 0 .. MAX_HEADERS
  BY DEF Typed, Fields, ExtLength
<1>1. IsCheck(s1) /\ (s1.when <=> (Len(pkt.ipv6_ext) >= MAX_HEADERS))
  <2>1. (Len(pkt.ipv6_ext) >= MAX_HEADERS) \in BOOLEAN OBVIOUS
  <2> QED BY <2>1, ErrorNames, RefuseIs, Zenon
<1>2. IsCheck(s2) /\ (s2.when <=> (type = "hopopt" /\ pkt.ipv6_ext # <<>>))
  <2> DEFINE w == type = "hopopt" /\ pkt.ipv6_ext # <<>>
  <2>1. w \in BOOLEAN OBVIOUS
  <2>2. s2 = Refuse(w, "InvalidFieldValue") OBVIOUS
  <2> HIDE DEF w, s2
  <2>3. IsCheck(s2) /\ (s2.when <=> w) BY <2>1, <2>2, ErrorNames, RefuseIs, Zenon
  <2> QED BY <2>3 DEF w
<1>3. IsCheck(s3) /\ (s3.when <=> (size < 8))
  <2>1. (size < 8) \in BOOLEAN OBVIOUS
  <2> QED BY <2>1, ErrorNames, RefuseIs, Zenon
<1>4. IsRead(s4, 0, 8)
  <2>1. 0 \in Int /\ 8 \in Int BY <1>0
  <2> QED BY <2>1, TouchIs, Zenon
<1>5. IsCheck(s5) /\ (s5.when <=> (type = "ah" /\ length < 12))
  <2> DEFINE w == type = "ah" /\ length < 12
  <2>1. w \in BOOLEAN OBVIOUS
  <2>2. s5 = Refuse(w, "MalformedHeader") OBVIOUS
  <2> HIDE DEF w, s5
  <2>3. IsCheck(s5) /\ (s5.when <=> w) BY <2>1, <2>2, ErrorNames, RefuseIs, Zenon
  <2> QED BY <2>3 DEF w
<1>6. IsCheck(s6) /\ (s6.when <=> (size < length))
  <2>1. (size < length) \in BOOLEAN OBVIOUS
  <2> QED BY <2>1, ErrorNames, RefuseIs, Zenon
<1>7. ExtSteps(type, h) = s
  <2> DEFINE a == <<s1, s2, s3, s4, s5, s6>>
  <2>1. ExtSteps(type, h) = a \o <<>> BY DEF ExtSteps
  <2> HIDE DEF s1, s2, s3, s4, s5, s6
  <2>2. a \o <<>> = a OBVIOUS
  <2> QED BY <2>1, <2>2
<1> HIDE DEF s1, s2, s3, s4, s5, s6
<1>8. ~s1.when => room BY <1>0, <1>1 DEF MAX_HEADERS
<1>9. ~s3.when => 8 <= size BY <1>0, <1>3
<1>10. ~s6.when => length <= size BY <1>0, <1>6
<1>11. s1 \in Steps /\ s2 \in Steps /\ s3 \in Steps /\ s4 \in Steps /\ s5 \in Steps /\ s6 \in Steps
  BY <1>1, <1>2, <1>3, <1>4, <1>5, <1>6 DEF IsCheck, IsRead
<1>12. /\ s \in Seq(Steps) /\ Len(s) = 6
      /\ s[1] = s1 /\ s[2] = s2 /\ s[3] = s3 /\ s[4] = s4 /\ s[5] = s5 /\ s[6] = s6
  BY <1>11
<1> HIDE DEF s
<1>13. Passed(s, 4) => ~s1.when /\ ~s2.when /\ ~s3.when /\ ~s4.when
  BY <1>12 DEF Passed
<1>14. Passed(s, 6) => ~s1.when /\ ~s2.when /\ ~s3.when /\ ~s4.when /\ ~s5.when /\ ~s6.when
  BY <1>12 DEF Passed
<1>15. Passed(s, 4) => 0 <= 0 /\ 0 <= 8 /\ 8 <= size
  BY <1>0, <1>8, <1>9, <1>10, <1>13
<1>16. Safe(s, size)
  <2>1. ASSUME NEW i \in 1 .. 6
        PROVE  /\ s[i].when => s[i].err # "None"
               /\ Passed(s, i) => 0 <= s[i].from /\ s[i].from <= s[i].to /\ s[i].to <= size
    <3>1. CASE i = 1 BY <1>0, <1>1, <1>12, <3>1 DEF IsCheck
    <3>2. CASE i = 2 BY <1>0, <1>2, <1>12, <3>2 DEF IsCheck
    <3>3. CASE i = 3 BY <1>0, <1>3, <1>12, <3>3 DEF IsCheck
    <3>4. CASE i = 4 BY <1>4, <1>12, <1>15, <3>4 DEF IsRead
    <3>5. CASE i = 5 BY <1>0, <1>5, <1>12, <3>5 DEF IsCheck
    <3>6. CASE i = 6 BY <1>0, <1>6, <1>12, <3>6 DEF IsCheck
    <3> QED BY <3>1, <3>2, <3>3, <3>4, <3>5, <3>6
  <2> QED BY <1>12, <2>1 DEF Safe
<1>17. Passed(s, Len(s)) => length <= size /\ room
  BY <1>0, <1>8, <1>9, <1>10, <1>12, <1>14
<1> QED BY <1>7, <1>16, <1>17 DEF ParserSafe

(* It reads the final destination of a routing header within that header.  *)
LEMMA RouteExtSafe ==
    ASSUME Typed, NEW type, NEW h, Fields("ext", h), Len(pkt.ipv6_ext) \in 0 .. MAX_HEADERS, Addressed(type, h)
    PROVE  ParserSafe(ExtSteps(type, h), size,
                      ExtLength(type, h.hdr_ext_len) <= size /\ Len(pkt.ipv6_ext) + 1 \in 0 .. MAX_HEADERS)
<1> DEFINE length == ExtLength(type, h.hdr_ext_len)
           dst == FinalDstOffset(h)
           room == Len(pkt.ipv6_ext) + 1 \in 0 .. MAX_HEADERS
           s1 == Refuse(Len(pkt.ipv6_ext) >= MAX_HEADERS, "MalformedHeader")
           s2 == Refuse(type = "hopopt" /\ pkt.ipv6_ext # <<>>, "InvalidFieldValue")
           s3 == Refuse(size < 8, "UnexpectedEof")
           s4 == Touch(0, 8)
           s5 == Refuse(type = "ah" /\ length < 12, "MalformedHeader")
           s6 == Refuse(size < length, "UnexpectedEof")
           s7 == Refuse(h.hdr_ext_len < 2 \/ h.hdr_ext_len % 2 # 0, "MalformedHeader")
           s8 == Touch(dst, dst + 16)
           s == <<s1, s2, s3, s4, s5, s6, s7, s8>>
<1>a. length = 8 * (h.hdr_ext_len + 1) BY DEF ExtLength, Addressed
<1>b. dst \in Int /\ (dst = 8 \/ dst = 8 + 16 * (h.hdr_ext_len \div 2 - 1))
  <2>1. h.hdr_ext_len \in Nat BY DEF Fields
  <2> QED BY <2>1 DEF FinalDstOffset
<1>0. size \in Nat /\ h.hdr_ext_len \in Nat /\ length \in Nat /\ Len(pkt.ipv6_ext) \in 0 .. MAX_HEADERS
  BY DEF Typed, Fields, ExtLength
<1>1. IsCheck(s1) /\ (s1.when <=> (Len(pkt.ipv6_ext) >= MAX_HEADERS))
  <2>1. (Len(pkt.ipv6_ext) >= MAX_HEADERS) \in BOOLEAN OBVIOUS
  <2> QED BY <2>1, ErrorNames, RefuseIs, Zenon
<1>2. IsCheck(s2) /\ (s2.when <=> (type = "hopopt" /\ pkt.ipv6_ext # <<>>))
  <2> DEFINE w == type = "hopopt" /\ pkt.ipv6_ext # <<>>
  <2>1. w \in BOOLEAN OBVIOUS
  <2>2. s2 = Refuse(w, "InvalidFieldValue") OBVIOUS
  <2> HIDE DEF w, s2
  <2>3. IsCheck(s2) /\ (s2.when <=> w) BY <2>1, <2>2, ErrorNames, RefuseIs, Zenon
  <2> QED BY <2>3 DEF w
<1>3. IsCheck(s3) /\ (s3.when <=> (size < 8))
  <2>1. (size < 8) \in BOOLEAN OBVIOUS
  <2> QED BY <2>1, ErrorNames, RefuseIs, Zenon
<1>4. IsRead(s4, 0, 8)
  <2>1. 0 \in Int /\ 8 \in Int BY <1>0
  <2> QED BY <2>1, TouchIs, Zenon
<1>5. IsCheck(s5) /\ (s5.when <=> (type = "ah" /\ length < 12))
  <2> DEFINE w == type = "ah" /\ length < 12
  <2>1. w \in BOOLEAN OBVIOUS
  <2>2. s5 = Refuse(w, "MalformedHeader") OBVIOUS
  <2> HIDE DEF w, s5
  <2>3. IsCheck(s5) /\ (s5.when <=> w) BY <2>1, <2>2, ErrorNames, RefuseIs, Zenon
  <2> QED BY <2>3 DEF w
<1>6. IsCheck(s6) /\ (s6.when <=> (size < length))
  <2>1. (size < length) \in BOOLEAN OBVIOUS
  <2> QED BY <2>1, ErrorNames, RefuseIs, Zenon
<1>7. IsCheck(s7) /\ (s7.when <=> (h.hdr_ext_len < 2 \/ h.hdr_ext_len % 2 # 0))
  <2>1. (h.hdr_ext_len < 2 \/ h.hdr_ext_len % 2 # 0) \in BOOLEAN OBVIOUS
  <2> QED BY <2>1, ErrorNames, RefuseIs, Zenon
<1>8. IsRead(s8, dst, dst + 16)
  <2> HIDE DEF dst
  <2>1. dst \in Int /\ dst + 16 \in Int BY <1>b
  <2> QED BY <2>1, TouchIs, Zenon
<1>9. ExtSteps(type, h) = s
  <2> DEFINE a == <<s1, s2, s3, s4, s5, s6>>
             b == <<s7, s8>>
  <2>1. ExtSteps(type, h) = a \o b BY DEF ExtSteps
  <2> HIDE DEF s1, s2, s3, s4, s5, s6, s7, s8
  <2> DEFINE T == {s1, s2, s3, s4, s5, s6, s7, s8}
  <2>a. a \in Seq(T) /\ b \in Seq(T) /\ s \in Seq(T) /\ Len(a) = 6 /\ Len(b) = 2 /\ Len(s) = 8 OBVIOUS
  <2>b. \A i \in 1 .. 8 : s[i] = IF i <= 6 THEN a[i] ELSE b[i - 6] OBVIOUS
  <2> HIDE DEF a, b, s, T
  <2>2. a \o b = s BY <2>a, <2>b, Joined
  <2> QED BY <2>1, <2>2
<1> HIDE DEF s1, s2, s3, s4, s5, s6, s7, s8
<1>10. ~s1.when => room BY <1>0, <1>1 DEF MAX_HEADERS
<1>11. ~s3.when => 8 <= size BY <1>0, <1>3
<1>12. ~s6.when => length <= size BY <1>0, <1>6
<1>13. ~s7.when => h.hdr_ext_len >= 2 /\ h.hdr_ext_len % 2 = 0 BY <1>0, <1>7
<1>14. s1 \in Steps /\ s2 \in Steps /\ s3 \in Steps /\ s4 \in Steps /\ s5 \in Steps /\ s6 \in Steps /\ s7 \in Steps /\ s8 \in Steps
  BY <1>1, <1>2, <1>3, <1>4, <1>5, <1>6, <1>7, <1>8 DEF IsCheck, IsRead
<1>15. /\ s \in Seq(Steps) /\ Len(s) = 8
      /\ s[1] = s1 /\ s[2] = s2 /\ s[3] = s3 /\ s[4] = s4 /\ s[5] = s5 /\ s[6] = s6 /\ s[7] = s7 /\ s[8] = s8
  BY <1>14
<1> HIDE DEF s
<1>16. Passed(s, 4) => ~s1.when /\ ~s2.when /\ ~s3.when /\ ~s4.when
  BY <1>15 DEF Passed
<1>17. Passed(s, 8) => ~s1.when /\ ~s2.when /\ ~s3.when /\ ~s4.when /\ ~s5.when /\ ~s6.when /\ ~s7.when /\ ~s8.when
  BY <1>15 DEF Passed
<1>18. Passed(s, 4) => 0 <= 0 /\ 0 <= 8 /\ 8 <= size
  BY <1>0, <1>10, <1>11, <1>12, <1>13, <1>16
<1>19. Passed(s, 8) => 0 <= dst /\ dst <= dst + 16 /\ dst + 16 <= size
  <2>1. \A n \in Nat : n >= 2 /\ n % 2 = 0 => n \div 2 >= 1 /\ 2 * (n \div 2) = n /\ n \div 2 \in Nat OBVIOUS
  <2> DEFINE n == h.hdr_ext_len
             q == n \div 2
  <2>2. Passed(s, 8) => n >= 2 /\ q >= 1 /\ 2 * q = n /\ q \in Nat BY <1>0, <1>13, <1>17, <2>1
  <2>3. Passed(s, 8) => length <= size BY <1>12, <1>17
  <2>4. length = 8 * (n + 1) /\ dst \in Int /\ (dst = 8 \/ dst = 8 + 16 * (q - 1)) /\ n \in Nat /\ size \in Nat
    BY <1>a, <1>b, <1>0
  <2> HIDE DEF length, dst, n, q
  <2> QED BY <2>2, <2>3, <2>4
<1>20. Safe(s, size)
  <2>1. ASSUME NEW i \in 1 .. 8
        PROVE  /\ s[i].when => s[i].err # "None"
               /\ Passed(s, i) => 0 <= s[i].from /\ s[i].from <= s[i].to /\ s[i].to <= size
    <3>1. CASE i = 1 BY <1>0, <1>1, <1>15, <3>1 DEF IsCheck
    <3>2. CASE i = 2 BY <1>0, <1>2, <1>15, <3>2 DEF IsCheck
    <3>3. CASE i = 3 BY <1>0, <1>3, <1>15, <3>3 DEF IsCheck
    <3>4. CASE i = 4 BY <1>4, <1>15, <1>18, <3>4 DEF IsRead
    <3>5. CASE i = 5 BY <1>0, <1>5, <1>15, <3>5 DEF IsCheck
    <3>6. CASE i = 6 BY <1>0, <1>6, <1>15, <3>6 DEF IsCheck
    <3>7. CASE i = 7 BY <1>0, <1>7, <1>15, <3>7 DEF IsCheck
    <3>8. CASE i = 8 BY <1>8, <1>15, <1>19, <3>8 DEF IsRead
    <3> QED BY <3>1, <3>2, <3>3, <3>4, <3>5, <3>6, <3>7, <3>8
  <2> QED BY <1>15, <2>1 DEF Safe
<1>21. Passed(s, Len(s)) => length <= size /\ room
  BY <1>0, <1>10, <1>11, <1>12, <1>13, <1>15, <1>17
<1> QED BY <1>9, <1>20, <1>21 DEF ParserSafe

-----------------------------------------------------------------------------
(* The invariant                                                           *)

Networks == {"none", "ipv4", "ipv6", "arp"}
Errors   == ParseErrors \cup {"UnsupportedLinktype", "UnsupportedNetworkType",
                              "UnsupportedTransportType"}

(* Names of protocols and addresses.                                       *)
Names == STRING \cup {"none"}

(* The Packets there can be: the chains of tags and extension headers keep *)
(* their limits.                                                           *)
Records == [vlan_tags : 0 .. MAX_TAGS, network : Networks,
            ipv6_ext  : Seq([next_header : Names, final_dst : Names]),
            transport : {"none"} \cup Transports,
            payload   : [at : Nat, size : Nat],
            ip        : [length : Nat, protocol : Names, dst : Names]]
Packets == {p \in Records : Len(p.ipv6_ext) \in 0 .. MAX_HEADERS}

(* The Packet before the header to is parsed: layer 4 follows a network    *)
(* header only, and an extension header IPv6 only.                         *)
Kept(p, to) == /\ p \in Packets
               /\ to = "layer4" => p.network \in {"ipv4", "ipv6"}
               /\ to = "ext" => p.network = "ipv6"

(* What a flow key is made from is there.                                  *)
Keyed(p) == \/ p.network = "arp"
            \/ p.network = "ipv4" /\ p.transport \in {"tcp", "udp", "icmp"}
            \/ p.network = "ipv6" /\ p.transport \in {"tcp", "udp", "icmpv6"}

PInv == /\ config \in Configs /\ frame \in Frames
        /\ at \in Nat /\ size \in Nat /\ at + size <= frame.incl
        /\ Kept(pkt, pc) /\ err \in Errors
        /\ (pc = "done" /\ err = "None" => Keyed(pkt))
        /\ ReadsInBounds

(* What the parse functions find.                                          *)
LEMMA PInvTyped == PInv => Typed
<1>1. ASSUME config \in Configs PROVE config.verify_checksum \in BOOLEAN
  BY <1>1, FramesAssumption
<1> QED BY <1>1 DEF PInv, Typed

(* The invariant says what the properties say.                             *)
LEMMA PInvImplies == PInv => TypeOK /\ ReadsInBounds /\ CarriesKey
<1> SUFFICES ASSUME PInv PROVE TypeOK /\ ReadsInBounds /\ CarriesKey OBVIOUS
<1>1. pkt \in Packets BY DEF PInv, Kept
<1>2. /\ pkt.vlan_tags \in 0 .. MAX_TAGS /\ pkt.network \in Networks
      /\ pkt.transport \in {"none"} \cup Transports /\ Len(pkt.ipv6_ext) \in 0 .. MAX_HEADERS
  BY <1>1 DEF Packets, Records
<1>3. TypeOK BY <1>2 DEF PInv, TypeOK, Networks, Errors, ParseErrors
<1>4. CarriesKey BY DEF PInv, CarriesKey, Keyed
<1> QED BY <1>3, <1>4 DEF PInv

-----------------------------------------------------------------------------
(* One header                                                              *)

(* Whatever the bytes read as, the header has the fields of its kind.      *)
LEMMA HereFields ==
    ASSUME PInv, NEW kind \in Kinds, NEW h \in Here(kind)
    PROVE  Fields(kind, h)
<1> DEFINE sent == {g \in Range(frame.hdrs) : g.at = at /\ g.kind = kind}
<1>1. CASE sent = {} BY <1>1, FramesAssumption DEF Here
<1>2. CASE sent # {}
  <2>1. h \in Range(frame.hdrs) /\ h.kind = kind BY <1>2 DEF Here
  <2>2. frame \in Frames BY DEF PInv
  <2> QED BY <2>1, <2>2, FramesAssumption
<1> QED BY <1>1, <1>2

(* A checksum verifies or not.                                             *)
LEMMA VerifiedType ==
    ASSUME NEW kind \in {"ipv4"} \cup Transports, NEW h, Fields(kind, h),
           NEW n, NEW pseudo, NEW b \in Verified(h, n, pseudo)
    PROVE  b \in BOOLEAN
<1>1. h.sum.ok \in BOOLEAN BY DEF Fields
<1> QED BY <1>1 DEF Verified

(* What a parse function leaves when it returns no error keeps the         *)
(* invariant; when it returns one, the span and the Packet are as before.  *)
Leaves(eat, keep, p, to) ==
    /\ eat \in Nat /\ keep \in Nat /\ eat + keep <= size
    /\ Kept(p, to) /\ (to = "done" => Keyed(p))

(* So a parse keeps the invariant.                                         *)
LEMMA ParseKeeps ==
    ASSUME PInv, NEW steps, NEW eat, NEW keep, NEW p, NEW follows, NEW to, NEW post,
           ParserSafe(steps, size, post), post => Leaves(eat, keep, p, to),
           Parse(steps, eat, keep, p, follows, to)
    PROVE  PInv'
<1> DEFINE out == Outcome(steps)
<1>1. at \in Nat /\ size \in Nat /\ at + size <= frame.incl /\ frame.incl \in Nat
  BY FramesAssumption DEF PInv
<1>2. Reported(out, steps, size) BY <1>1, SafeOutcome DEF ParserSafe
<1>3. /\ err' = out.err /\ reads' = [ranges |-> out.reads, size |-> size]
      /\ at' = (IF out.err = "None" THEN at + eat ELSE at)
      /\ size' = (IF out.err = "None" THEN keep ELSE size)
      /\ pkt' = (IF out.err = "None" THEN p ELSE pkt)
      /\ pc' = (IF out.err = "None" THEN to ELSE "done")
      /\ config' = config /\ frame' = frame
  BY DEF Parse
<1> HIDE DEF out
<1>4. ReadsInBounds' BY <1>2, <1>3 DEF ReadsInBounds, Reported
<1>5. err' \in Errors BY <1>2, <1>3 DEF Reported, Errors
<1>6. config' \in Configs /\ frame' \in Frames BY <1>3 DEF PInv
<1>7. CASE out.err = "None"
  <2>1. post BY <1>2, <1>7 DEF Reported, ParserSafe
  <2>2. Leaves(eat, keep, p, to) BY <2>1
  <2>3. at' = at + eat /\ size' = keep /\ pkt' = p /\ pc' = to BY <1>3, <1>7
  <2>4. at' \in Nat /\ size' \in Nat /\ at' + size' <= frame'.incl
    BY <1>1, <1>3, <2>2, <2>3 DEF Leaves
  <2>5. Kept(pkt', pc') /\ (pc' = "done" => Keyed(pkt')) BY <2>2, <2>3 DEF Leaves
  <2> QED BY <1>4, <1>5, <1>6, <2>4, <2>5 DEF PInv
<1>8. CASE out.err # "None"
  <2>1. at' = at /\ size' = size /\ pkt' = pkt /\ pc' = "done" /\ err' # "None" BY <1>3, <1>8
  <2>2. Kept(pkt', pc') BY <2>1 DEF PInv, Kept
  <2> QED BY <1>1, <1>3, <1>4, <1>5, <1>6, <2>1, <2>2 DEF PInv
<1> QED BY <1>7, <1>8

(* A layer without a parser keeps it too.                                  *)
LEMMA UnsupportedKeeps ==
    ASSUME PInv, NEW e \in Errors \ {"None"}, Unsupported(e)
    PROVE  PInv'
<1>1. /\ err' = e /\ pc' = "done" /\ config' = config /\ frame' = frame
      /\ at' = at /\ size' = size /\ pkt' = pkt /\ reads' = reads
  BY DEF Unsupported
<1>2. ReadsInBounds' BY <1>1 DEF PInv, ReadsInBounds
<1>3. Kept(pkt', pc') BY <1>1 DEF PInv, Kept
<1> QED BY <1>1, <1>2, <1>3 DEF PInv

-----------------------------------------------------------------------------
(* The actions                                                             *)

(* The network layer of an ethertype.                                      *)
LEMMA NamedNetwork == \A e : NetworkFromEthertype(e) \in Networks
BY DEF NetworkFromEthertype, Networks

(* The transport of a protocol number.                                     *)
LEMMA NamedTransport == \A q : TransportFromProtocol(q) \in {"none"} \cup Transports
BY DEF TransportFromProtocol

(* A Packet with one field written anew is a Packet.                       *)
LEMMA TagWritten ==
    ASSUME NEW p \in Packets, NEW v \in 0 .. MAX_TAGS, NEW q, q = [p EXCEPT !.vlan_tags = v]
    PROVE  q \in Packets /\ q.network = p.network
BY DEF Packets, Records

(* The network.                                                            *)
LEMMA NetworkWritten ==
    ASSUME NEW p \in Packets, NEW v \in Networks, NEW q, q = [p EXCEPT !.network = v]
    PROVE  q \in Packets /\ q.network = v
BY DEF Packets, Records

(* The transport.                                                          *)
LEMMA TransportWritten ==
    ASSUME NEW p \in Packets, NEW v \in {"none"} \cup Transports,
           NEW q, q = [p EXCEPT !.transport = v]
    PROVE  q \in Packets /\ q.network = p.network
BY DEF Packets, Records

(* What the network header says.                                           *)
LEMMA IpWritten ==
    ASSUME NEW p \in Packets, NEW v \in [length : Nat, protocol : Names, dst : Names],
           NEW q, q = [p EXCEPT !.ip = v]
    PROVE  q \in Packets /\ q.network = p.network
BY DEF Packets, Records

(* The payload.                                                            *)
LEMMA PayloadWritten ==
    ASSUME NEW p \in Packets, NEW v \in [at : Nat, size : Nat],
           NEW q, q = [p EXCEPT !.payload = v]
    PROVE  q \in Packets /\ q.network = p.network /\ q.transport = p.transport
BY DEF Packets, Records

(* An extension header noted in it, where there is room.                   *)
LEMMA ExtNoted ==
    ASSUME NEW p \in Packets, NEW e \in [next_header : Names, final_dst : Names],
           Len(p.ipv6_ext) + 1 \in 0 .. MAX_HEADERS,
           NEW q, q = [p EXCEPT !.ipv6_ext = Append(@, e)]
    PROVE  q \in Packets /\ q.network = p.network
<1> DEFINE E == [next_header : Names, final_dst : Names]
           a == Append(p.ipv6_ext, e)
<1>1. p \in Records /\ p.ipv6_ext \in Seq(E) BY DEF Packets, Records
<1>2. a \in Seq(E) /\ Len(a) = Len(p.ipv6_ext) + 1
  <2> HIDE DEF E
  <2>1. e \in E BY DEF E
  <2> QED BY <1>1, <2>1, AppendProperties
<1>3. q = [p EXCEPT !.ipv6_ext = a] OBVIOUS
<1> HIDE DEF a
<1>4. q \in Records /\ q.ipv6_ext = a /\ q.network = p.network BY <1>1, <1>2, <1>3 DEF Records
<1> QED BY <1>2, <1>4 DEF Packets

(* Layer 2: the next header is a tag or the network layer's.               *)
LEMMA Layer2Keeps ==
    ASSUME PInv, NEW h, NEW steps, NEW eat \in Nat, NEW p, NEW post,
           ParserSafe(steps, size, post), post => eat <= size /\ p \in Packets,
           Layer2(h, steps, eat, p)
    PROVE  PInv'
<1>1. size \in Nat BY DEF PInv
<1>2. post => eat \in Nat /\ size - eat \in Nat /\ eat + (size - eat) <= size BY <1>1
<1>3. CASE h.ethertype = "vlan"
  <2>1. Parse(steps, eat, size - eat, p, "vlan", "vlan") BY <1>3 DEF Layer2
  <2>2. post => Leaves(eat, size - eat, p, "vlan") BY <1>2 DEF Leaves, Kept
  <2> QED BY <2>1, <2>2, ParseKeeps
<1>4. CASE h.ethertype # "vlan"
  <2> DEFINE q == [p EXCEPT !.network = NetworkFromEthertype(h.ethertype)]
  <2>1. Parse(steps, eat, size - eat, q, h.ethertype, "layer3") BY <1>4 DEF Layer2
  <2>2. post => q \in Packets BY NamedNetwork, NetworkWritten
  <2> HIDE DEF q
  <2>3. post => Leaves(eat, size - eat, q, "layer3") BY <1>2, <2>2 DEF Leaves, Kept
  <2> QED BY <2>1, <2>3, ParseKeeps
<1> QED BY <1>3, <1>4

(* The first header.                                                       *)
LEMMA EthernetKeeps == ASSUME PInv, Ethernet PROVE PInv'
<1>1. PICK h \in Here("eth") : Layer2(h, EthernetSteps(h), 14, pkt) BY DEF Ethernet
<1>2. ParserSafe(EthernetSteps(h), size, 14 <= size) BY PInvTyped, EthernetSafe
<1>3. pkt \in Packets BY DEF PInv, Kept
<1> QED BY <1>1, <1>2, <1>3, Layer2Keeps

(* A VLAN tag.                                                             *)
LEMMA VlanKeeps == ASSUME PInv, Vlan PROVE PInv'
<1> DEFINE q == [pkt EXCEPT !.vlan_tags = @ + 1]
           post == 4 <= size /\ pkt.vlan_tags + 1 \in 0 .. MAX_TAGS
<1>1. PICK h \in Here("vlan") : Layer2(h, VlanSteps(h), 4, q) BY DEF Vlan
<1>2. pkt \in Packets BY DEF PInv, Kept
<1>3. pkt.vlan_tags \in 0 .. MAX_TAGS BY <1>2 DEF Packets, Records
<1>4. Fields("vlan", h)
  <2>1. "vlan" \in Kinds BY DEF Kinds
  <2> QED BY <2>1, HereFields
<1>5. ParserSafe(VlanSteps(h), size, post) BY <1>3, <1>4, PInvTyped, VlanSafe
<1>6. post => q \in Packets BY <1>2, TagWritten
<1>7. post => 4 <= size OBVIOUS
<1> HIDE DEF q, post
<1> QED BY <1>1, <1>5, <1>6, <1>7, Layer2Keeps

(* IPv4: the span is cut to the length the header states.                  *)
LEMMA Ipv4Keeps == ASSUME PInv, Ipv4 PROVE PInv'
<1>a. PICK h \in Here("ipv4") : \E sum_ok \in Verified(h, 4 * h.ihl, "none") :
         Parse(Ipv4Steps(h, sum_ok), 4 * h.ihl, h.total_length - 4 * h.ihl,
               [pkt EXCEPT !.transport = TransportFromProtocol(h.protocol),
                           !.ip = [length |-> h.total_length - 4 * h.ihl,
                                   protocol |-> h.protocol, dst |-> h.dst]],
               h.protocol, "layer4")
  BY DEF Ipv4
<1>1. PICK sum_ok \in Verified(h, 4 * h.ihl, "none") :
         Parse(Ipv4Steps(h, sum_ok), 4 * h.ihl, h.total_length - 4 * h.ihl,
               [pkt EXCEPT !.transport = TransportFromProtocol(h.protocol),
                           !.ip = [length |-> h.total_length - 4 * h.ihl,
                                   protocol |-> h.protocol, dst |-> h.dst]],
               h.protocol, "layer4")
  BY <1>a
<1> DEFINE eat  == 4 * h.ihl
           keep == h.total_length - 4 * h.ihl
           t    == TransportFromProtocol(h.protocol)
           ip   == [length |-> keep, protocol |-> h.protocol, dst |-> h.dst]
           p    == [pkt EXCEPT !.transport = t]
           q    == [p EXCEPT !.ip = ip]
           post == 4 * h.ihl <= h.total_length /\ h.total_length <= size
<1>2. Fields("ipv4", h)
  <2>1. "ipv4" \in Kinds BY DEF Kinds
  <2> QED BY <2>1, HereFields
<1>3. sum_ok \in BOOLEAN BY <1>2, VerifiedType
<1>4. ParserSafe(Ipv4Steps(h, sum_ok), size, post) BY <1>2, <1>3, PInvTyped, Ipv4Safe
<1>5. /\ h.ihl \in Nat /\ h.total_length \in Nat /\ h.protocol \in STRING /\ h.dst \in STRING
      /\ size \in Nat
  BY <1>2 DEF Fields, PInv
<1>6. post => eat \in Nat /\ keep \in Nat /\ eat + keep <= size BY <1>5
<1>7. pkt \in Packets /\ pkt.network = "ipv4" BY DEF PInv, Kept, Ipv4
<1>8. Parse(Ipv4Steps(h, sum_ok), eat, keep, q, h.protocol, "layer4")
  <2>1. q = [pkt EXCEPT !.transport = t, !.ip = ip] OBVIOUS
  <2> QED BY <1>1, <2>1
<1> HIDE DEF eat, keep, t
<1>9. p \in Packets /\ p.network = "ipv4" BY <1>7, NamedTransport, TransportWritten DEF t
<1>10. post => ip \in [length : Nat, protocol : Names, dst : Names] BY <1>5, <1>6 DEF Names
<1> HIDE DEF ip, p
<1>11. post => q \in Packets /\ q.network = "ipv4" BY <1>9, <1>10, IpWritten
<1> HIDE DEF q, post
<1>12. post => Leaves(eat, keep, q, "layer4") BY <1>6, <1>11 DEF Leaves, Kept
<1> QED BY <1>4, <1>8, <1>12, ParseKeeps

(* Behind an IPv6 header: an extension header or layer 4.                  *)
LEMMA Layer3Keeps ==
    ASSUME PInv, NEW steps, NEW eat, NEW keep, NEW p, NEW n, NEW fragment \in BOOLEAN, NEW post,
           ParserSafe(steps, size, post),
           post => /\ eat \in Nat /\ keep \in Nat /\ eat + keep <= size
                   /\ p \in Packets /\ p.network = "ipv6",
           Layer3(steps, eat, keep, p, n, fragment)
    PROVE  PInv'
<1>1. CASE n \in Extensions /\ ~fragment
  <2>1. Parse(steps, eat, keep, p, n, "ext") BY <1>1 DEF Layer3
  <2>2. post => Leaves(eat, keep, p, "ext") BY DEF Leaves, Kept
  <2> QED BY <2>1, <2>2, ParseKeeps
<1>2. CASE ~(n \in Extensions /\ ~fragment)
  <2> DEFINE v == IF fragment THEN p.transport ELSE TransportFromProtocol(n)
             q == [p EXCEPT !.transport = v]
  <2>1. Parse(steps, eat, keep, q, n, "layer4") BY <1>2 DEF Layer3
  <2>2. p \in Packets => v \in {"none"} \cup Transports
    BY NamedTransport DEF Packets, Records
  <2> HIDE DEF v
  <2>3. post => q \in Packets /\ q.network = "ipv6" BY <2>2, TransportWritten
  <2> HIDE DEF q
  <2>4. post => Leaves(eat, keep, q, "layer4") BY <2>3 DEF Leaves, Kept
  <2> QED BY <2>1, <2>4, ParseKeeps
<1> QED BY <1>1, <1>2

(* IPv6.                                                                   *)
LEMMA Ipv6Keeps == ASSUME PInv, Ipv6 PROVE PInv'
<1>1. PICK h \in Here("ipv6") :
          Layer3(Ipv6Steps(h), 40, h.payload_length,
                 [pkt EXCEPT !.ip = [length |-> h.payload_length,
                                     protocol |-> h.next_header, dst |-> h.dst]],
                 h.next_header, FALSE)
  BY DEF Ipv6
<1> DEFINE ip   == [length |-> h.payload_length, protocol |-> h.next_header, dst |-> h.dst]
           q    == [pkt EXCEPT !.ip = ip]
           post == 40 + h.payload_length <= size
<1>2. Fields("ipv6", h)
  <2>1. "ipv6" \in Kinds BY DEF Kinds
  <2> QED BY <2>1, HereFields
<1>3. ParserSafe(Ipv6Steps(h), size, post) BY <1>2, PInvTyped, Ipv6Safe
<1>4. h.payload_length \in Nat /\ h.next_header \in STRING /\ h.dst \in STRING
  BY <1>2 DEF Fields
<1>5. pkt \in Packets /\ pkt.network = "ipv6" BY DEF PInv, Kept, Ipv6
<1>6. ip \in [length : Nat, protocol : Names, dst : Names] BY <1>4 DEF Names
<1> HIDE DEF ip
<1>7. q \in Packets /\ q.network = "ipv6" BY <1>5, <1>6, IpWritten
<1>8. Layer3(Ipv6Steps(h), 40, h.payload_length, q, h.next_header, FALSE) BY <1>1 DEF ip
<1> HIDE DEF q
<1>9. post => /\ 40 \in Nat /\ h.payload_length \in Nat /\ 40 + h.payload_length <= size
              /\ q \in Packets /\ q.network = "ipv6"
  BY <1>4, <1>7
<1> HIDE DEF post
<1> QED BY <1>3, <1>8, <1>9, Layer3Keeps

(* The final destination read is an address, or there is none.             *)
LEMMA FinalDstType ==
    ASSUME NEW type, NEW h, Fields("ext", h)
    PROVE  FinalDst(type, h) \in Names
<1>1. h.addrs \in Seq(STRING) BY DEF Fields
<1>2. \A i \in DOMAIN h.addrs : h.addrs[i] \in STRING BY <1>1
<1> DEFINE i == (FinalDstOffset(h) - 8) \div 16 + 1
           named == Addressed(type, h) /\ i \in DOMAIN h.addrs
<1>3. FinalDst(type, h) = IF named THEN h.addrs[i] ELSE "none" BY DEF FinalDst
<1>4. named => h.addrs[i] \in Names
  <2> HIDE DEF i
  <2> QED BY <1>2 DEF Names
<1>5. "none" \in Names BY DEF Names
<1>6. CASE named
  <2> HIDE DEF i, named
  <2> QED BY <1>3, <1>4, <1>6
<1>7. CASE ~named
  <2> HIDE DEF i, named
  <2>1. FinalDst(type, h) = "none" BY <1>3, <1>7
  <2> QED BY <2>1, <1>5, Zenon
<1> QED BY <1>6, <1>7

(* An extension header.                                                    *)
LEMMA ExtKeeps == ASSUME PInv, Ext PROVE PInv'
<1> DEFINE length(h) == ExtLength(next, h.hdr_ext_len)
           e(h) == [next_header |-> h.next_header, final_dst |-> FinalDst(next, h)]
           q(h) == [pkt EXCEPT !.ipv6_ext = Append(@, e(h))]
           f(h) == next = "frag" /\ h.fragment
<1>1. PICK h \in Here("ext") :
         Layer3(ExtSteps(next, h), length(h), size - length(h), q(h), h.next_header, f(h))
  BY DEF Ext
<1> DEFINE post == /\ ExtLength(next, h.hdr_ext_len) <= size
                   /\ Len(pkt.ipv6_ext) + 1 \in 0 .. MAX_HEADERS
<1>2. Fields("ext", h)
  <2>1. "ext" \in Kinds BY DEF Kinds
  <2> QED BY <2>1, HereFields
<1>3. pkt \in Packets /\ pkt.network = "ipv6" /\ size \in Nat BY DEF PInv, Kept, Ext
<1>4. Len(pkt.ipv6_ext) \in 0 .. MAX_HEADERS BY <1>3 DEF Packets
<1>5. ParserSafe(ExtSteps(next, h), size, post)
  <2>1. CASE Addressed(next, h) BY <1>2, <1>4, <2>1, PInvTyped, RouteExtSafe
  <2>2. CASE ~Addressed(next, h) BY <1>2, <1>4, <2>2, PInvTyped, PlainExtSafe
  <2> QED BY <2>1, <2>2
<1>6. e(h) \in [next_header : Names, final_dst : Names]
  <2>1. h.next_header \in Names BY <1>2 DEF Fields, Names
  <2>2. FinalDst(next, h) \in Names BY <1>2, FinalDstType
  <2> QED BY <2>1, <2>2
<1>7. post => q(h) \in Packets /\ q(h).network = "ipv6"
  <2> HIDE DEF e
  <2> QED BY <1>3, <1>6, ExtNoted
<1>8. length(h) \in Nat
  <2>1. h.hdr_ext_len \in Nat BY <1>2 DEF Fields
  <2> QED BY <2>1 DEF ExtLength
<1>9. post => length(h) <= size OBVIOUS
<1>10. f(h) \in BOOLEAN
  <2>1. h.fragment \in BOOLEAN BY <1>2 DEF Fields
  <2> QED BY <2>1
<1> HIDE DEF length, e, q, f, post
<1>11. post => /\ length(h) \in Nat /\ size - length(h) \in Nat
               /\ length(h) + (size - length(h)) <= size
  BY <1>3, <1>8, <1>9
<1> QED BY <1>1, <1>5, <1>7, <1>10, <1>11, Layer3Keeps

(* ARP.                                                                    *)
LEMMA ArpKeeps == ASSUME PInv, Arp PROVE PInv'
<1> DEFINE n(h) == 8 + 2 * h.hlen + 2 * h.plen
<1>1. PICK h \in Here("arp") : Parse(ArpSteps(h), n(h), size - n(h), pkt, next, "done")
  BY DEF Arp
<1> DEFINE post == 8 + 2 * h.hlen + 2 * h.plen <= size
<1>2. Fields("arp", h)
  <2>1. "arp" \in Kinds BY DEF Kinds
  <2> QED BY <2>1, HereFields
<1>3. ParserSafe(ArpSteps(h), size, post) BY <1>2, PInvTyped, ArpSafe
<1>4. h.hlen \in Nat /\ h.plen \in Nat /\ size \in Nat BY <1>2 DEF Fields, PInv
<1>5. post => n(h) \in Nat /\ size - n(h) \in Nat /\ n(h) + (size - n(h)) <= size BY <1>4
<1>6. Kept(pkt, "done") /\ Keyed(pkt) BY DEF PInv, Kept, Keyed, Arp
<1> HIDE DEF n, post
<1>7. post => Leaves(n(h), size - n(h), pkt, "done") BY <1>5, <1>6 DEF Leaves
<1> QED BY <1>1, <1>3, <1>7, ParseKeeps

-----------------------------------------------------------------------------
(* Layer 4                                                                 *)

(* The length the checksum is over.                                        *)
LEMMA PseudoLength == ASSUME PInv PROVE PseudoHeader.length \in Nat
<1>1. pkt.ip.length \in Nat
  <2>1. pkt \in Records BY DEF PInv, Kept, Packets
  <2> QED BY <2>1 DEF Records
<1>2. size % 65536 \in Nat
  <2>1. size \in Nat BY DEF PInv
  <2> QED BY <2>1
<1>3. PseudoHeader.length = pkt.ip.length \/ PseudoHeader.length = size % 65536
  <2>1. CASE pkt.network = "ipv4" \/ pkt.ipv6_ext = <<>> BY <2>1 DEF PseudoHeader
  <2>2. CASE ~(pkt.network = "ipv4" \/ pkt.ipv6_ext = <<>>) BY <2>2 DEF PseudoHeader
  <2> QED BY <2>1, <2>2
<1> QED BY <1>1, <1>2, <1>3

(* A transport header: the payload is what is left.                        *)
LEMMA Layer4Keeps ==
    ASSUME PInv, NEW transport \in Transports, Parser(transport),
           NEW steps, NEW eat \in Nat, NEW keep, NEW post,
           ParserSafe(steps, size, post), post => keep \in Nat /\ eat + keep <= size,
           Layer4(steps, eat, keep)
    PROVE  PInv'
<1> DEFINE v == [at |-> at + eat, size |-> keep]
           q == [pkt EXCEPT !.payload = v]
<1>1. Parse(steps, eat, keep, q, next, "done") BY DEF Layer4
<1>2. pkt \in Packets /\ pkt.network \in {"ipv4", "ipv6"} /\ pkt.transport = transport
  BY DEF PInv, Kept, Parser
<1>3. Keyed(pkt) BY <1>2 DEF Keyed, Parser, Transports
<1>4. post => v \in [at : Nat, size : Nat]
  <2>1. at + eat \in Nat BY DEF PInv
  <2> QED BY <2>1
<1> HIDE DEF v
<1>5. post => q \in Packets /\ q.network = pkt.network /\ q.transport = pkt.transport
  BY <1>2, <1>4, PayloadWritten
<1> HIDE DEF q
<1>6. post => Leaves(eat, keep, q, "done") BY <1>3, <1>5 DEF Leaves, Kept, Keyed
<1> QED BY <1>1, <1>6, ParseKeeps

(* TCP.                                                                    *)
LEMMA TcpKeeps == ASSUME PInv, Tcp PROVE PInv'
<1>a. PICK h \in Here("tcp") : \E sum_ok \in Verified(h, PseudoHeader.length, PseudoHeader) :
         Layer4(TcpSteps(h, sum_ok), 4 * h.data_offset, size - 4 * h.data_offset)
  BY DEF Tcp
<1>1. PICK sum_ok \in Verified(h, PseudoHeader.length, PseudoHeader) :
         Layer4(TcpSteps(h, sum_ok), 4 * h.data_offset, size - 4 * h.data_offset)
  BY <1>a
<1> DEFINE eat  == 4 * h.data_offset
           post == 4 * h.data_offset <= size
<1>2. Fields("tcp", h) /\ "tcp" \in Transports
  <2>1. "tcp" \in Kinds /\ "tcp" \in Transports BY DEF Kinds, Transports
  <2> QED BY <2>1, HereFields
<1>3. sum_ok \in BOOLEAN BY <1>2, VerifiedType
<1>4. ParserSafe(TcpSteps(h, sum_ok), size, post) BY <1>2, <1>3, PInvTyped, PseudoLength, TcpSafe
<1>5. h.data_offset \in Nat /\ size \in Nat BY <1>2 DEF Fields, PInv
<1>6. eat \in Nat /\ (post => size - eat \in Nat /\ eat + (size - eat) <= size) BY <1>5
<1>7. Parser("tcp") BY DEF Tcp
<1> HIDE DEF post, eat
<1>8. Layer4(TcpSteps(h, sum_ok), eat, size - eat) BY <1>1 DEF eat
<1> QED BY <1>2, <1>4, <1>6, <1>7, <1>8, Layer4Keeps

(* UDP.                                                                    *)
LEMMA UdpKeeps == ASSUME PInv, Udp PROVE PInv'
<1>a. PICK h \in Here("udp") : \E sum_ok \in Verified(h, h.length, PseudoHeader) :
         Layer4(UdpSteps(h, sum_ok), 8, h.length - 8)
  BY DEF Udp
<1>1. PICK sum_ok \in Verified(h, h.length, PseudoHeader) :
         Layer4(UdpSteps(h, sum_ok), 8, h.length - 8)
  BY <1>a
<1> DEFINE post == 8 <= h.length /\ h.length <= size
<1>2. Fields("udp", h) /\ "udp" \in Transports
  <2>1. "udp" \in Kinds /\ "udp" \in Transports BY DEF Kinds, Transports
  <2> QED BY <2>1, HereFields
<1>3. sum_ok \in BOOLEAN BY <1>2, VerifiedType
<1>4. ParserSafe(UdpSteps(h, sum_ok), size, post) BY <1>2, <1>3, PInvTyped, UdpSafe
<1>5. h.length \in Nat /\ size \in Nat BY <1>2 DEF Fields, PInv
<1>6. 8 \in Nat /\ (post => h.length - 8 \in Nat /\ 8 + (h.length - 8) <= size) BY <1>5
<1>7. Parser("udp") BY DEF Udp
<1> HIDE DEF post
<1> QED BY <1>1, <1>2, <1>4, <1>6, <1>7, Layer4Keeps

(* ICMP.                                                                   *)
LEMMA IcmpKeeps == ASSUME PInv, Icmp PROVE PInv'
<1>a. PICK h \in Here("icmp") : \E sum_ok \in Verified(h, size, "none") :
         Layer4(IcmpSteps(h, sum_ok), 8, size - 8)
  BY DEF Icmp
<1>1. PICK sum_ok \in Verified(h, size, "none") :
         Layer4(IcmpSteps(h, sum_ok), 8, size - 8)
  BY <1>a
<1> DEFINE post == 8 <= size
<1>2. Fields("icmp", h) /\ "icmp" \in Transports
  <2>1. "icmp" \in Kinds /\ "icmp" \in Transports BY DEF Kinds, Transports
  <2> QED BY <2>1, HereFields
<1>3. sum_ok \in BOOLEAN BY <1>2, VerifiedType
<1>4. ParserSafe(IcmpSteps(h, sum_ok), size, post) BY <1>2, <1>3, PInvTyped, IcmpSafe
<1>5. size \in Nat BY DEF PInv
<1>6. 8 \in Nat /\ (post => size - 8 \in Nat /\ 8 + (size - 8) <= size) BY <1>5
<1>7. Parser("icmp") BY DEF Icmp
<1> HIDE DEF post
<1> QED BY <1>1, <1>2, <1>4, <1>6, <1>7, Layer4Keeps

(* ICMPv6.                                                                 *)
LEMMA Icmpv6Keeps == ASSUME PInv, Icmpv6 PROVE PInv'
<1>a. PICK h \in Here("icmpv6") : \E sum_ok \in Verified(h, PseudoHeader.length, PseudoHeader) :
         Layer4(Icmpv6Steps(h, sum_ok), 8, size - 8)
  BY DEF Icmpv6
<1>1. PICK sum_ok \in Verified(h, PseudoHeader.length, PseudoHeader) :
         Layer4(Icmpv6Steps(h, sum_ok), 8, size - 8)
  BY <1>a
<1> DEFINE post == 8 <= size
<1>2. Fields("icmpv6", h) /\ "icmpv6" \in Transports
  <2>1. "icmpv6" \in Kinds /\ "icmpv6" \in Transports BY DEF Kinds, Transports
  <2> QED BY <2>1, HereFields
<1>3. sum_ok \in BOOLEAN BY <1>2, VerifiedType
<1>4. ParserSafe(Icmpv6Steps(h, sum_ok), size, post)
  BY <1>2, <1>3, PInvTyped, PseudoLength, Icmpv6Safe
<1>5. size \in Nat BY DEF PInv
<1>6. 8 \in Nat /\ (post => size - 8 \in Nat /\ 8 + (size - 8) <= size) BY <1>5
<1>7. Parser("icmpv6") BY DEF Icmpv6
<1> HIDE DEF post
<1> QED BY <1>1, <1>2, <1>4, <1>6, <1>7, Layer4Keeps

-----------------------------------------------------------------------------
(* Frame by frame                                                          *)

(* Packet::reset leaves a Packet with nothing decoded.                     *)
LEMMA ResetPacket ==
    ASSUME NEW p \in Packets
    PROVE  Reset(p) \in Packets
<1> DEFINE a == [p EXCEPT !.vlan_tags = 0]
           b == [a EXCEPT !.network = "none"]
           c == [b EXCEPT !.ipv6_ext = <<>>]
           d == [c EXCEPT !.transport = "none"]
<1>1. a \in Packets
  <2>1. 0 \in 0 .. MAX_TAGS BY DEF MAX_TAGS
  <2> QED BY <2>1, TagWritten
<1>2. Reset(p) = d BY DEF Reset
<1> HIDE DEF a
<1>3. b \in Packets
  <2>1. "none" \in Networks BY DEF Networks
  <2> QED BY <1>1, <2>1, NetworkWritten
<1> HIDE DEF b
<1>4. c \in Packets
  <2>1. b \in Records BY <1>3 DEF Packets
  <2>2. <<>> \in Seq([next_header : Names, final_dst : Names]) /\ Len(<<>>) = 0 OBVIOUS
  <2>3. c \in Records /\ c.ipv6_ext = <<>> BY <2>1, <2>2 DEF Records
  <2>4. Len(c.ipv6_ext) \in 0 .. MAX_HEADERS BY <2>2, <2>3 DEF MAX_HEADERS
  <2> HIDE DEF c
  <2> QED BY <2>3, <2>4 DEF Packets
<1> HIDE DEF c
<1>5. d \in Packets
  <2>1. "none" \in {"none"} \cup Transports OBVIOUS
  <2> QED BY <1>4, <2>1, TransportWritten
<1> QED BY <1>2, <1>5

(* The Packet that main declares.                                          *)
LEMMA FirstPacket == NoPacket \in Packets
<1>1. <<>> \in Seq([next_header : Names, final_dst : Names]) /\ Len(<<>>) = 0 OBVIOUS
<1> DEFINE span == [at |-> 0, size |-> 0]
           ip   == [length |-> 0, protocol |-> "none", dst |-> "none"]
           p    == [vlan_tags |-> 0, network |-> "none", ipv6_ext |-> <<>>,
                    transport |-> "none", payload |-> span, ip |-> ip]
<1>2. NoPacket = p BY DEF NoPacket
<1>3. span \in [at : Nat, size : Nat] /\ ip \in [length : Nat, protocol : Names, dst : Names]
  <2>1. 0 \in Nat OBVIOUS
  <2>2. "none" \in Names BY DEF Names
  <2> QED BY <2>1, <2>2, Zenon
<1>4. 0 \in 0 .. MAX_TAGS /\ 0 \in 0 .. MAX_HEADERS /\ "none" \in Networks
  BY DEF MAX_TAGS, MAX_HEADERS, Networks
<1> HIDE DEF span, ip
<1>5. p \in Records BY <1>1, <1>3, <1>4 DEF Records
<1>6. Len(p.ipv6_ext) \in 0 .. MAX_HEADERS BY <1>1, <1>4
<1> HIDE DEF p
<1> QED BY <1>2, <1>5, <1>6 DEF Packets

(* The first frame.                                                        *)
LEMMA InitPInv == Init => PInv
<1> SUFFICES ASSUME Init PROVE PInv OBVIOUS
<1>1. pkt \in Packets BY FirstPacket, ResetPacket DEF Init
<1>2. Kept(pkt, pc) BY <1>1 DEF Kept, Init
<1>3. frame \in Frames /\ frame.incl \in Nat /\ at = 0 /\ size = frame.incl
  BY FramesAssumption DEF Init
<1>4. ReadsInBounds BY DEF Init, NothingRead, ReadsInBounds
<1>5. config \in Configs /\ err \in Errors /\ pc # "done" BY DEF Init, Errors, ParseErrors
<1> QED BY <1>2, <1>3, <1>4, <1>5 DEF PInv

(* The frames after it, decoded into the same Packet.                      *)
LEMMA NextFrameKeeps == ASSUME PInv, NextFrame PROVE PInv'
<1>1. pkt' \in Packets
  <2>1. pkt \in Packets BY DEF PInv, Kept
  <2> QED BY <2>1, ResetPacket DEF NextFrame
<1>2. pc' = "layer2" BY DEF NextFrame
<1>3. Kept(pkt', pc') BY <1>1, <1>2 DEF Kept
<1>4. frame' \in Frames /\ frame'.incl \in Nat /\ at' = 0 /\ size' = frame'.incl
  BY FramesAssumption DEF NextFrame
<1>5. ReadsInBounds' BY DEF NextFrame, NothingRead, ReadsInBounds
<1>6. config' \in Configs /\ err' \in Errors BY DEF NextFrame, PInv, Errors, ParseErrors
<1> QED BY <1>2, <1>3, <1>4, <1>5, <1>6 DEF PInv

(* Every step keeps the invariant.                                         *)
LEMMA NextPInv == PInv /\ [Next]_vars => PInv'
<1> SUFFICES ASSUME PInv, [Next]_vars PROVE PInv' OBVIOUS
<1>1. CASE Ethernet BY <1>1, EthernetKeeps
<1>2. CASE Vlan BY <1>2, VlanKeeps
<1>3. CASE Ipv4 BY <1>3, Ipv4Keeps
<1>4. CASE Ipv6 BY <1>4, Ipv6Keeps
<1>5. CASE Ext BY <1>5, ExtKeeps
<1>6. CASE Arp BY <1>6, ArpKeeps
<1>7. CASE Tcp BY <1>7, TcpKeeps
<1>8. CASE Udp BY <1>8, UdpKeeps
<1>9. CASE Icmp BY <1>9, IcmpKeeps
<1>10. CASE Icmpv6 BY <1>10, Icmpv6Keeps
<1>11. CASE OtherLink \/ OtherNetwork \/ OtherTransport
  <2>1. PICK e \in Errors \ {"None"} : Unsupported(e)
    BY <1>11 DEF OtherLink, OtherNetwork, OtherTransport, Errors
  <2> QED BY <2>1, UnsupportedKeeps
<1>12. CASE NextFrame BY <1>12, NextFrameKeeps
<1>13. CASE UNCHANGED vars BY <1>13 DEF vars, PInv, Kept, ReadsInBounds
<1> QED BY <1>1, <1>2, <1>3, <1>4, <1>5, <1>6, <1>7, <1>8, <1>9, <1>10, <1>11, <1>12, <1>13
        DEF Next

-----------------------------------------------------------------------------
(* Sound frames: where their headers are                                   *)

(* The headers a sound frame can have.                                     *)
LEMMA KindsLaid ==
    ASSUME NEW f, LaidOut(f), NEW i \in 1 .. Len(f.hdrs)
    PROVE  /\ f.hdrs[i].kind \in Kinds
           /\ i = 1 => f.hdrs[i].kind = "eth"
           /\ i > 1 => /\ i - 1 \in 1 .. Len(f.hdrs) /\ i \in 2 .. Len(f.hdrs)
                       /\ f.hdrs[i].kind \in OnTop(f.hdrs[i - 1])
<1>0. Len(f.hdrs) \in Nat BY LenProperties DEF LaidOut
<1>1. CASE i = 1 BY <1>0, <1>1 DEF LaidOut, Kinds
<1>2. CASE i > 1
  <2>1. i - 1 \in 1 .. Len(f.hdrs) /\ i \in 2 .. Len(f.hdrs) BY <1>0, <1>2
  <2>2. f.hdrs[i].kind \in OnTop(f.hdrs[i - 1]) BY <2>1 DEF LaidOut, Stacked
  <2>3. f.hdrs[i].kind \in Kinds BY <2>2 DEF OnTop, Kinds, Transports
  <2> QED BY <1>2, <2>1, <2>2, <2>3
<1> QED BY <1>1, <1>2

(* Their fields have the types of their kinds.                             *)
LEMMA FieldsLaid ==
    ASSUME NEW f \in Frames, LaidOut(f), NEW i \in 1 .. Len(f.hdrs)
    PROVE  Fields(f.hdrs[i].kind, f.hdrs[i])
<1>1. f.hdrs \in Seq(Range(f.hdrs)) BY DEF LaidOut
<1>2. DOMAIN f.hdrs = 1 .. Len(f.hdrs) BY <1>1, LenProperties
<1>3. f.hdrs[i] \in Range(f.hdrs) BY <1>2 DEF Range
<1> QED BY <1>3, FramesAssumption

(* A header has at least one byte.                                         *)
LEMMA SizeLaid ==
    ASSUME NEW f \in Frames, LaidOut(f), NEW i \in 1 .. Len(f.hdrs)
    PROVE  Size(f, i) \in Nat /\ Size(f, i) >= 1
<1> DEFINE h == f.hdrs[i]
<1>1. Fields(h.kind, h) /\ h.kind \in Kinds BY FieldsLaid, KindsLaid
<1>2. i > 1 => i \in 2 .. Len(f.hdrs) BY KindsLaid
<1>3. i > 1 => FieldsSound(f, i) BY <1>2 DEF LaidOut
<1>4. i = 1 => h.kind = "eth" BY KindsLaid
<1>5. i = 1 \/ i > 1 OBVIOUS
<1>6. CASE h.kind = "eth" BY <1>6 DEF Size
<1>7. CASE h.kind = "vlan" BY <1>7 DEF Size
<1>8. CASE h.kind = "ipv4"
  <2>1. h.ihl \in Nat /\ h.ihl >= 5 BY <1>1, <1>3, <1>4, <1>5, <1>8 DEF Fields, FieldsSound
  <2>2. Size(f, i) = 4 * h.ihl BY <1>8 DEF Size
  <2> QED BY <2>1, <2>2
<1>9. CASE h.kind = "ipv6" BY <1>9 DEF Size
<1>10. CASE h.kind = "ext"
  <2>1. h.hdr_ext_len \in Nat BY <1>1, <1>10 DEF Fields
  <2>2. Size(f, i) = ExtLength(Announces(f.hdrs[i - 1]), h.hdr_ext_len) BY <1>10 DEF Size
  <2>3. \A t : ExtLength(t, h.hdr_ext_len) \in Nat /\ ExtLength(t, h.hdr_ext_len) >= 1
    <3> HIDE DEF h
    <3> QED BY <2>1 DEF ExtLength
  <2> QED BY <2>2, <2>3
<1>11. CASE h.kind = "arp"
  <2>1. h.hlen \in Nat /\ h.plen \in Nat BY <1>1, <1>11 DEF Fields
  <2>2. Size(f, i) = 8 + 2 * h.hlen + 2 * h.plen BY <1>11 DEF Size
  <2> HIDE DEF h
  <2> QED BY <2>1, <2>2
<1>12. CASE h.kind = "tcp"
  <2>1. h.data_offset \in Nat /\ h.data_offset >= 5
    BY <1>1, <1>3, <1>4, <1>5, <1>12 DEF Fields, FieldsSound
  <2>2. Size(f, i) = 4 * h.data_offset BY <1>12 DEF Size
  <2> QED BY <2>1, <2>2
<1>13. CASE h.kind \in {"udp", "icmp", "icmpv6"}
  <2>1. Size(f, i) = 8
    <3>1. CASE h.kind = "udp" BY <3>1 DEF Size
    <3>2. CASE h.kind = "icmp" BY <3>2 DEF Size
    <3>3. CASE h.kind = "icmpv6" BY <3>3 DEF Size
    <3> QED BY <1>13, <3>1, <3>2, <3>3
  <2> QED BY <2>1
<1> QED BY <1>1, <1>6, <1>7, <1>8, <1>9, <1>10, <1>11, <1>12, <1>13 DEF Kinds, Transports

(* The headers before the j-th one end where it begins, or earlier.        *)
Behind(f, j) ==
    /\ f.hdrs[j].at \in Nat
    /\ \A i \in 1 .. j - 1 : f.hdrs[i].at \in Nat /\ f.hdrs[i].at + Size(f, i) <= f.hdrs[j].at

(* Headers do not overlap.                                                 *)
LEMMA Ascending ==
    ASSUME NEW f \in Frames, LaidOut(f), NEW k \in 1 .. Len(f.hdrs)
    PROVE  Behind(f, k)
<1> DEFINE T == {j \in 1 .. Len(f.hdrs) : ~Behind(f, j)}
<1> SUFFICES ASSUME T # {} PROVE FALSE OBVIOUS
<1>1. Len(f.hdrs) \in Nat BY LenProperties DEF LaidOut
<1>2. PICK m \in T : \A y \in T : m <= y
  <2>1. T \in SUBSET Nat OBVIOUS
  <2> HIDE DEF T
  <2> QED BY <2>1, LeastNat
<1>3. m \in 1 .. Len(f.hdrs) /\ m \in Nat /\ ~Behind(f, m) BY <1>1, <1>2
<1>4. CASE m = 1
  <2>1. f.hdrs[1].at = 0 BY DEF LaidOut
  <2>2. 1 .. m - 1 = {} BY <1>4
  <2> QED BY <1>3, <1>4, <2>1, <2>2 DEF Behind
<1>5. CASE m > 1
  <2> DEFINE p == m - 1
  <2>1. p \in 1 .. Len(f.hdrs) /\ m \in 2 .. Len(f.hdrs) /\ ~(m <= p) BY <1>1, <1>3, <1>5
  <2>2. Behind(f, p)
    <3>1. p \notin T BY <1>2, <2>1
    <3> QED BY <2>1, <3>1
  <2>3. f.hdrs[m].at = f.hdrs[p].at + Size(f, p) BY <2>1 DEF LaidOut
  <2>4. Size(f, p) \in Nat BY <2>1, SizeLaid
  <2>5. ASSUME NEW i \in 1 .. m - 1
        PROVE  f.hdrs[i].at \in Nat /\ f.hdrs[i].at + Size(f, i) <= f.hdrs[m].at
    <3>1. CASE i = p BY <2>2, <2>3, <2>4, <3>1 DEF Behind
    <3>2. CASE i # p
      <4>1. i \in 1 .. p - 1 /\ i \in 1 .. Len(f.hdrs) BY <1>3, <2>1, <3>2
      <4>2. Size(f, i) \in Nat BY <4>1, SizeLaid
      <4>3. /\ f.hdrs[i].at \in Nat /\ f.hdrs[p].at \in Nat
            /\ f.hdrs[i].at + Size(f, i) <= f.hdrs[p].at
        BY <2>2, <4>1 DEF Behind
      <4> DEFINE x == f.hdrs[i].at
                 y == f.hdrs[p].at
                 z == f.hdrs[m].at
                 u == Size(f, i)
                 v == Size(f, p)
      <4>4. x \in Nat /\ y \in Nat /\ u \in Nat /\ v \in Nat /\ x + u <= y /\ z = y + v
        BY <2>3, <2>4, <4>2, <4>3
      <4> HIDE DEF x, y, z, u, v
      <4>5. x \in Nat /\ x + u <= z BY <4>4
      <4> QED BY <4>5 DEF x, z, u
    <3> QED BY <3>1, <3>2
  <2>6. f.hdrs[m].at \in Nat BY <2>2, <2>3, <2>4 DEF Behind
  <2> QED BY <1>3, <2>5, <2>6 DEF Behind
<1> QED BY <1>3, <1>4, <1>5

(* And they lie within the frame.                                          *)
LEMMA WithinFrame ==
    ASSUME NEW f \in Frames, LaidOut(f), NEW i \in 1 .. Len(f.hdrs)
    PROVE  /\ f.hdrs[i].at \in Nat /\ Size(f, i) \in Nat /\ f.end \in Nat
           /\ f.hdrs[i].at + Size(f, i) <= f.end
<1> DEFINE n == Len(f.hdrs)
<1>1. n \in Nat /\ n > 0 /\ f.end \in Nat /\ f.hdrs[n].at + Size(f, n) <= f.end
  BY LenProperties DEF LaidOut
<1>2. n \in 1 .. n /\ i \in 1 .. n BY <1>1
<1>3. Behind(f, n) /\ Behind(f, i) BY <1>2, Ascending
<1>4. Size(f, i) \in Nat /\ Size(f, n) \in Nat BY <1>2, SizeLaid
<1>5. CASE i = n BY <1>1, <1>3, <1>4, <1>5 DEF Behind
<1>6. CASE i # n
  <2>1. i \in 1 .. n - 1 BY <1>1, <1>6
  <2> DEFINE x == f.hdrs[i].at
             y == f.hdrs[n].at
             u == Size(f, i)
             v == Size(f, n)
  <2>2. x \in Nat /\ y \in Nat /\ u \in Nat /\ v \in Nat /\ x + u <= y /\ y + v <= f.end
    BY <1>1, <1>3, <1>4, <2>1 DEF Behind
  <2> HIDE DEF x, y, u, v
  <2>3. x + u <= f.end BY <1>1, <2>2
  <2> QED BY <1>1, <2>2, <2>3 DEF x, u
<1> QED BY <1>5, <1>6

(* So at the place of a header there is that header and no other.          *)
LEMMA HereLaid ==
    ASSUME frame \in Frames, LaidOut(frame), NEW i \in 1 .. Len(frame.hdrs), at = frame.hdrs[i].at
    PROVE  Here(frame.hdrs[i].kind) = {frame.hdrs[i]}
<1> DEFINE H == frame.hdrs
           n == Len(frame.hdrs)
           sent == {h \in Range(frame.hdrs) : h.at = at /\ h.kind = frame.hdrs[i].kind}
<1>1. DOMAIN H = 1 .. n /\ n \in Nat BY LenProperties DEF LaidOut
<1>2. H[i] \in sent BY <1>1 DEF Range
<1>3. ASSUME NEW j \in 1 .. n, H[j].at = at PROVE j = i
  <2>1. Behind(frame, i) /\ Behind(frame, j) BY Ascending
  <2>2. Size(frame, i) \in Nat /\ Size(frame, i) >= 1 /\ Size(frame, j) \in Nat /\ Size(frame, j) >= 1
    BY SizeLaid
  <2>3. ~(i < j)
    <3>1. i < j => i \in 1 .. j - 1 BY <1>1
    <3> QED BY <1>3, <2>1, <2>2, <3>1 DEF Behind
  <2>4. ~(j < i)
    <3>1. j < i => j \in 1 .. i - 1 BY <1>1
    <3> QED BY <1>3, <2>1, <2>2, <3>1 DEF Behind
  <2> QED BY <1>1, <2>3, <2>4
<1>4. sent = {H[i]}
  <2>1. ASSUME NEW h \in sent PROVE h = H[i]
    <3>1. PICK j \in 1 .. n : h = H[j] BY <1>1 DEF Range
    <3>2. H[j].at = at BY <3>1
    <3> HIDE DEF H, n
    <3> QED BY <1>3, <3>1, <3>2
  <2> HIDE DEF sent
  <2> QED BY <1>2, <2>1
<1> QED BY <1>4 DEF Here

-----------------------------------------------------------------------------
(* Sound frames: what the parse functions say of their headers             *)

(* Nothing is refused, but for a checksum that is bad; and that one is.    *)
OnlyFor(steps, bad) ==
    \A i \in 1 .. Len(steps) : steps[i].when => bad /\ steps[i].err = "ChecksumMismatch"
Judges(steps, bad) == OnlyFor(steps, bad) /\ (Passed(steps, Len(steps)) => ~bad)

(* A check refuses for its condition, with its error.                      *)
LEMMA RefuseFor ==
    ASSUME NEW w \in BOOLEAN, NEW e
    PROVE  Refuse(w, e).err = e /\ (Refuse(w, e).when <=> w)
BY DEF Refuse

(* And not otherwise.                                                      *)
LEMMA RefuseNot ==
    ASSUME NEW w, NEW e, ~w
    PROVE  ~Refuse(w, e).when
BY DEF Refuse

(* ethernet::parse.                                                        *)
LEMMA EthernetJudges ==
    ASSUME Typed, NEW h, 14 <= size
    PROVE  Judges(EthernetSteps(h), FALSE)
<1> DEFINE s1 == Refuse(size < 14, "UnexpectedEof")
           s2 == Touch(0, 14)
           s == <<s1, s2>>
<1>0. size \in Nat BY DEF Typed
<1>1. ~s1.when
  <2>1. ~(size < 14) BY <1>0
  <2> QED BY <2>1, RefuseNot, Zenon
<1>2. ~s2.when BY DEF Touch
<1>3. EthernetSteps(h) = s BY DEF EthernetSteps
<1> HIDE DEF s1, s2
<1>4. /\ Len(s) = 2
      /\ s[1] = s1 /\ s[2] = s2
  OBVIOUS
<1> HIDE DEF s
<1>5. ASSUME NEW i \in 1 .. 2, s[i].when PROVE FALSE /\ s[i].err = "ChecksumMismatch"
  <2>1. i = 1 \/ i = 2 OBVIOUS
  <2> QED BY <1>1, <1>2, <1>4, <1>5, <2>1
<1> QED BY <1>3, <1>4, <1>5 DEF Judges, OnlyFor

(* vlan::parse.                                                            *)
LEMMA VlanJudges ==
    ASSUME Typed, NEW h, ~h.reserved, pkt.vlan_tags \in Nat, pkt.vlan_tags < MAX_TAGS,
           4 <= size
    PROVE  Judges(VlanSteps(h), FALSE)
<1> DEFINE s1 == Refuse(pkt.vlan_tags >= MAX_TAGS, "MalformedHeader")
           s2 == Refuse(size < 4, "UnexpectedEof")
           s3 == Touch(0, 4)
           s4 == Refuse(h.reserved, "InvalidFieldValue")
           s == <<s1, s2, s3, s4>>
<1>0. size \in Nat BY DEF Typed
<1>1. ~s1.when
  <2>1. ~(pkt.vlan_tags >= MAX_TAGS) BY <1>0 DEF MAX_TAGS
  <2> QED BY <2>1, RefuseNot, Zenon
<1>2. ~s2.when
  <2>1. ~(size < 4) BY <1>0 DEF MAX_TAGS
  <2> QED BY <2>1, RefuseNot, Zenon
<1>3. ~s3.when BY DEF Touch
<1>4. ~s4.when
  <2>1. ~(h.reserved) BY <1>0 DEF MAX_TAGS
  <2> QED BY <2>1, RefuseNot, Zenon
<1>5. VlanSteps(h) = s BY DEF VlanSteps
<1> HIDE DEF s1, s2, s3, s4
<1>6. /\ Len(s) = 4
      /\ s[1] = s1 /\ s[2] = s2 /\ s[3] = s3 /\ s[4] = s4
  OBVIOUS
<1> HIDE DEF s
<1>7. ASSUME NEW i \in 1 .. 4, s[i].when PROVE FALSE /\ s[i].err = "ChecksumMismatch"
  <2>1. i = 1 \/ i = 2 \/ i = 3 \/ i = 4 OBVIOUS
  <2> QED BY <1>1, <1>2, <1>3, <1>4, <1>6, <1>7, <2>1
<1> QED BY <1>5, <1>6, <1>7 DEF Judges, OnlyFor

(* ipv4::parse.                                                            *)
LEMMA Ipv4Judges ==
    ASSUME Typed, NEW h, Fields("ipv4", h), NEW sum_ok \in BOOLEAN, h.version = 4,
           h.ihl >= 5, 4 * h.ihl <= h.total_length, h.total_length <= size
    PROVE  Judges(Ipv4Steps(h, sum_ok), config.verify_checksum /\ ~sum_ok)
<1> DEFINE s1 == Refuse(size < 20, "UnexpectedEof")
           s2 == Touch(0, 20)
           s3 == Refuse(4 * h.ihl < 20, "MalformedHeader")
           s4 == Refuse(size < 4 * h.ihl, "UnexpectedEof")
           s5 == Refuse(h.version # 4, "InvalidFieldValue")
           s6 == Touch(0, 4 * h.ihl)
           s7 == Refuse(config.verify_checksum /\ ~sum_ok, "ChecksumMismatch")
           s8 == Refuse(h.total_length < 4 * h.ihl, "MalformedHeader")
           s9 == Refuse(h.total_length > size, "UnexpectedEof")
           s == <<s1, s2, s3, s4, s5, s6, s7, s8, s9>>
<1>0. /\ size \in Nat /\ config.verify_checksum \in BOOLEAN
      /\ h.ihl \in Nat /\ h.total_length \in Nat
  BY DEF Typed, Fields
<1>1. ~s1.when
  <2>1. ~(size < 20) BY <1>0
  <2> QED BY <2>1, RefuseNot, Zenon
<1>2. ~s2.when BY DEF Touch
<1>3. ~s3.when
  <2>1. ~(4 * h.ihl < 20) BY <1>0
  <2> QED BY <2>1, RefuseNot, Zenon
<1>4. ~s4.when
  <2>1. ~(size < 4 * h.ihl) BY <1>0
  <2> QED BY <2>1, RefuseNot, Zenon
<1>5. ~s5.when
  <2>1. ~(h.version # 4) BY <1>0
  <2> QED BY <2>1, RefuseNot, Zenon
<1>6. ~s6.when BY DEF Touch
<1>7. s7.err = "ChecksumMismatch" /\ (s7.when <=> config.verify_checksum /\ ~sum_ok)
  <2>1. (config.verify_checksum /\ ~sum_ok) \in BOOLEAN OBVIOUS
  <2> QED BY <2>1, RefuseFor, Zenon
<1>8. ~s8.when
  <2>1. ~(h.total_length < 4 * h.ihl) BY <1>0
  <2> QED BY <2>1, RefuseNot, Zenon
<1>9. ~s9.when
  <2>1. ~(h.total_length > size) BY <1>0
  <2> QED BY <2>1, RefuseNot, Zenon
<1>10. Ipv4Steps(h, sum_ok) = s BY DEF Ipv4Steps
<1> HIDE DEF s1, s2, s3, s4, s5, s6, s7, s8, s9
<1>11. /\ Len(s) = 9
      /\ s[1] = s1 /\ s[2] = s2 /\ s[3] = s3 /\ s[4] = s4 /\ s[5] = s5
      /\ s[6] = s6 /\ s[7] = s7 /\ s[8] = s8 /\ s[9] = s9
  OBVIOUS
<1> HIDE DEF s
<1>12. ASSUME NEW i \in 1 .. 9, s[i].when
      PROVE  config.verify_checksum /\ ~sum_ok /\ s[i].err = "ChecksumMismatch"
  <2>1. i = 1 \/ i = 2 \/ i = 3 \/ i = 4 \/ i = 5 \/ i = 6 \/ i = 7 \/ i = 8 \/ i = 9 OBVIOUS
  <2> QED BY <1>1, <1>2, <1>3, <1>4, <1>5, <1>6, <1>7, <1>8, <1>9, <1>11, <1>12, <2>1
<1>13. Passed(s, 9) => ~(config.verify_checksum /\ ~sum_ok) BY <1>7, <1>11 DEF Passed
<1> QED BY <1>10, <1>11, <1>12, <1>13 DEF Judges, OnlyFor

(* ipv6::parse.                                                            *)
LEMMA Ipv6Judges ==
    ASSUME Typed, NEW h, Fields("ipv6", h), h.version = 6, 40 + h.payload_length <= size
    PROVE  Judges(Ipv6Steps(h), FALSE)
<1> DEFINE s1 == Refuse(size < 40, "UnexpectedEof")
           s2 == Touch(0, 40)
           s3 == Refuse(h.version # 6, "InvalidFieldValue")
           s4 == Refuse(h.payload_length > size - 40, "UnexpectedEof")
           s == <<s1, s2, s3, s4>>
<1>0. size \in Nat /\ h.payload_length \in Nat BY DEF Typed, Fields
<1>1. ~s1.when
  <2>1. ~(size < 40) BY <1>0
  <2> QED BY <2>1, RefuseNot, Zenon
<1>2. ~s2.when BY DEF Touch
<1>3. ~s3.when
  <2>1. ~(h.version # 6) BY <1>0
  <2> QED BY <2>1, RefuseNot, Zenon
<1>4. ~s4.when
  <2>1. ~(h.payload_length > size - 40) BY <1>0
  <2> QED BY <2>1, RefuseNot, Zenon
<1>5. Ipv6Steps(h) = s BY DEF Ipv6Steps
<1> HIDE DEF s1, s2, s3, s4
<1>6. /\ Len(s) = 4
      /\ s[1] = s1 /\ s[2] = s2 /\ s[3] = s3 /\ s[4] = s4
  OBVIOUS
<1> HIDE DEF s
<1>7. ASSUME NEW i \in 1 .. 4, s[i].when PROVE FALSE /\ s[i].err = "ChecksumMismatch"
  <2>1. i = 1 \/ i = 2 \/ i = 3 \/ i = 4 OBVIOUS
  <2> QED BY <1>1, <1>2, <1>3, <1>4, <1>6, <1>7, <2>1
<1> QED BY <1>5, <1>6, <1>7 DEF Judges, OnlyFor

(* arp::parse.                                                             *)
LEMMA ArpJudges ==
    ASSUME Typed, NEW h, Fields("arp", h), h.hlen > 0, h.plen > 0,
           8 + 2 * h.hlen + 2 * h.plen <= size
    PROVE  Judges(ArpSteps(h), FALSE)
<1> DEFINE s1 == Refuse(size < 8, "UnexpectedEof")
           s2 == Touch(0, 8)
           s3 == Refuse(h.hlen = 0 \/ h.plen = 0, "InvalidFieldValue")
           s4 == Refuse(size < 8 + 2 * h.hlen + 2 * h.plen, "UnexpectedEof")
           s5 == Touch(8, 8 + 2 * h.hlen + 2 * h.plen)
           s == <<s1, s2, s3, s4, s5>>
<1>0. size \in Nat /\ h.hlen \in Nat /\ h.plen \in Nat BY DEF Typed, Fields
<1>1. ~s1.when
  <2>1. ~(size < 8) BY <1>0
  <2> QED BY <2>1, RefuseNot, Zenon
<1>2. ~s2.when BY DEF Touch
<1>3. ~s3.when
  <2>1. ~(h.hlen = 0 \/ h.plen = 0) BY <1>0
  <2> QED BY <2>1, RefuseNot, Zenon
<1>4. ~s4.when
  <2>1. ~(size < 8 + 2 * h.hlen + 2 * h.plen) BY <1>0
  <2> QED BY <2>1, RefuseNot, Zenon
<1>5. ~s5.when BY DEF Touch
<1>6. ArpSteps(h) = s BY DEF ArpSteps
<1> HIDE DEF s1, s2, s3, s4, s5
<1>7. /\ Len(s) = 5
      /\ s[1] = s1 /\ s[2] = s2 /\ s[3] = s3 /\ s[4] = s4 /\ s[5] = s5
  OBVIOUS
<1> HIDE DEF s
<1>8. ASSUME NEW i \in 1 .. 5, s[i].when PROVE FALSE /\ s[i].err = "ChecksumMismatch"
  <2>1. i = 1 \/ i = 2 \/ i = 3 \/ i = 4 \/ i = 5 OBVIOUS
  <2> QED BY <1>1, <1>2, <1>3, <1>4, <1>5, <1>7, <1>8, <2>1
<1> QED BY <1>6, <1>7, <1>8 DEF Judges, OnlyFor

(* tcp::parse.                                                             *)
LEMMA TcpJudges ==
    ASSUME Typed, NEW h, Fields("tcp", h), NEW sum_ok \in BOOLEAN, h.data_offset >= 5,
           PseudoHeader.length = size, 4 * h.data_offset <= size
    PROVE  Judges(TcpSteps(h, sum_ok), config.verify_checksum /\ ~sum_ok)
<1> DEFINE s1 == Refuse(size < 20, "UnexpectedEof")
           s2 == Touch(0, 20)
           s3 == Refuse(\/ 4 * h.data_offset < 20 \/ PseudoHeader.length < 4 * h.data_offset
                         \/ size < PseudoHeader.length, "MalformedHeader")
           s4 == Refuse(size < 4 * h.data_offset, "UnexpectedEof")
           s5 == Touch(0, PseudoHeader.length)
           s6 == Refuse(config.verify_checksum /\ ~sum_ok, "ChecksumMismatch")
           s == <<s1, s2, s3, s4, s5, s6>>
<1>0. size \in Nat /\ config.verify_checksum \in BOOLEAN /\ h.data_offset \in Nat BY DEF Typed, Fields
<1>1. ~s1.when
  <2>1. ~(size < 20) BY <1>0
  <2> QED BY <2>1, RefuseNot, Zenon
<1>2. ~s2.when BY DEF Touch
<1>3. ~s3.when
  <2>1. ~(\/ 4 * h.data_offset < 20 \/ PseudoHeader.length < 4 * h.data_offset
                         \/ size < PseudoHeader.length) BY <1>0
  <2> QED BY <2>1, RefuseNot, Zenon
<1>4. ~s4.when
  <2>1. ~(size < 4 * h.data_offset) BY <1>0
  <2> QED BY <2>1, RefuseNot, Zenon
<1>5. ~s5.when BY DEF Touch
<1>6. s6.err = "ChecksumMismatch" /\ (s6.when <=> config.verify_checksum /\ ~sum_ok)
  <2>1. (config.verify_checksum /\ ~sum_ok) \in BOOLEAN OBVIOUS
  <2> QED BY <2>1, RefuseFor, Zenon
<1>7. TcpSteps(h, sum_ok) = s BY DEF TcpSteps
<1> HIDE DEF s1, s2, s3, s4, s5, s6
<1>8. /\ Len(s) = 6
      /\ s[1] = s1 /\ s[2] = s2 /\ s[3] = s3 /\ s[4] = s4 /\ s[5] = s5 /\ s[6] = s6
  OBVIOUS
<1> HIDE DEF s
<1>9. ASSUME NEW i \in 1 .. 6, s[i].when
      PROVE  config.verify_checksum /\ ~sum_ok /\ s[i].err = "ChecksumMismatch"
  <2>1. i = 1 \/ i = 2 \/ i = 3 \/ i = 4 \/ i = 5 \/ i = 6 OBVIOUS
  <2> QED BY <1>1, <1>2, <1>3, <1>4, <1>5, <1>6, <1>8, <1>9, <2>1
<1>10. Passed(s, 6) => ~(config.verify_checksum /\ ~sum_ok) BY <1>6, <1>8 DEF Passed
<1> QED BY <1>7, <1>8, <1>9, <1>10 DEF Judges, OnlyFor

(* udp::parse.                                                             *)
LEMMA UdpJudges ==
    ASSUME Typed, NEW h, Fields("udp", h), NEW sum_ok \in BOOLEAN, h.length = size,
           8 <= size
    PROVE  Judges(UdpSteps(h, sum_ok), config.verify_checksum /\ (~h.zero \/ pkt.network = "ipv6") /\ ~sum_ok)
<1> DEFINE s1 == Refuse(size < 8, "UnexpectedEof")
           s2 == Touch(0, 8)
           s3 == Refuse(h.length < 8 \/ size < h.length, "MalformedHeader")
           s4 == Touch(0, h.length)
           s5 == Refuse(/\ config.verify_checksum
                        /\ ~h.zero \/ pkt.network = "ipv6"
                        /\ ~sum_ok, "ChecksumMismatch")
           s == <<s1, s2, s3, s4, s5>>
<1>0. /\ size \in Nat /\ config.verify_checksum \in BOOLEAN
      /\ h.length \in Nat /\ h.zero \in BOOLEAN
  BY DEF Typed, Fields
<1>1. ~s1.when
  <2>1. ~(size < 8) BY <1>0
  <2> QED BY <2>1, RefuseNot, Zenon
<1>2. ~s2.when BY DEF Touch
<1>3. ~s3.when
  <2>1. ~(h.length < 8 \/ size < h.length) BY <1>0
  <2> QED BY <2>1, RefuseNot, Zenon
<1>4. ~s4.when BY DEF Touch
<1>5. /\ s5.err = "ChecksumMismatch"
      /\ s5.when <=> config.verify_checksum /\ (~h.zero \/ pkt.network = "ipv6") /\ ~sum_ok
  <2>1. (config.verify_checksum /\ (~h.zero \/ pkt.network = "ipv6") /\ ~sum_ok) \in BOOLEAN OBVIOUS
  <2> QED BY <2>1, RefuseFor, Zenon
<1>6. UdpSteps(h, sum_ok) = s BY DEF UdpSteps
<1> HIDE DEF s1, s2, s3, s4, s5
<1>7. /\ Len(s) = 5
      /\ s[1] = s1 /\ s[2] = s2 /\ s[3] = s3 /\ s[4] = s4 /\ s[5] = s5
  OBVIOUS
<1> HIDE DEF s
<1>8. ASSUME NEW i \in 1 .. 5, s[i].when
      PROVE  /\ config.verify_checksum /\ (~h.zero \/ pkt.network = "ipv6") /\ ~sum_ok
             /\ s[i].err = "ChecksumMismatch"
  <2>1. i = 1 \/ i = 2 \/ i = 3 \/ i = 4 \/ i = 5 OBVIOUS
  <2> QED BY <1>1, <1>2, <1>3, <1>4, <1>5, <1>7, <1>8, <2>1
<1>9. Passed(s, 5) =>
         ~(config.verify_checksum /\ (~h.zero \/ pkt.network = "ipv6") /\ ~sum_ok)
  BY <1>5, <1>7 DEF Passed
<1> QED BY <1>6, <1>7, <1>8, <1>9 DEF Judges, OnlyFor

(* icmp::parse.                                                            *)
LEMMA IcmpJudges ==
    ASSUME Typed, NEW h, Fields("icmp", h), NEW sum_ok \in BOOLEAN,
           h.code <= IcmpMaxCode(h.type), 8 <= size
    PROVE  Judges(IcmpSteps(h, sum_ok), config.verify_checksum /\ ~sum_ok)
<1> DEFINE s1 == Refuse(size < 8, "UnexpectedEof")
           s2 == Touch(0, 8)
           s3 == Refuse(h.code > IcmpMaxCode(h.type), "InvalidFieldValue")
           s4 == Touch(0, size)
           s5 == Refuse(config.verify_checksum /\ ~sum_ok, "ChecksumMismatch")
           s == <<s1, s2, s3, s4, s5>>
<1>0. /\ size \in Nat /\ config.verify_checksum \in BOOLEAN
      /\ h.code \in Nat /\ IcmpMaxCode(h.type) \in Nat
  BY DEF Typed, Fields, IcmpMaxCode
<1>1. ~s1.when
  <2>1. ~(size < 8) BY <1>0
  <2> QED BY <2>1, RefuseNot, Zenon
<1>2. ~s2.when BY DEF Touch
<1>3. ~s3.when
  <2>1. ~(h.code > IcmpMaxCode(h.type)) BY <1>0
  <2> QED BY <2>1, RefuseNot, Zenon
<1>4. ~s4.when BY DEF Touch
<1>5. s5.err = "ChecksumMismatch" /\ (s5.when <=> config.verify_checksum /\ ~sum_ok)
  <2>1. (config.verify_checksum /\ ~sum_ok) \in BOOLEAN OBVIOUS
  <2> QED BY <2>1, RefuseFor, Zenon
<1>6. IcmpSteps(h, sum_ok) = s BY DEF IcmpSteps
<1> HIDE DEF s1, s2, s3, s4, s5
<1>7. /\ Len(s) = 5
      /\ s[1] = s1 /\ s[2] = s2 /\ s[3] = s3 /\ s[4] = s4 /\ s[5] = s5
  OBVIOUS
<1> HIDE DEF s
<1>8. ASSUME NEW i \in 1 .. 5, s[i].when
      PROVE  config.verify_checksum /\ ~sum_ok /\ s[i].err = "ChecksumMismatch"
  <2>1. i = 1 \/ i = 2 \/ i = 3 \/ i = 4 \/ i = 5 OBVIOUS
  <2> QED BY <1>1, <1>2, <1>3, <1>4, <1>5, <1>7, <1>8, <2>1
<1>9. Passed(s, 5) => ~(config.verify_checksum /\ ~sum_ok) BY <1>5, <1>7 DEF Passed
<1> QED BY <1>6, <1>7, <1>8, <1>9 DEF Judges, OnlyFor

(* icmpv6::parse.                                                          *)
LEMMA Icmpv6Judges ==
    ASSUME Typed, NEW h, Fields("icmpv6", h), NEW sum_ok \in BOOLEAN,
           h.code <= Icmpv6MaxCode(h.type), ~(h.type = "too_big" /\ h.mtu < 1280),
           PseudoHeader.length = size, 8 <= size
    PROVE  Judges(Icmpv6Steps(h, sum_ok), config.verify_checksum /\ ~sum_ok)
<1> DEFINE s1 == Refuse(size < 8, "UnexpectedEof")
           s2 == Touch(0, 8)
           s3 == Refuse(size < PseudoHeader.length, "MalformedHeader")
           s4 == Refuse(h.code > Icmpv6MaxCode(h.type), "InvalidFieldValue")
           s5 == Refuse(h.type = "too_big" /\ h.mtu < 1280, "InvalidFieldValue")
           s6 == Touch(0, PseudoHeader.length)
           s7 == Refuse(config.verify_checksum /\ ~sum_ok, "ChecksumMismatch")
           s == <<s1, s2, s3, s4, s5, s6, s7>>
<1>0. size \in Nat /\ config.verify_checksum \in BOOLEAN /\ h.code \in Nat /\ h.mtu \in Nat
      /\ Icmpv6MaxCode(h.type) \in Nat BY DEF Typed, Fields, Icmpv6MaxCode
<1>1. ~s1.when
  <2>1. ~(size < 8) BY <1>0
  <2> QED BY <2>1, RefuseNot, Zenon
<1>2. ~s2.when BY DEF Touch
<1>3. ~s3.when
  <2>1. ~(size < PseudoHeader.length) BY <1>0
  <2> QED BY <2>1, RefuseNot, Zenon
<1>4. ~s4.when
  <2>1. ~(h.code > Icmpv6MaxCode(h.type)) BY <1>0
  <2> QED BY <2>1, RefuseNot, Zenon
<1>5. ~s5.when
  <2>1. ~(h.type = "too_big" /\ h.mtu < 1280) BY <1>0
  <2> QED BY <2>1, RefuseNot, Zenon
<1>6. ~s6.when BY DEF Touch
<1>7. s7.err = "ChecksumMismatch" /\ (s7.when <=> config.verify_checksum /\ ~sum_ok)
  <2>1. (config.verify_checksum /\ ~sum_ok) \in BOOLEAN OBVIOUS
  <2> QED BY <2>1, RefuseFor, Zenon
<1>8. Icmpv6Steps(h, sum_ok) = s BY DEF Icmpv6Steps
<1> HIDE DEF s1, s2, s3, s4, s5, s6, s7
<1>9. /\ Len(s) = 7
      /\ s[1] = s1 /\ s[2] = s2 /\ s[3] = s3 /\ s[4] = s4 /\ s[5] = s5 /\ s[6] = s6 /\ s[7] = s7
  OBVIOUS
<1> HIDE DEF s
<1>10. ASSUME NEW i \in 1 .. 7, s[i].when
      PROVE  config.verify_checksum /\ ~sum_ok /\ s[i].err = "ChecksumMismatch"
  <2>1. i = 1 \/ i = 2 \/ i = 3 \/ i = 4 \/ i = 5 \/ i = 6 \/ i = 7 OBVIOUS
  <2> QED BY <1>1, <1>2, <1>3, <1>4, <1>5, <1>6, <1>7, <1>9, <1>10, <2>1
<1>11. Passed(s, 7) => ~(config.verify_checksum /\ ~sum_ok) BY <1>7, <1>9 DEF Passed
<1> QED BY <1>8, <1>9, <1>10, <1>11 DEF Judges, OnlyFor

(* Checks made one after the other.                                        *)
LEMMA JoinedJudge ==
    ASSUME NEW T, NEW a \in Seq(T), NEW b \in Seq(T), NEW bad, OnlyFor(a, bad), OnlyFor(b, bad)
    PROVE  OnlyFor(a \o b, bad)
<1> DEFINE c == a \o b
<1>1. /\ Len(c) = Len(a) + Len(b) /\ Len(a) \in Nat /\ Len(b) \in Nat
      /\ \A i \in 1 .. Len(a) + Len(b) : c[i] = IF i <= Len(a) THEN a[i] ELSE b[i - Len(a)]
  BY ConcatProperties, LenProperties, Zenon
<1> HIDE DEF c
<1>2. ASSUME NEW i \in 1 .. Len(c), c[i].when PROVE bad /\ c[i].err = "ChecksumMismatch"
  <2>1. CASE i <= Len(a)
    <3>1. c[i] = a[i] /\ i \in 1 .. Len(a) BY <1>1, <2>1
    <3> QED BY <1>2, <3>1 DEF OnlyFor
  <2>2. CASE ~(i <= Len(a))
    <3>1. c[i] = b[i - Len(a)] /\ i - Len(a) \in 1 .. Len(b) BY <1>1, <2>2
    <3> QED BY <1>2, <3>1 DEF OnlyFor
  <2> QED BY <2>1, <2>2
<1> QED BY <1>2 DEF OnlyFor, c

(* An extension header is at least 8 bytes long.                           *)
LEMMA ExtLengthIs ==
    ASSUME NEW type, NEW n \in Nat
    PROVE  /\ ExtLength(type, n) \in Nat /\ ExtLength(type, n) >= 8
           /\ type = "ah" /\ n >= 1 => ExtLength(type, n) >= 12
           /\ type = "route" => ExtLength(type, n) = 8 * (n + 1)
BY DEF ExtLength

(* ipv6::parseExtension.                                                   *)
LEMMA ExtJudges ==
    ASSUME Typed, NEW type, NEW h, Fields("ext", h), Len(pkt.ipv6_ext) \in Nat,
           Len(pkt.ipv6_ext) < MAX_HEADERS, type = "hopopt" => pkt.ipv6_ext = <<>>,
           ~(type = "ah" /\ h.hdr_ext_len < 1), ExtLength(type, h.hdr_ext_len) <= size,
           Addressed(type, h) => ~(h.hdr_ext_len < 2 \/ h.hdr_ext_len % 2 # 0)
    PROVE  Judges(ExtSteps(type, h), FALSE)
<1> DEFINE length == ExtLength(type, h.hdr_ext_len)
           s1 == Refuse(Len(pkt.ipv6_ext) >= MAX_HEADERS, "MalformedHeader")
           s2 == Refuse(type = "hopopt" /\ pkt.ipv6_ext # <<>>, "InvalidFieldValue")
           s3 == Refuse(size < 8, "UnexpectedEof")
           s4 == Touch(0, 8)
           s5 == Refuse(type = "ah" /\ length < 12, "MalformedHeader")
           s6 == Refuse(size < length, "UnexpectedEof")
           s7 == Refuse(h.hdr_ext_len < 2 \/ h.hdr_ext_len % 2 # 0, "MalformedHeader")
           s8 == Touch(FinalDstOffset(h), FinalDstOffset(h) + 16)
           a  == <<s1, s2, s3, s4, s5, s6>>
           b  == IF Addressed(type, h) THEN <<s7, s8>> ELSE <<>>
           T  == {s1, s2, s3, s4, s5, s6, s7, s8}
<1>0. h.hdr_ext_len \in Nat /\ size \in Nat BY DEF Fields, Typed
<1>a. length \in Nat /\ length >= 8 /\ ~(type = "ah" /\ length < 12) BY <1>0, ExtLengthIs
<1>1. ~s1.when
  <2>1. ~(Len(pkt.ipv6_ext) >= MAX_HEADERS) BY DEF MAX_HEADERS
  <2> QED BY <2>1, RefuseNot, Zenon
<1>2. ~s2.when
  <2>1. ~(type = "hopopt" /\ pkt.ipv6_ext # <<>>) OBVIOUS
  <2> QED BY <2>1, RefuseNot, Zenon
<1>3. ~s3.when
  <2>1. ~(size < 8)
    <3> HIDE DEF length
    <3>1. length <= size BY DEF length
    <3> QED BY <1>0, <1>a, <3>1
  <2> QED BY <2>1, RefuseNot, Zenon
<1>4. ~s4.when BY DEF Touch
<1>5. ~s5.when BY <1>a, RefuseNot, Zenon
<1>6. ~s6.when
  <2>1. ~(size < length)
    <3> HIDE DEF length
    <3>1. length <= size BY DEF length
    <3> QED BY <1>0, <1>a, <3>1
  <2> QED BY <2>1, RefuseNot, Zenon
<1>7. Addressed(type, h) => ~s7.when BY RefuseNot, Zenon
<1>8. ~s8.when BY DEF Touch
<1>9. ExtSteps(type, h) = a \o b BY DEF ExtSteps
<1> HIDE DEF s1, s2, s3, s4, s5, s6, s7, s8
<1>10. OnlyFor(a, FALSE)
  <2>1. Len(a) = 6 /\ \A i \in 1 .. 6 : a[i] \in {s1, s2, s3, s4, s5, s6} OBVIOUS
  <2> HIDE DEF a
  <2> QED BY <1>1, <1>2, <1>3, <1>4, <1>5, <1>6, <2>1 DEF OnlyFor
<1>11. OnlyFor(b, FALSE)
  <2>1. CASE Addressed(type, h)
    <3>1. b = <<s7, s8>> BY <2>1
    <3>2. Len(b) = 2 /\ \A i \in 1 .. 2 : b[i] \in {s7, s8} BY <3>1
    <3> HIDE DEF b
    <3> QED BY <1>7, <1>8, <2>1, <3>2 DEF OnlyFor
  <2>2. CASE ~Addressed(type, h) BY <2>2 DEF OnlyFor
  <2> QED BY <2>1, <2>2
<1>12. a \in Seq(T) /\ b \in Seq(T)
  <2>1. a \in Seq(T) OBVIOUS
  <2>2. <<s7, s8>> \in Seq(T) /\ <<>> \in Seq(T) OBVIOUS
  <2> HIDE DEF a, T
  <2>3. b \in Seq(T) BY <2>2
  <2> QED BY <2>1, <2>3
<1> HIDE DEF a, b, T
<1>13. OnlyFor(a \o b, FALSE) BY <1>10, <1>11, <1>12, JoinedJudge
<1> QED BY <1>9, <1>13 DEF Judges, OnlyFor

-----------------------------------------------------------------------------
(* Sound frames: the walk over their headers                               *)

(* Layer 2 gets to the i-th header: those before it are its own.           *)
Linked(i) ==
    /\ i \in 2 .. Len(frame.hdrs) /\ at = frame.hdrs[i].at /\ size = frame.incl - at
    /\ \A j \in 1 .. i - 1 : frame.hdrs[j].kind \in {"eth", "vlan"}
    /\ pkt.ipv6_ext = <<>> /\ pkt.transport = "none"

(* Behind the network header, the span ends with the packet.               *)
Narrowed(i) ==
    /\ i \in 2 .. Len(frame.hdrs) /\ at = frame.hdrs[i].at
    /\ Captured /\ size = frame.end - at

(* Layer 3 gets to the i-th header over the IPv4 header before it.         *)
OverIpv4(i) ==
    LET h == frame.hdrs[i - 1]
    IN  /\ Narrowed(i) /\ h.kind = "ipv4" /\ pkt.network = "ipv4"
        /\ \A j \in 1 .. i - 2 : frame.hdrs[j].kind \in {"eth", "vlan"}
        /\ pkt.ip = [length |-> h.total_length - 4 * h.ihl, protocol |-> h.protocol,
                     dst |-> h.dst]
        /\ config.verify_checksum => h.sum.ok

(* What is noted of the j-th header, an extension.                         *)
Noted(j) ==
    [next_header |-> frame.hdrs[j].next_header,
     final_dst   |-> IF Routes(frame, j) THEN Final(frame.hdrs[j]) ELSE "none"]

(* The headers from IPv6's, the b-th, to the i-th are in p.                *)
PastIpv6(b, i, p) ==
    LET h == frame.hdrs[b]
    IN  /\ b \in 2 .. i /\ h.kind = "ipv6" /\ p.network = "ipv6"
        /\ \A j \in 1 .. b - 1 : frame.hdrs[j].kind \in {"eth", "vlan"}
        /\ \A j \in b + 1 .. i : frame.hdrs[j].kind = "ext"
        /\ p.ip = [length |-> h.payload_length, protocol |-> h.next_header, dst |-> h.dst]
        /\ Len(p.ipv6_ext) = i - b
        /\ \A k \in 1 .. i - b : p.ipv6_ext[k] = Noted(b + k)

(* And over IPv6's, with the extensions in between.                        *)
OverIpv6(b, i) ==
    Narrowed(i) /\ PastIpv6(b, i - 1, pkt) /\ next = Announces(frame.hdrs[i - 1])

(* Where the decoder is in a sound frame, and what it knows.               *)
Walk ==
    /\ pc = "layer2" => /\ at = 0 /\ size = frame.incl /\ pkt.vlan_tags = 0
                        /\ pkt.ipv6_ext = <<>> /\ pkt.transport = "none"
    /\ pc = "vlan" => \E i \in 1 .. Len(frame.hdrs) :
          Linked(i) /\ frame.hdrs[i].kind = "vlan" /\ pkt.vlan_tags = i - 2
    /\ pc = "layer3" => \E i \in 1 .. Len(frame.hdrs) :
          Linked(i) /\ frame.hdrs[i].kind = pkt.network /\ pkt.network \in {"ipv4", "ipv6", "arp"}
    /\ pc = "ext" => \E b, i \in 1 .. Len(frame.hdrs) :
          OverIpv6(b, i) /\ frame.hdrs[i].kind = "ext"
    /\ pc = "layer4" => \E i \in 1 .. Len(frame.hdrs) :
          /\ frame.hdrs[i].kind \in Transports /\ pkt.transport = frame.hdrs[i].kind
          /\ OverIpv4(i) \/ \E b \in 1 .. Len(frame.hdrs) : OverIpv6(b, i)
    /\ SoundDecoded /\ CorruptRefused

WInv == config.linktype = "ethernet" /\ LaidOut(frame) => Walk

(* Behind a header that carries another one there is that one.             *)
LEMMA NextLaid ==
    ASSUME NEW f, LaidOut(f), NEW i \in 1 .. Len(f.hdrs),
           f.hdrs[i].kind \notin {"arp"} \cup Transports
    PROVE  /\ i + 1 \in 2 .. Len(f.hdrs) /\ i + 1 \in 1 .. Len(f.hdrs)
           /\ Stacked(f.hdrs[i], f.hdrs[i + 1]) /\ FieldsSound(f, i + 1)
           /\ f.hdrs[i + 1].at = f.hdrs[i].at + Size(f, i)
<1>1. Len(f.hdrs) \in Nat BY LenProperties DEF LaidOut
<1>2. i # Len(f.hdrs) BY DEF LaidOut
<1>3. i + 1 \in 2 .. Len(f.hdrs) /\ i + 1 \in 1 .. Len(f.hdrs) /\ (i + 1) - 1 = i BY <1>1, <1>2
<1> DEFINE k == i + 1
<1>4. k \in 2 .. Len(f.hdrs) /\ k - 1 = i BY <1>3
<1> HIDE DEF k
<1>5. /\ Stacked(f.hdrs[k - 1], f.hdrs[k]) /\ FieldsSound(f, k)
      /\ f.hdrs[k].at = f.hdrs[k - 1].at + Size(f, k - 1)
  BY <1>4 DEF LaidOut
<1> QED BY <1>3, <1>4, <1>5 DEF k

(* ARP and the transports are behind all others.                           *)
LEMMA LastLaid ==
    ASSUME NEW f, LaidOut(f), NEW i \in 1 .. Len(f.hdrs),
           f.hdrs[i].kind \in {"arp"} \cup Transports
    PROVE  i = Len(f.hdrs)
<1>1. Len(f.hdrs) \in Nat BY LenProperties DEF LaidOut
<1>2. SUFFICES ASSUME i # Len(f.hdrs) PROVE FALSE OBVIOUS
<1> DEFINE k == i + 1
<1>3. k \in 1 .. Len(f.hdrs) /\ k > 1 /\ k - 1 = i BY <1>1, <1>2
<1> HIDE DEF k
<1>4. f.hdrs[k].kind \in OnTop(f.hdrs[i]) BY <1>3, KindsLaid
<1>5. OnTop(f.hdrs[i]) = {} BY DEF OnTop, Transports
<1> QED BY <1>4, <1>5

-----------------------------------------------------------------------------
(* Sound frames: one header                                                *)

Sound == config.linktype = "ethernet" /\ LaidOut(frame)

(* A parse goes on, or refuses the frame: one that was captured only for a *)
(* bad checksum.                                                           *)
Moved(eat, keep, p, follows, to) ==
    /\ err' = "None" /\ at' = at + eat /\ size' = keep
    /\ pkt' = p /\ next' = follows /\ pc' = to
Refused(bad) ==
    /\ pc' = "done" /\ err' # "None"
    /\ Captured => bad /\ err' = "ChecksumMismatch"
Judged(eat, keep, p, follows, to, post, bad) ==
    /\ config' = config /\ frame' = frame
    /\ \/ Moved(eat, keep, p, follows, to) /\ post /\ (Captured => ~bad)
       \/ Refused(bad)

(* Which of the two, the parse function's checks say.                      *)
LEMMA ParseJudged ==
    ASSUME PInv, NEW steps, NEW eat, NEW keep, NEW p, NEW follows, NEW to, NEW post, NEW bad,
           ParserSafe(steps, size, post), Captured => Judges(steps, bad),
           Parse(steps, eat, keep, p, follows, to)
    PROVE  Judged(eat, keep, p, follows, to, post, bad)
<1> DEFINE out == Outcome(steps)
<1>1. Reported(out, steps, size)
  <2>1. size \in Nat BY DEF PInv
  <2> QED BY <2>1, SafeOutcome DEF ParserSafe
<1>2. /\ err' = out.err
      /\ at' = (IF out.err = "None" THEN at + eat ELSE at)
      /\ size' = (IF out.err = "None" THEN keep ELSE size)
      /\ pkt' = (IF out.err = "None" THEN p ELSE pkt)
      /\ next' = (IF out.err = "None" THEN follows ELSE next)
      /\ pc' = (IF out.err = "None" THEN to ELSE "done")
      /\ config' = config /\ frame' = frame
  BY DEF Parse
<1> HIDE DEF out
<1>3. CASE out.err = "None"
  <2>1. Passed(steps, Len(steps)) BY <1>1, <1>3 DEF Reported
  <2>2. post /\ (Captured => ~bad) BY <2>1 DEF ParserSafe, Judges
  <2>3. Moved(eat, keep, p, follows, to) BY <1>2, <1>3 DEF Moved
  <2> QED BY <1>2, <2>2, <2>3 DEF Judged
<1>4. CASE out.err # "None"
  <2>1. PICK i \in 1 .. Len(steps) : steps[i].when /\ out.err = steps[i].err
    BY <1>1, <1>4 DEF Reported
  <2>2. Captured => bad /\ out.err = "ChecksumMismatch" BY <2>1 DEF Judges, OnlyFor
  <2>3. Refused(bad) BY <1>2, <1>4, <2>2 DEF Refused
  <2> QED BY <1>2, <2>3 DEF Judged
<1> QED BY <1>3, <1>4

(* Such a refusal is the one promised.                                     *)
LEMMA RefusedRight ==
    ASSUME NEW bad, Refused(bad), bad => config.verify_checksum /\ ~SumsHold(frame),
           config' = config, frame' = frame
    PROVE  WInv'
<1>1. pc' = "done" /\ err' # "None"
      /\ (Captured => err' = "ChecksumMismatch" /\ config.verify_checksum /\ ~SumsHold(frame))
  BY DEF Refused
<1>2. Captured' = Captured BY DEF Captured
<1>3. SumsHold(frame') = SumsHold(frame) OBVIOUS
<1>4. SoundDecoded' BY <1>1, <1>2, <1>3 DEF SoundDecoded
<1>5. CorruptRefused' BY <1>1, <1>2 DEF CorruptRefused
<1> QED BY <1>1, <1>4, <1>5 DEF WInv, Walk

(* A checksum that does not hold.                                          *)
LEMMA OneFails ==
    ASSUME NEW i \in 2 .. Len(frame.hdrs), frame.hdrs[i].kind \in {"ipv4"} \cup Transports,
           ~SumHolds(frame, i)
    PROVE  ~SumsHold(frame)
BY DEF SumsHold

(* While the decoder is not done, the walk is where it is.                 *)
LEMMA NotDone == pc # "done" => SoundDecoded /\ CorruptRefused
BY DEF SoundDecoded, CorruptRefused

-----------------------------------------------------------------------------
(* Sound frames: layer 2                                                   *)

(* What is taken off the front of the span.                                *)
LEMMA TakenOff ==
    ASSUME NEW a \in Int, NEW b \in Int, NEW c \in Int
    PROVE  (c - a) - b = c - (a + b)
OBVIOUS

(* A header of layer 2, and the next.                                      *)
LEMMA Layer2Walks ==
    ASSUME PInv, Sound, NEW i \in 1 .. Len(frame.hdrs),
           frame.hdrs[i].kind \in {"eth", "vlan"}, at = frame.hdrs[i].at,
           size = frame.incl - at, \A j \in 1 .. i - 1 : frame.hdrs[j].kind \in {"eth", "vlan"},
           NEW p, NEW steps, NEW eat \in Nat, eat = Size(frame, i), NEW post,
           post => /\ p \in Packets /\ p.ipv6_ext = <<>> /\ p.transport = "none"
                   /\ p.vlan_tags = i - 1,
           ParserSafe(steps, size, post), Captured => Judges(steps, FALSE),
           Layer2(frame.hdrs[i], steps, eat, p)
    PROVE  WInv'
<1> DEFINE H == frame.hdrs
           k == i + 1
           q == [p EXCEPT !.network = NetworkFromEthertype(H[i].ethertype)]
<1>1. LaidOut(frame) BY DEF Sound
<1>2. H[i].kind \notin {"arp"} \cup Transports BY DEF Transports
<1>3. k \in 2 .. Len(H) /\ k \in 1 .. Len(H) /\ Stacked(H[i], H[k]) /\ H[k].at = at + eat
  BY <1>1, <1>2, NextLaid
<1>4. H[k].kind \in {"vlan", "ipv4", "ipv6", "arp"} /\ H[k].kind = H[i].ethertype
  BY <1>3 DEF Stacked, OnTop, Announces
<1>5. \A j \in 1 .. k - 1 : H[j].kind \in {"eth", "vlan"} OBVIOUS
<1>6. at \in Nat /\ frame.incl \in Nat BY FramesAssumption DEF PInv
<1>7. CASE H[i].ethertype = "vlan"
  <2>1. Parse(steps, eat, size - eat, p, "vlan", "vlan") BY <1>7 DEF Layer2
  <2>a. Judged(eat, size - eat, p, "vlan", "vlan", post, FALSE) BY <2>1, ParseJudged
  <2>2. /\ config' = config /\ frame' = frame
        /\ (Moved(eat, size - eat, p, "vlan", "vlan") /\ post) \/ Refused(FALSE)
    BY <2>a DEF Judged
  <2>3. CASE Refused(FALSE) BY <2>2, <2>3, RefusedRight
  <2>4. CASE Moved(eat, size - eat, p, "vlan", "vlan") /\ post
    <3>1. pc' = "vlan" /\ at' = at + eat /\ size' = size - eat /\ pkt' = p BY <2>4 DEF Moved
    <3>2. size' = frame.incl - at' BY <1>6, <3>1, TakenOff
    <3> HIDE DEF k
    <3>3. Linked(k)' BY <1>3, <1>5, <2>2, <2>4, <3>1, <3>2 DEF Linked
    <3>4. p.vlan_tags = k - 2 BY <2>4 DEF k
    <3>5. Walk' BY <1>3, <1>4, <1>7, <2>2, <3>1, <3>3, <3>4 DEF Walk, SoundDecoded, CorruptRefused
    <3> QED BY <3>5 DEF WInv
  <2> QED BY <2>2, <2>3, <2>4
<1>8. CASE H[i].ethertype # "vlan"
  <2>1. Parse(steps, eat, size - eat, q, H[i].ethertype, "layer3") BY <1>8 DEF Layer2
  <2>2. post => q.network = H[k].kind /\ q.ipv6_ext = <<>> /\ q.transport = "none"
    <3>1. NetworkFromEthertype(H[i].ethertype) = H[k].kind BY <1>4, <1>8 DEF NetworkFromEthertype
    <3> HIDE DEF H, k
    <3>2. q = [p EXCEPT !.network = H[k].kind] BY <3>1
    <3> QED BY <3>2 DEF Packets, Records
  <2> HIDE DEF q
  <2>a. Judged(eat, size - eat, q, H[i].ethertype, "layer3", post, FALSE)
    BY <2>1, ParseJudged
  <2>3. /\ config' = config /\ frame' = frame
        /\ \/ Moved(eat, size - eat, q, H[i].ethertype, "layer3") /\ post
           \/ Refused(FALSE)
    BY <2>a DEF Judged
  <2>4. CASE Refused(FALSE) BY <2>3, <2>4, RefusedRight
  <2>5. CASE Moved(eat, size - eat, q, H[i].ethertype, "layer3") /\ post
    <3>1. pc' = "layer3" /\ at' = at + eat /\ size' = size - eat /\ pkt' = q BY <2>5 DEF Moved
    <3>2. size' = frame.incl - at' BY <1>6, <3>1, TakenOff
    <3> HIDE DEF k
    <3>3. Linked(k)' BY <1>3, <1>5, <2>2, <2>3, <2>5, <3>1, <3>2 DEF Linked
    <3>4. Walk' BY <1>3, <1>4, <1>8, <2>2, <2>3, <2>5, <3>1, <3>3 DEF Walk, SoundDecoded, CorruptRefused
    <3> QED BY <3>4 DEF WInv
  <2> QED BY <2>3, <2>4, <2>5
<1> QED BY <1>7, <1>8

(* The Ethernet header.                                                    *)
LEMMA EthernetWalks == ASSUME PInv, Sound, Walk, Ethernet PROVE WInv'
<1> DEFINE H == frame.hdrs
<1>1. /\ at = 0 /\ size = frame.incl /\ pkt.vlan_tags = 0
      /\ pkt.ipv6_ext = <<>> /\ pkt.transport = "none"
  BY DEF Walk, Ethernet
<1>2. /\ LaidOut(frame) /\ frame \in Frames /\ 1 \in 1 .. Len(H)
      /\ H[1].kind = "eth" /\ H[1].at = 0
  <2>1. Len(H) \in Nat BY LenProperties DEF Sound, LaidOut
  <2> QED BY <2>1 DEF Sound, LaidOut, PInv
<1>3. Here("eth") = {H[1]}
  <2>1. Here(H[1].kind) = {H[1]} BY <1>1, <1>2, HereLaid
  <2> QED BY <1>2, <2>1
<1>4. Layer2(H[1], EthernetSteps(H[1]), 14, pkt) BY <1>3 DEF Ethernet
<1>5. ParserSafe(EthernetSteps(H[1]), size, 14 <= size) BY PInvTyped, EthernetSafe
<1>6. Size(frame, 1) = 14 BY <1>2 DEF Size
<1>7. Captured => Judges(EthernetSteps(H[1]), FALSE)
  <2>1. ASSUME Captured PROVE 14 <= size
    <3>1. frame.end \in Nat /\ 0 + 14 <= frame.end BY <1>2, <1>6, WithinFrame
    <3>2. frame.incl \in Nat BY <1>2, FramesAssumption
    <3> QED BY <1>1, <2>1, <3>1, <3>2 DEF Captured
  <2> QED BY <2>1, PInvTyped, EthernetJudges
<1>8. pkt \in Packets BY DEF PInv, Kept
<1>9. size = frame.incl - at
  <2>1. frame.incl \in Nat BY <1>2, FramesAssumption
  <2> QED BY <1>1, <2>1
<1>10. \A j \in 1 .. 1 - 1 : H[j].kind \in {"eth", "vlan"} OBVIOUS
<1>11. pkt.vlan_tags = 1 - 1 /\ at = H[1].at /\ H[1].kind \in {"eth", "vlan"} BY <1>1, <1>2
<1> HIDE DEF H
<1> QED BY <1>1, <1>2, <1>4, <1>5, <1>6, <1>7, <1>8, <1>9, <1>10, <1>11, Layer2Walks DEF H

(* A VLAN tag.                                                             *)
LEMMA VlanWalks == ASSUME PInv, Sound, Walk, Vlan PROVE WInv'
<1> DEFINE H == frame.hdrs
           q == [pkt EXCEPT !.vlan_tags = @ + 1]
           post == 4 <= size /\ pkt.vlan_tags + 1 \in 0 .. MAX_TAGS
<1>1. PICK i \in 1 .. Len(H) : Linked(i) /\ H[i].kind = "vlan" /\ pkt.vlan_tags = i - 2
  BY DEF Walk, Vlan
<1>2. LaidOut(frame) /\ frame \in Frames /\ at = H[i].at /\ i \in 2 .. Len(H)
  BY <1>1 DEF Sound, PInv, Linked
<1>3. Here("vlan") = {H[i]}
  <2>1. Here(H[i].kind) = {H[i]} BY <1>2, HereLaid
  <2> QED BY <1>1, <2>1
<1>4. Layer2(H[i], VlanSteps(H[i]), 4, q) BY <1>3 DEF Vlan
<1>5. pkt \in Packets BY DEF PInv, Kept
<1>6. pkt.vlan_tags \in 0 .. MAX_TAGS BY <1>5 DEF Packets, Records
<1>7. Fields("vlan", H[i])
  <2>1. Fields(H[i].kind, H[i]) BY <1>2, FieldsLaid
  <2> QED BY <1>1, <2>1
<1>8. ParserSafe(VlanSteps(H[i]), size, post) BY <1>6, <1>7, PInvTyped, VlanSafe
<1>9. Size(frame, i) = 4 BY <1>1 DEF Size
<1>10. Captured => Judges(VlanSteps(H[i]), FALSE)
  <2>1. ASSUME Captured PROVE 4 <= size
    <3>1. at \in Nat /\ frame.end \in Nat /\ at + 4 <= frame.end BY <1>2, <1>9, WithinFrame
    <3>2. frame.incl \in Nat BY <1>2, FramesAssumption
    <3> QED BY <1>1, <2>1, <3>1, <3>2 DEF Captured, Linked
  <2>2. ~H[i].reserved /\ i - 1 <= MAX_TAGS BY <1>1, <1>2 DEF LaidOut, FieldsSound
  <2>3. pkt.vlan_tags \in Nat /\ pkt.vlan_tags < MAX_TAGS BY <1>1, <1>2, <2>2 DEF MAX_TAGS
  <2> QED BY <2>1, <2>2, <2>3, PInvTyped, VlanJudges
<1>11. post => q \in Packets /\ q.ipv6_ext = <<>> /\ q.transport = "none" /\ q.vlan_tags = i - 1
  <2>1. pkt.ipv6_ext = <<>> /\ pkt.transport = "none" BY <1>1 DEF Linked
  <2>2. q = [pkt EXCEPT !.vlan_tags = pkt.vlan_tags + 1] OBVIOUS
  <2>3. pkt.vlan_tags + 1 = i - 1 BY <1>1
  <2> QED BY <1>5, <2>1, <2>2, <2>3, TagWritten DEF Packets, Records
<1> HIDE DEF q, post
<1>12. /\ size = frame.incl - at /\ H[i].kind \in {"eth", "vlan"}
       /\ \A j \in 1 .. i - 1 : H[j].kind \in {"eth", "vlan"}
  BY <1>1 DEF Linked
<1> HIDE DEF H
<1>13. 4 \in Nat OBVIOUS
<1> QED BY <1>1, <1>2, <1>4, <1>8, <1>9, <1>10, <1>11, <1>12, <1>13, Layer2Walks DEF H

-----------------------------------------------------------------------------
(* Sound frames: layer 3                                                   *)

(* The end of a frame that is accepted.                                    *)
LEMMA AcceptedRight ==
    ASSUME Sound, pc' = "done", err' = "None", config' = config, frame' = frame, Captured,
           config.verify_checksum => SumsHold(frame), NEW i \in 1 .. Len(frame.hdrs),
           i = Len(frame.hdrs), frame.hdrs[i].kind \in {"arp"} \cup Transports,
           pkt'.transport = IF frame.hdrs[i].kind = "arp" THEN "none" ELSE frame.hdrs[i].kind,
           frame.hdrs[i].kind # "arp" => pkt'.payload = Payload(frame)
    PROVE  WInv'
<1>1. Last(frame.hdrs) = frame.hdrs[i] BY DEF Last
<1>2. Captured' BY DEF Captured
<1>3. SoundDecoded' BY <1>1, <1>2 DEF SoundDecoded
<1>4. CorruptRefused' BY DEF CorruptRefused
<1> QED BY <1>3, <1>4 DEF WInv, Walk

(* Where layer 3 finds the header of its network.                          *)
LEMMA Layer3Here ==
    ASSUME PInv, Sound, Walk, pc = "layer3", NEW n, pkt.network = n
    PROVE  \E i \in 1 .. Len(frame.hdrs) :
              /\ Linked(i) /\ frame.hdrs[i].kind = n /\ Here(n) = {frame.hdrs[i]}
              /\ Fields(n, frame.hdrs[i]) /\ FieldsSound(frame, i) /\ i \in 2 .. Len(frame.hdrs)
              /\ at \in Nat /\ Size(frame, i) \in Nat /\ frame.end \in Nat /\ frame.incl \in Nat
              /\ at + Size(frame, i) <= frame.end /\ size = frame.incl - at
<1>1. PICK i \in 1 .. Len(frame.hdrs) : Linked(i) /\ frame.hdrs[i].kind = n BY DEF Walk
<1>2. frame \in Frames /\ LaidOut(frame) /\ at = frame.hdrs[i].at /\ size = frame.incl - at
      /\ i \in 2 .. Len(frame.hdrs)
  BY <1>1 DEF PInv, Sound, Linked
<1>3. Here(n) = {frame.hdrs[i]} BY <1>1, <1>2, HereLaid
<1>4. Fields(n, frame.hdrs[i]) BY <1>1, <1>2, FieldsLaid
<1>5. FieldsSound(frame, i) BY <1>2 DEF LaidOut
<1>6. at \in Nat /\ Size(frame, i) \in Nat /\ frame.end \in Nat /\ at + Size(frame, i) <= frame.end
  BY <1>2, WithinFrame
<1>7. frame.incl \in Nat BY <1>2, FramesAssumption
<1> QED BY <1>1, <1>2, <1>3, <1>4, <1>5, <1>6, <1>7

(* ARP.                                                                    *)
LEMMA ArpWalks == ASSUME PInv, Sound, Walk, Arp PROVE WInv'
<1> DEFINE n(h) == 8 + 2 * h.hlen + 2 * h.plen
<1>1. pc = "layer3" /\ pkt.network = "arp" BY DEF Arp
<1>2. PICK i \in 1 .. Len(frame.hdrs) :
         /\ Linked(i) /\ frame.hdrs[i].kind = "arp" /\ Here("arp") = {frame.hdrs[i]}
         /\ Fields("arp", frame.hdrs[i]) /\ FieldsSound(frame, i) /\ i \in 2 .. Len(frame.hdrs)
         /\ at \in Nat /\ Size(frame, i) \in Nat /\ frame.end \in Nat /\ frame.incl \in Nat
         /\ at + Size(frame, i) <= frame.end /\ size = frame.incl - at
  BY <1>1, Layer3Here
<1> DEFINE h == frame.hdrs[i]
           post == 8 + 2 * h.hlen + 2 * h.plen <= size
<1>3. Parse(ArpSteps(h), n(h), size - n(h), pkt, next, "done") BY <1>2 DEF Arp
<1>4. ParserSafe(ArpSteps(h), size, post) BY <1>2, PInvTyped, ArpSafe
<1>5. at = h.at /\ pkt.transport = "none" /\ i = Len(frame.hdrs)
  <2>1. LaidOut(frame) BY DEF Sound
  <2>2. i = Len(frame.hdrs) BY <1>2, <2>1, LastLaid
  <2> QED BY <1>2, <2>2 DEF Linked
<1>6. h.hlen > 0 /\ h.plen > 0 /\ frame.end - at = Size(frame, i) /\ Size(frame, i) = n(h)
  BY <1>2, <1>5 DEF FieldsSound, Size
<1>7. post <=> Captured
  <2> DEFINE m == n(h)
  <2>1. post <=> m <= size OBVIOUS
  <2>2. frame.end - at = m /\ m \in Nat /\ size = frame.incl - at /\ at \in Nat /\ frame.incl \in Nat
        /\ frame.end \in Nat
    BY <1>2, <1>6
  <2> HIDE DEF m, post
  <2>3. m <= size <=> frame.incl >= frame.end BY <2>2
  <2> QED BY <2>1, <2>3 DEF Captured
<1>8. Captured => Judges(ArpSteps(h), FALSE)
  <2>1. Captured => 8 + 2 * h.hlen + 2 * h.plen <= size BY <1>7
  <2> QED BY <1>2, <1>6, <2>1, PInvTyped, ArpJudges
<1> DEFINE m == n(h)
<1>9. Parse(ArpSteps(h), m, size - m, pkt, next, "done") BY <1>3
<1> HIDE DEF post, m
<1>10. Judged(m, size - m, pkt, next, "done", post, FALSE) BY <1>4, <1>8, <1>9, ParseJudged
<1>11. CASE Refused(FALSE) BY <1>10, <1>11, RefusedRight DEF Judged
<1>12. CASE Moved(m, size - m, pkt, next, "done") /\ post
  <2>1. SumsHold(frame)
    <3>1. ASSUME NEW j \in 2 .. Len(frame.hdrs)
          PROVE  frame.hdrs[j].kind \notin {"ipv4"} \cup Transports
      <4>1. j = i \/ j \in 1 .. i - 1 BY <1>5
      <4>2. frame.hdrs[j].kind \in {"eth", "vlan", "arp"} BY <1>2, <4>1 DEF Linked
      <4> QED BY <4>2 DEF Transports
    <3> QED BY <3>1 DEF SumsHold
  <2>2. Captured BY <1>7, <1>12
  <2>3. pc' = "done" /\ err' = "None" /\ pkt' = pkt BY <1>12 DEF Moved
  <2>4. config' = config /\ frame' = frame BY <1>10 DEF Judged
  <2> HIDE DEF h
  <2> QED BY <1>2, <1>5, <2>1, <2>2, <2>3, <2>4, AcceptedRight DEF h
<1> QED BY <1>10, <1>11, <1>12 DEF Judged

(* What the checksum over a sound header verifies as.                      *)
LEMMA VerifiedSound ==
    ASSUME NEW h, NEW n, NEW pseudo, h.sum.n = n, h.sum.pseudo = pseudo,
           NEW b \in Verified(h, n, pseudo)
    PROVE  b = h.sum.ok
BY DEF Verified

(* IPv4.                                                                   *)
LEMMA Ipv4Walks == ASSUME PInv, Sound, Walk, Ipv4 PROVE WInv'
<1>1. pc = "layer3" /\ pkt.network = "ipv4" /\ pkt \in Packets BY DEF Ipv4, PInv, Kept
<1>2. PICK i \in 1 .. Len(frame.hdrs) :
         /\ Linked(i) /\ frame.hdrs[i].kind = "ipv4" /\ Here("ipv4") = {frame.hdrs[i]}
         /\ Fields("ipv4", frame.hdrs[i]) /\ FieldsSound(frame, i) /\ i \in 2 .. Len(frame.hdrs)
         /\ at \in Nat /\ Size(frame, i) \in Nat /\ frame.end \in Nat /\ frame.incl \in Nat
         /\ at + Size(frame, i) <= frame.end /\ size = frame.incl - at
  BY <1>1, Layer3Here
<1> DEFINE h    == frame.hdrs[i]
           k    == i + 1
           eat  == 4 * h.ihl
           keep == h.total_length - 4 * h.ihl
           t    == TransportFromProtocol(h.protocol)
           ip   == [length |-> keep, protocol |-> h.protocol, dst |-> h.dst]
           q    == [pkt EXCEPT !.transport = t, !.ip = ip]
           post == 4 * h.ihl <= h.total_length /\ h.total_length <= size
<1>3. PICK sum_ok \in Verified(h, 4 * h.ihl, "none") :
         Parse(Ipv4Steps(h, sum_ok), eat, keep, q, h.protocol, "layer4")
  BY <1>2 DEF Ipv4
<1>4. /\ h.ihl \in Nat /\ h.total_length \in Nat /\ at = h.at /\ h.version = 4 /\ h.ihl >= 5
      /\ h.total_length = frame.end - at /\ h.sum.n = 4 * h.ihl /\ h.sum.pseudo = "none"
      /\ Size(frame, i) = eat /\ h.sum.ok \in BOOLEAN
  BY <1>2 DEF Fields, FieldsSound, Linked, Size
<1>5. sum_ok = h.sum.ok /\ sum_ok \in BOOLEAN
  <2> HIDE DEF h
  <2> QED BY <1>3, <1>4, VerifiedSound
<1>6. ParserSafe(Ipv4Steps(h, sum_ok), size, post) BY <1>2, <1>5, PInvTyped, Ipv4Safe
<1>7. /\ 4 * h.ihl <= h.total_length /\ (h.total_length <= size <=> Captured)
      /\ (post <=> Captured) /\ at + eat + keep = frame.end /\ eat \in Nat /\ keep \in Int
  <2> DEFINE x == 4 * h.ihl
             y == h.total_length
  <2>1. /\ x \in Nat /\ y \in Nat /\ y = frame.end - at /\ at + x <= frame.end
        /\ at \in Nat /\ frame.end \in Nat /\ frame.incl \in Nat /\ size = frame.incl - at
    BY <1>2, <1>4
  <2>2. eat = x /\ keep = y - x /\ (post <=> x <= y /\ y <= size) OBVIOUS
  <2> HIDE DEF x, y, eat, keep, post
  <2>3. x <= y /\ (y <= size <=> frame.incl >= frame.end) /\ at + x + (y - x) = frame.end
    <3>1. x <= y BY <2>1
    <3>2. y <= size <=> frame.incl >= frame.end BY <2>1
    <3>3. at + x + (y - x) = frame.end BY <2>1
    <3> QED BY <3>1, <3>2, <3>3
  <2> QED BY <2>1, <2>2, <2>3 DEF Captured, x, y
<1> DEFINE bad == config.verify_checksum /\ ~sum_ok
<1>8. Captured => Judges(Ipv4Steps(h, sum_ok), bad)
  <2> HIDE DEF h
  <2> QED BY <1>2, <1>4, <1>5, <1>7, PInvTyped, Ipv4Judges DEF h
<1>9. k \in 2 .. Len(frame.hdrs) /\ k \in 1 .. Len(frame.hdrs)
      /\ Stacked(h, frame.hdrs[k]) /\ frame.hdrs[k].at = at + eat
  <2>1. LaidOut(frame) BY DEF Sound
  <2>2. h.kind \notin {"arp"} \cup Transports BY <1>2 DEF Transports
  <2> QED BY <1>4, <2>1, <2>2, NextLaid
<1>10. frame.hdrs[k].kind \in {"tcp", "udp", "icmp"} /\ frame.hdrs[k].kind = h.protocol
  BY <1>2, <1>9 DEF Stacked, OnTop, Announces
<1>11. t = frame.hdrs[k].kind /\ t \in Transports
  BY <1>10 DEF TransportFromProtocol, Transports
<1>12. /\ q.transport = t /\ q.ip = ip /\ q.network = "ipv4"
  <2> HIDE DEF t, ip
  <2> QED BY <1>1 DEF Packets, Records
<1> HIDE DEF post, bad, q
<1>13. Judged(eat, keep, q, h.protocol, "layer4", post, bad)
  <2> HIDE DEF eat, keep
  <2> QED BY <1>3, <1>6, <1>8, ParseJudged
<1>14. CASE Refused(bad)
  <2>1. bad => config.verify_checksum /\ ~SumsHold(frame)
    <3>1. bad => ~SumHolds(frame, i) BY <1>2, <1>5 DEF bad, SumHolds
    <3> QED BY <1>2, <3>1, OneFails DEF bad
  <2> QED BY <1>13, <1>14, <2>1, RefusedRight DEF Judged
<1>15. CASE Moved(eat, keep, q, h.protocol, "layer4") /\ post /\ (Captured => ~bad)
  <2>1. /\ pc' = "layer4" /\ at' = at + eat /\ size' = keep /\ pkt' = q
        /\ config' = config /\ frame' = frame
    BY <1>13, <1>15 DEF Moved, Judged
  <2>2. Captured /\ ~bad BY <1>7, <1>15
  <2>3. Narrowed(k)'
    <3>1. size' = frame.end - at'
      <4> HIDE DEF eat, keep
      <4>1. at + eat + keep = frame.end /\ at \in Nat /\ eat \in Nat /\ keep \in Int BY <1>2, <1>7
      <4> QED BY <2>1, <4>1
    <3> HIDE DEF k
    <3> QED BY <1>9, <2>1, <2>2, <3>1 DEF Narrowed, Captured
  <2>4. OverIpv4(k)'
    <3>1. k - 1 = i /\ k - 2 = i - 1 OBVIOUS
    <3>2. config.verify_checksum => h.sum.ok BY <1>5, <2>2 DEF bad
    <3>3. \A j \in 1 .. k - 2 : frame.hdrs[j].kind \in {"eth", "vlan"} BY <1>2, <3>1 DEF Linked
    <3>4. q.ip = [length |-> h.total_length - 4 * h.ihl, protocol |-> h.protocol, dst |-> h.dst]
      BY <1>12
    <3> HIDE DEF k, q
    <3> QED BY <1>2, <1>12, <2>1, <2>3, <3>1, <3>2, <3>3, <3>4 DEF OverIpv4
  <2> HIDE DEF k, t
  <2>5. Walk' BY <1>9, <1>11, <1>12, <2>1, <2>4 DEF Walk, SoundDecoded, CorruptRefused
  <2> QED BY <2>5 DEF WInv
<1> QED BY <1>13, <1>14, <1>15 DEF Judged

(* What the parse of a header of IPv6 leaves.                              *)
LeavesIpv6(b, i, eat, keep, p) ==
    /\ Captured /\ keep = frame.end - (at + eat)
    /\ p \in Packets /\ PastIpv6(b, i, p)

ParsesIpv6(b, i, steps, eat, keep, p, post) ==
    /\ i \in 2 .. Len(frame.hdrs) /\ frame.hdrs[i].kind \in {"ipv6", "ext"}
    /\ at = frame.hdrs[i].at /\ eat \in Nat /\ eat = Size(frame, i)
    /\ ParserSafe(steps, size, post) /\ (Captured => Judges(steps, FALSE))
    /\ post => LeavesIpv6(b, i, eat, keep, p)

(* Behind it there is an extension, or the transport.                      *)
LEMMA Layer3Walks ==
    ASSUME PInv, Sound, NEW b, NEW i, NEW steps, NEW eat, NEW keep, NEW p, NEW post,
           ParsesIpv6(b, i, steps, eat, keep, p, post),
           Layer3(steps, eat, keep, p, frame.hdrs[i].next_header, FALSE)
    PROVE  WInv'
<1> DEFINE H == frame.hdrs
           k == i + 1
           n == H[i].next_header
           q == [p EXCEPT !.transport = TransportFromProtocol(n)]
<1>c. i \in 2 .. Len(H) BY DEF ParsesIpv6
<1>d. i \in 1 .. Len(H) /\ i \in Nat BY <1>c
<1>b. /\ i \in 1 .. Len(H) /\ i \in Nat /\ H[i].kind \in {"ipv6", "ext"}
      /\ at = H[i].at /\ eat \in Nat /\ eat = Size(frame, i) /\ ParserSafe(steps, size, post)
      /\ (Captured => Judges(steps, FALSE)) /\ (post => LeavesIpv6(b, i, eat, keep, p))
  BY <1>d DEF ParsesIpv6
<1>1. k \in 2 .. Len(H) /\ k \in 1 .. Len(H) /\ Stacked(H[i], H[k]) /\ H[k].at = at + eat
  <2>1. LaidOut(frame) BY DEF Sound
  <2>2. H[i].kind \notin {"arp"} \cup Transports BY <1>b DEF Transports
  <2> QED BY <1>b, <2>1, <2>2, NextLaid
<1>2. /\ H[k].kind \in {"ext", "tcp", "udp", "icmpv6"} /\ n = Announces(H[i])
      /\ IF H[k].kind = "ext" THEN n \in Extensions ELSE n = H[k].kind
  BY <1>1, <1>b DEF Stacked, OnTop, Announces
<1>3. k - 1 = i BY <1>b
<1>a. post => /\ Captured /\ keep = frame.end - (at + eat)
              /\ p \in Packets /\ PastIpv6(b, i, p)
  BY <1>b DEF LeavesIpv6
<1>4. ASSUME NEW r, NEW to, Moved(eat, keep, r, n, to), post, PastIpv6(b, i, r),
             config' = config, frame' = frame
      PROVE  OverIpv6(b, k)' /\ pkt' = r /\ pc' = to
  <2>1. pc' = to /\ at' = at + eat /\ size' = keep /\ pkt' = r /\ next' = n BY <1>4 DEF Moved
  <2>2. size' = frame'.end - at' /\ Captured' BY <1>4, <1>a, <2>1 DEF Captured
  <2> HIDE DEF k
  <2>3. Narrowed(k)' BY <1>1, <1>4, <2>1, <2>2 DEF Narrowed
  <2>4. PastIpv6(b, k - 1, pkt)' BY <1>3, <1>4, <2>1 DEF PastIpv6, Noted
  <2>5. next' = Announces(frame'.hdrs[k - 1]) BY <1>2, <1>3, <1>4, <2>1
  <2> QED BY <2>1, <2>3, <2>4, <2>5 DEF OverIpv6
<1>5. CASE H[k].kind = "ext"
  <2>1. Parse(steps, eat, keep, p, n, "ext") BY <1>2, <1>5 DEF Layer3
  <2>2. Judged(eat, keep, p, n, "ext", post, FALSE) BY <1>b, <2>1, ParseJudged
  <2>3. config' = config /\ frame' = frame BY <2>2 DEF Judged
  <2>4. CASE Refused(FALSE) BY <2>3, <2>4, RefusedRight
  <2>5. CASE Moved(eat, keep, p, n, "ext") /\ post
    <3>1. OverIpv6(b, k)' /\ pc' = "ext" BY <1>4, <1>a, <2>3, <2>5
    <3>2. b \in 1 .. Len(H)
      <4>1. b \in 2 .. i BY <1>a, <2>5 DEF PastIpv6
      <4> QED BY <1>b, <4>1
    <3> HIDE DEF k
    <3>3. Walk' BY <1>1, <1>5, <2>3, <3>1, <3>2 DEF Walk, SoundDecoded, CorruptRefused
    <3> QED BY <3>3 DEF WInv
  <2> QED BY <2>2, <2>4, <2>5 DEF Judged
<1>6. CASE H[k].kind # "ext"
  <2>1. n = H[k].kind /\ n \in Transports /\ n \notin Extensions
    BY <1>2, <1>6 DEF Transports, Extensions
  <2>2. Parse(steps, eat, keep, q, n, "layer4") BY <2>1 DEF Layer3
  <2>3. TransportFromProtocol(n) = H[k].kind BY <2>1 DEF TransportFromProtocol
  <2>4. post => q.transport = H[k].kind /\ PastIpv6(b, i, q)
    <3> DEFINE t == TransportFromProtocol(n)
    <3>1. p \in Packets => /\ q.transport = t /\ q.network = p.network /\ q.ip = p.ip
                           /\ q.ipv6_ext = p.ipv6_ext
      <4> HIDE DEF t
      <4> QED BY DEF Packets, Records, t
    <3> HIDE DEF q
    <3> QED BY <1>a, <2>3, <3>1 DEF PastIpv6
  <2> HIDE DEF q
  <2>5. Judged(eat, keep, q, n, "layer4", post, FALSE) BY <1>b, <2>2, ParseJudged
  <2>6. config' = config /\ frame' = frame BY <2>5 DEF Judged
  <2>7. CASE Refused(FALSE) BY <2>6, <2>7, RefusedRight
  <2>8. CASE Moved(eat, keep, q, n, "layer4") /\ post
    <3>1. OverIpv6(b, k)' /\ pc' = "layer4" /\ pkt' = q BY <1>4, <2>4, <2>6, <2>8
    <3>2. b \in 1 .. Len(H)
      <4>1. b \in 2 .. i BY <1>a, <2>8 DEF PastIpv6
      <4> QED BY <1>b, <4>1
    <3> HIDE DEF k
    <3>3. Walk' BY <1>1, <2>1, <2>4, <2>6, <2>8, <3>1, <3>2 DEF Walk, SoundDecoded, CorruptRefused
    <3> QED BY <3>3 DEF WInv
  <2> QED BY <2>5, <2>7, <2>8 DEF Judged
<1> QED BY <1>5, <1>6

(* IPv6.                                                                   *)
LEMMA Ipv6Walks == ASSUME PInv, Sound, Walk, Ipv6 PROVE WInv'
<1>1. pc = "layer3" /\ pkt.network = "ipv6" /\ pkt \in Packets BY DEF Ipv6, PInv, Kept
<1>2. PICK i \in 1 .. Len(frame.hdrs) :
         /\ Linked(i) /\ frame.hdrs[i].kind = "ipv6" /\ Here("ipv6") = {frame.hdrs[i]}
         /\ Fields("ipv6", frame.hdrs[i]) /\ FieldsSound(frame, i) /\ i \in 2 .. Len(frame.hdrs)
         /\ at \in Nat /\ Size(frame, i) \in Nat /\ frame.end \in Nat /\ frame.incl \in Nat
         /\ at + Size(frame, i) <= frame.end /\ size = frame.incl - at
  BY <1>1, Layer3Here
<1> DEFINE h    == frame.hdrs[i]
           n    == h.payload_length
           ip   == [length |-> n, protocol |-> h.next_header, dst |-> h.dst]
           q    == [pkt EXCEPT !.ip = ip]
           post == 40 + n <= size
<1>3. Layer3(Ipv6Steps(h), 40, n, q, h.next_header, FALSE) BY <1>2 DEF Ipv6
<1>4. /\ n \in Nat /\ at = h.at /\ h.version = 6 /\ n = (frame.end - at) - 40
      /\ Size(frame, i) = 40 /\ h.next_header \in STRING /\ h.dst \in STRING
  BY <1>2 DEF Fields, FieldsSound, Linked, Size
<1>5. ParserSafe(Ipv6Steps(h), size, post) BY <1>2, PInvTyped, Ipv6Safe
<1>6. (post <=> Captured) /\ n = frame.end - (at + 40)
  <2> HIDE DEF h, n
  <2>0. /\ n \in Nat /\ at \in Nat /\ frame.end \in Nat /\ frame.incl \in Nat
        /\ n = (frame.end - at) - 40 /\ size = frame.incl - at
    BY <1>2, <1>4
  <2>1. 40 + n <= size <=> frame.incl >= frame.end BY <2>0
  <2>2. n = frame.end - (at + 40) BY <2>0
  <2> QED BY <2>1, <2>2 DEF Captured
<1>7. Captured => Judges(Ipv6Steps(h), FALSE)
  <2> HIDE DEF h
  <2> QED BY <1>2, <1>4, <1>6, PInvTyped, Ipv6Judges DEF h
<1>8. q \in Packets /\ q.network = "ipv6" /\ q.ip = ip /\ q.ipv6_ext = <<>>
  <2>1. ip \in [length : Nat, protocol : Names, dst : Names] BY <1>4 DEF Names
  <2>2. pkt.ipv6_ext = <<>> BY <1>2 DEF Linked
  <2> HIDE DEF ip
  <2>3. q.ip = ip /\ q.ipv6_ext = pkt.ipv6_ext BY <1>1 DEF Packets, Records
  <2> QED BY <1>1, <2>1, <2>2, <2>3, IpWritten
<1>9. PastIpv6(i, i, q)
  <2>1. \A j \in 1 .. i - 1 : frame.hdrs[j].kind \in {"eth", "vlan"} BY <1>2 DEF Linked
  <2>2. i + 1 .. i = {} /\ 1 .. i - i = {} /\ i - i = 0 /\ Len(q.ipv6_ext) = 0 /\ i \in 2 .. i
    <3> HIDE DEF q
    <3> QED BY <1>2, <1>8
  <2> HIDE DEF q
  <2> QED BY <1>2, <1>8, <2>1, <2>2 DEF PastIpv6
<1> HIDE DEF q, post
<1>10. post => LeavesIpv6(i, i, 40, n, q) BY <1>6, <1>8, <1>9 DEF LeavesIpv6
<1>11. ParsesIpv6(i, i, Ipv6Steps(h), 40, n, q, post)
  BY <1>2, <1>4, <1>5, <1>7, <1>10 DEF ParsesIpv6
<1> HIDE DEF n
<1> QED BY <1>3, <1>11, Layer3Walks

(* How far into the list of addresses the last of m is.                    *)
LEMMA LastAddress ==
    ASSUME NEW m \in Nat
    PROVE  ((8 + 16 * ((2 * m) \div 2 - 1)) - 8) \div 16 + 1 = m
<1>1. (2 * m) \div 2 = m OBVIOUS
<1>2. \A x \in Int : ((8 + 16 * (x - 1)) - 8) \div 16 + 1 = x OBVIOUS
<1> QED BY <1>1, <1>2

(* The address read from a routing header is the final destination.        *)
LEMMA FinalIs ==
    ASSUME NEW f \in Frames, LaidOut(f), NEW i \in 2 .. Len(f.hdrs), f.hdrs[i].kind = "ext"
    PROVE  /\ FinalDst(Announces(f.hdrs[i - 1]), f.hdrs[i])
                 = IF Routes(f, i) THEN Final(f.hdrs[i]) ELSE "none"
           /\ Routes(f, i) => /\ Final(f.hdrs[i]) # "none"
                              /\ f.hdrs[i].hdr_ext_len >= 2 /\ f.hdrs[i].hdr_ext_len % 2 = 0
<1> DEFINE h    == f.hdrs[i]
           type == Announces(f.hdrs[i - 1])
           m    == Len(h.addrs)
           x    == (FinalDstOffset(h) - 8) \div 16 + 1
<1>1. Routes(f, i) <=> Addressed(type, h) BY DEF Routes
<1>2. CASE ~Routes(f, i) BY <1>1, <1>2 DEF FinalDst
<1>3. CASE Routes(f, i)
  <2>1. i \in 1 .. Len(f.hdrs) /\ FieldsSound(f, i) BY DEF LaidOut
  <2>2. Fields("ext", h) BY <2>1, FieldsLaid
  <2>3. h.addrs \in Seq(STRING) /\ h.hdr_ext_len \in Nat BY <2>2 DEF Fields
  <2>4. h.addrs # <<>> /\ h.hdr_ext_len = 2 * m /\ "none" \notin Range(h.addrs)
    BY <1>3, <2>1 DEF FieldsSound
  <2>5. m \in Nat /\ m >= 1 /\ DOMAIN h.addrs = 1 .. m BY <2>3, <2>4, LenProperties, EmptySeq
  <2>6. 1 \in DOMAIN h.addrs /\ m \in DOMAIN h.addrs BY <2>5
  <2>7. h.addrs[1] # "none" /\ h.addrs[m] # "none" BY <2>4, <2>6 DEF Range
  <2>8. Last(h.addrs) = h.addrs[m] BY DEF Last
  <2>9. x = IF h.routing_type = "srh" THEN 1 ELSE m
    <3>1. CASE h.routing_type = "srh"
      <4>1. FinalDstOffset(h) = 8 BY <3>1 DEF FinalDstOffset
      <4>2. (8 - 8) \div 16 + 1 = 1 OBVIOUS
      <4> QED BY <3>1, <4>1, <4>2
    <3>2. CASE h.routing_type # "srh"
      <4>1. FinalDstOffset(h) = 8 + 16 * ((2 * m) \div 2 - 1) BY <2>4, <3>2 DEF FinalDstOffset
      <4> HIDE DEF m
      <4>2. x = m BY <2>5, <4>1, LastAddress
      <4> QED BY <3>2, <4>2
    <3> QED BY <3>1, <3>2
  <2>10. x \in DOMAIN h.addrs /\ h.addrs[x] = Final(h)
    <3> HIDE DEF x
    <3> QED BY <2>6, <2>8, <2>9 DEF Final
  <2>11. FinalDst(type, h) = h.addrs[x] BY <1>1, <1>3, <2>10 DEF FinalDst
  <2>12. h.hdr_ext_len >= 2 /\ h.hdr_ext_len % 2 = 0
    <3> HIDE DEF m
    <3>1. \A y \in Nat : y >= 1 => 2 * y >= 2 /\ (2 * y) % 2 = 0 OBVIOUS
    <3> QED BY <2>4, <2>5, <3>1
  <2>13. Final(h) # "none" BY <2>7, <2>8 DEF Final
  <2> QED BY <1>3, <2>10, <2>11, <2>12, <2>13
<1> QED BY <1>2, <1>3

(* The headers and the extensions noted of them, and one more.             *)
LEMMA PastOneMore ==
    ASSUME NEW b, NEW i \in 2 .. Len(frame.hdrs), PastIpv6(b, i - 1, pkt), pkt \in Packets,
           frame.hdrs[i].kind = "ext", NEW q, q = [pkt EXCEPT !.ipv6_ext = Append(@, Noted(i))],
           Noted(i) \in [next_header : Names, final_dst : Names]
    PROVE  PastIpv6(b, i, q)
<1> DEFINE E == [next_header : Names, final_dst : Names]
           a == Append(pkt.ipv6_ext, Noted(i))
           l == Len(pkt.ipv6_ext)
<1>1. pkt \in Records /\ pkt.ipv6_ext \in Seq(E) BY DEF Packets, Records
<1>2. q = [pkt EXCEPT !.ipv6_ext = a] OBVIOUS
<1>3. q.ipv6_ext = a /\ q.network = pkt.network /\ q.ip = pkt.ip
  <2> HIDE DEF a
  <2> QED BY <1>1, <1>2 DEF Records
<1>4. /\ Len(a) = l + 1 /\ a[l + 1] = Noted(i) /\ l \in Nat
      /\ \A k \in 1 .. l : a[k] = pkt.ipv6_ext[k]
  <2> DEFINE e == Noted(i)
  <2>1. e \in E OBVIOUS
  <2> HIDE DEF E, e
  <2>2. l \in Nat BY <1>1, LenProperties
  <2> QED BY <1>1, <2>1, <2>2, AppendProperties DEF e
<1>5. b \in 2 .. i - 1 /\ l = (i - 1) - b
      /\ \A k \in 1 .. (i - 1) - b : pkt.ipv6_ext[k] = Noted(b + k)
      /\ \A j \in b + 1 .. i - 1 : frame.hdrs[j].kind = "ext"
  BY DEF PastIpv6
<1> HIDE DEF a, l
<1>6. b \in 2 .. i /\ Len(a) = i - b BY <1>4, <1>5
<1>7. \A k \in 1 .. i - b : a[k] = Noted(b + k)
  <2> TAKE k \in 1 .. i - b
  <2>1. CASE k \in 1 .. (i - 1) - b BY <1>4, <1>5, <2>1
  <2>2. CASE k = l + 1
    <3>1. b + k = i BY <1>5, <2>2
    <3> QED BY <1>4, <2>2, <3>1
  <2> QED BY <1>5, <2>1, <2>2
<1>8. \A j \in b + 1 .. i : frame.hdrs[j].kind = "ext"
  <2> TAKE j \in b + 1 .. i
  <2>1. j = i \/ j \in b + 1 .. i - 1 BY <1>5
  <2> QED BY <1>5, <2>1
<1> QED BY <1>3, <1>6, <1>7, <1>8 DEF PastIpv6

(* An extension header.                                                    *)
LEMMA ExtWalks == ASSUME PInv, Sound, Walk, Ext PROVE WInv'
<1> DEFINE H == frame.hdrs
<1>1. PICK b \in 1 .. Len(H), i \in 1 .. Len(H) : OverIpv6(b, i) /\ H[i].kind = "ext"
  BY DEF Walk, Ext
<1>2. /\ i \in 2 .. Len(H) /\ at = H[i].at /\ Captured /\ size = frame.end - at
      /\ PastIpv6(b, i - 1, pkt) /\ next = Announces(H[i - 1])
  BY <1>1 DEF OverIpv6, Narrowed
<1>3. frame \in Frames /\ LaidOut(frame) /\ pkt \in Packets BY DEF PInv, Sound, Kept
<1> DEFINE h    == H[i]
           eat  == ExtLength(next, h.hdr_ext_len)
           keep == size - eat
           e    == [next_header |-> h.next_header, final_dst |-> FinalDst(next, h)]
           q    == [pkt EXCEPT !.ipv6_ext = Append(@, e)]
           post == /\ ExtLength(next, h.hdr_ext_len) <= size
                   /\ Len(pkt.ipv6_ext) + 1 \in 0 .. MAX_HEADERS
<1>4. Here("ext") = {h}
  <2>1. Here(h.kind) = {h} BY <1>1, <1>2, <1>3, HereLaid
  <2> QED BY <1>1, <2>1
<1>5. Fields("ext", h) /\ FieldsSound(frame, i)
  <2>1. Fields(h.kind, h) BY <1>3, FieldsLaid
  <2> QED BY <1>1, <1>2, <1>3, <2>1 DEF LaidOut
<1>6. ~(next = "frag" /\ h.fragment) BY <1>1, <1>2, <1>5 DEF FieldsSound
<1>7. Layer3(ExtSteps(next, h), eat, keep, q, h.next_header, FALSE)
  <2>1. Layer3(ExtSteps(next, h), eat, keep, q, h.next_header, next = "frag" /\ h.fragment)
    BY <1>4 DEF Ext
  <2>2. (next = "frag" /\ h.fragment) = FALSE BY <1>6
  <2> HIDE DEF eat, keep, q, h
  <2> QED BY <2>1, <2>2
<1>8. e = Noted(i) /\ (Addressed(next, h) => ~(h.hdr_ext_len < 2 \/ h.hdr_ext_len % 2 # 0))
  <2>1. FinalDst(next, h) = (IF Routes(frame, i) THEN Final(h) ELSE "none")
        /\ (Routes(frame, i) => h.hdr_ext_len >= 2 /\ h.hdr_ext_len % 2 = 0)
    BY <1>1, <1>2, <1>3, FinalIs
  <2>2. Addressed(next, h) => Routes(frame, i) BY <1>1, <1>2 DEF Routes
  <2>3. e = Noted(i) BY <2>1 DEF Noted
  <2>4. h.hdr_ext_len \in Nat BY <1>5 DEF Fields
  <2>5. Routes(frame, i) => ~(h.hdr_ext_len < 2 \/ h.hdr_ext_len % 2 # 0)
    <3> DEFINE n == h.hdr_ext_len
    <3>1. Routes(frame, i) => n >= 2 /\ n % 2 = 0 BY <2>1
    <3>2. n \in Nat BY <2>4
    <3> HIDE DEF n
    <3>3. Routes(frame, i) => ~(n < 2 \/ n % 2 # 0) BY <3>1, <3>2
    <3> QED BY <3>3 DEF n
  <2> QED BY <2>2, <2>3, <2>5
<1>9. e \in [next_header : Names, final_dst : Names]
  <2>1. h.next_header \in Names BY <1>5 DEF Fields, Names
  <2>2. FinalDst(next, h) \in Names BY <1>5, FinalDstType
  <2> QED BY <2>1, <2>2
<1>10. Len(pkt.ipv6_ext) \in 0 .. MAX_HEADERS BY <1>3 DEF Packets
<1>11. ParserSafe(ExtSteps(next, h), size, post)
  <2>1. CASE Addressed(next, h) BY <1>5, <1>10, <2>1, PInvTyped, RouteExtSafe
  <2>2. CASE ~Addressed(next, h) BY <1>5, <1>10, <2>2, PInvTyped, PlainExtSafe
  <2> QED BY <2>1, <2>2
<1>12. /\ Size(frame, i) = eat /\ eat \in Nat /\ at \in Nat /\ frame.end \in Nat
       /\ at + eat <= frame.end
  <2>1. Size(frame, i) = eat BY <1>1, <1>2 DEF Size
  <2> HIDE DEF eat
  <2> QED BY <1>2, <1>3, <2>1, WithinFrame
<1>13. eat <= size /\ keep = frame.end - (at + eat)
  <2>1. keep = size - eat OBVIOUS
  <2> HIDE DEF eat, keep
  <2>2. eat <= size BY <1>2, <1>12
  <2>3. (frame.end - at) - eat = frame.end - (at + eat) BY <1>12, TakenOff
  <2> QED BY <1>2, <2>1, <2>2, <2>3
<1>14. PastIpv6(b, i, q)
  <2>1. q = [pkt EXCEPT !.ipv6_ext = Append(@, Noted(i))] BY <1>8
  <2>2. Noted(i) \in [next_header : Names, final_dst : Names] BY <1>8, <1>9
  <2> HIDE DEF q
  <2> QED BY <1>1, <1>2, <1>3, <2>1, <2>2, PastOneMore
<1>15. post => q \in Packets
  <2> HIDE DEF e
  <2> QED BY <1>3, <1>9, ExtNoted
<1>16. Judges(ExtSteps(next, h), FALSE)
  <2>1. b \in 2 .. i - 1 /\ H[b].kind = "ipv6" /\ Len(pkt.ipv6_ext) = (i - 1) - b
        /\ \A j \in b + 1 .. i - 1 : H[j].kind = "ext"
    BY <1>2 DEF PastIpv6
  <2>2. i - b <= MAX_HEADERS
    <3>1. b \in 1 .. i BY <2>1
    <3> QED BY <1>1, <1>5, <2>1, <3>1 DEF FieldsSound
  <2>3. Len(pkt.ipv6_ext) \in Nat /\ Len(pkt.ipv6_ext) < MAX_HEADERS
    BY <2>1, <2>2 DEF MAX_HEADERS
  <2>4. next = "hopopt" => pkt.ipv6_ext = <<>>
    <3>1. ASSUME next = "hopopt" PROVE pkt.ipv6_ext = <<>>
      <4>1. H[i - 1].kind = "ipv6" BY <1>1, <1>2, <1>5, <3>1 DEF FieldsSound
      <4>2. i - 1 \notin b + 1 .. i - 1
        <5> DEFINE j == i - 1
        <5>1. H[j].kind = "ipv6" /\ \A y \in b + 1 .. j : H[y].kind = "ext" BY <2>1, <4>1
        <5> HIDE DEF j
        <5>2. j \notin b + 1 .. j BY <5>1
        <5> QED BY <5>2 DEF j
      <4>3. Len(pkt.ipv6_ext) = 0 BY <2>1, <4>2
      <4>4. pkt.ipv6_ext \in Seq([next_header : Names, final_dst : Names])
        BY <1>3 DEF Packets, Records
      <4> QED BY <4>3, <4>4, EmptySeq
    <3> QED BY <3>1
  <2>5. ~(next = "ah" /\ h.hdr_ext_len < 1)
    <3>1. next = "ah" => h.hdr_ext_len >= 1 BY <1>1, <1>2, <1>5 DEF FieldsSound
    <3>2. h.hdr_ext_len \in Nat BY <1>5 DEF Fields
    <3> HIDE DEF h
    <3> QED BY <3>1, <3>2
  <2> HIDE DEF h
  <2> QED BY <1>5, <1>8, <1>13, <2>3, <2>4, <2>5, PInvTyped, ExtJudges
<1> HIDE DEF eat, keep, q, post
<1>17. post => LeavesIpv6(b, i, eat, keep, q) BY <1>2, <1>13, <1>14, <1>15 DEF LeavesIpv6
<1>18. ParsesIpv6(b, i, ExtSteps(next, h), eat, keep, q, post)
  BY <1>1, <1>2, <1>11, <1>12, <1>16, <1>17 DEF ParsesIpv6
<1> QED BY <1>7, <1>18, Layer3Walks

-----------------------------------------------------------------------------
(* Sound frames: layer 4                                                   *)

(* Max is the greatest number of a set.                                    *)
LEMMA GreatestIs ==
    ASSUME NEW S \in SUBSET Nat, NEW x \in S, \A y \in S : y <= x
    PROVE  Max(S) = x
<1>1. \E y \in S : \A z \in S : y >= z OBVIOUS
<1>2. Max(S) \in S /\ \A z \in S : Max(S) >= z BY <1>1 DEF Max
<1> DEFINE y == Max(S)
<1>3. y \in S /\ y \in Nat /\ y >= x /\ y <= x /\ x \in Nat BY <1>2
<1> HIDE DEF y
<1>4. y = x BY <1>3
<1> QED BY <1>4 DEF y

(* The greatest of numbers that are b greater is b greater.                *)
LEMMA MaxShifted ==
    ASSUME NEW b \in Nat, NEW m \in Nat, NEW S \in SUBSET (1 .. m), S # {},
           NEW T, T = {b + k : k \in S}
    PROVE  Max(S) \in S /\ Max(T) = b + Max(S)
<1> DEFINE L == {m - k : k \in S}
<1>1. L \in SUBSET Nat /\ L # {}
  <2>1. ASSUME NEW k \in S PROVE m - k \in Nat
    <3>1. k \in 1 .. m OBVIOUS
    <3> QED BY <3>1
  <2> QED BY <2>1
<1>2. PICK l \in L : \A y \in L : l <= y
  <2> HIDE DEF L
  <2> QED BY <1>1, LeastNat
<1>3. PICK x \in S : l = m - x OBVIOUS
<1>4. \A y \in S : y <= x
  <2> TAKE y \in S
  <2>1. m - x <= m - y BY <1>2, <1>3
  <2>2. x \in Nat /\ y \in Nat OBVIOUS
  <2> QED BY <2>1, <2>2
<1> HIDE DEF L
<1>5. \A y \in S : y \in Nat OBVIOUS
<1>6. Max(S) = x
  <2>1. S \in SUBSET Nat BY <1>5
  <2> QED BY <1>3, <1>4, <2>1, GreatestIs
<1>7. Max(T) = b + x
  <2>1. T \in SUBSET Nat BY <1>5
  <2>2. b + x \in T /\ \A z \in T : z <= b + x BY <1>3, <1>4, <1>5
  <2> QED BY <2>1, <2>2, GreatestIs
<1> QED BY <1>6, <1>7

(* The destination the checksum has to cover is the one decoded.           *)
LEMMA DestinationIs ==
    ASSUME frame \in Frames, LaidOut(frame), NEW i \in 1 .. Len(frame.hdrs),
           i = Len(frame.hdrs), frame.hdrs[i].kind \in Transports,
           NEW b, PastIpv6(b, i - 1, pkt), pkt \in Packets
    PROVE  Destination(frame, frame.hdrs[b].dst) = PseudoDst
<1> DEFINE H       == frame.hdrs
           n       == Len(pkt.ipv6_ext)
           named   == {k \in DOMAIN pkt.ipv6_ext : pkt.ipv6_ext[k].final_dst # "none"}
           routing == {j \in 2 .. Len(frame.hdrs) : Routes(frame, j)}
<1>1. pkt.ipv6_ext \in Seq([next_header : Names, final_dst : Names]) BY DEF Packets, Records
<1>2. /\ b \in 2 .. i - 1 /\ n = (i - 1) - b /\ pkt.ip.dst = H[b].dst
      /\ \A j \in 1 .. b - 1 : H[j].kind \in {"eth", "vlan"}
      /\ \A j \in b + 1 .. i - 1 : H[j].kind = "ext"
      /\ H[b].kind = "ipv6"
  BY DEF PastIpv6
<1>3. \A k \in 1 .. n : pkt.ipv6_ext[k] = Noted(b + k) BY <1>2 DEF PastIpv6
<1>4. DOMAIN pkt.ipv6_ext = 1 .. n /\ n \in Nat BY <1>1, LenProperties
<1>5. \A j \in 2 .. Len(H) : Routes(frame, j) => j \in b + 1 .. i - 1
  <2> TAKE j \in 2 .. Len(H)
  <2>1. Routes(frame, j) => H[j].kind = "ext" BY DEF Routes
  <2>2. j \in 1 .. b - 1 \/ j = b \/ j \in b + 1 .. i - 1 \/ j = i BY <1>2
  <2>3. H[i].kind # "ext" BY DEF Transports
  <2> QED BY <1>2, <2>1, <2>2, <2>3
<1>6. \A k \in 1 .. n : b + k \in 2 .. Len(H) /\ H[b + k].kind = "ext" BY <1>2
<1>7. \A k \in 1 .. n : /\ Routes(frame, b + k) <=> pkt.ipv6_ext[k].final_dst # "none"
                        /\ Routes(frame, b + k) => pkt.ipv6_ext[k].final_dst = Final(H[b + k])
  <2> TAKE k \in 1 .. n
  <2> DEFINE j == b + k
  <2>1. j \in 2 .. Len(H) /\ H[j].kind = "ext" /\ pkt.ipv6_ext[k] = Noted(j) BY <1>3, <1>6
  <2> HIDE DEF j
  <2>2. Routes(frame, j) => Final(H[j]) # "none" BY <2>1, FinalIs
  <2>3. Noted(j).final_dst = IF Routes(frame, j) THEN Final(H[j]) ELSE "none" BY DEF Noted
  <2>4. /\ Routes(frame, j) <=> pkt.ipv6_ext[k].final_dst # "none"
        /\ Routes(frame, j) => pkt.ipv6_ext[k].final_dst = Final(H[j])
    BY <2>1, <2>2, <2>3
  <2> QED BY <2>4 DEF j
<1>8. routing = {b + k : k \in named}
  <2>1. ASSUME NEW j \in routing PROVE j \in {b + k : k \in named}
    <3>1. j \in b + 1 .. i - 1 /\ Routes(frame, j) BY <1>5
    <3> DEFINE k == j - b
    <3>2. k \in 1 .. n /\ j = b + k BY <1>2, <3>1
    <3> HIDE DEF k
    <3>3. k \in named BY <1>4, <1>7, <3>1, <3>2
    <3> QED BY <3>2, <3>3
  <2>2. ASSUME NEW k \in named PROVE b + k \in routing BY <1>4, <1>6, <1>7
  <2> HIDE DEF named, routing
  <2> QED BY <2>1, <2>2
<1>9. named \in SUBSET (1 .. n) BY <1>4
<1>10. PseudoDst = IF named = {} THEN pkt.ip.dst ELSE pkt.ipv6_ext[Max(named)].final_dst
  BY DEF PseudoDst
<1>11. Destination(frame, H[b].dst) = IF routing = {} THEN H[b].dst ELSE Final(H[Max(routing)])
  BY DEF Destination
<1> HIDE DEF named, routing
<1>12. CASE named = {}
  <2>1. routing = {} BY <1>8, <1>12
  <2> QED BY <1>2, <1>10, <1>11, <1>12, <2>1
<1>13. CASE named # {}
  <2>1. routing # {} BY <1>8, <1>13
  <2>2. Max(named) \in named /\ Max(routing) = b + Max(named)
    <3>1. b \in Nat BY <1>2
    <3> QED BY <1>4, <1>8, <1>9, <1>13, <3>1, MaxShifted
  <2>3. pkt.ipv6_ext[Max(named)].final_dst = Final(H[b + Max(named)])
    <3>1. Max(named) \in 1 .. n /\ pkt.ipv6_ext[Max(named)].final_dst # "none"
      BY <1>9, <2>2 DEF named
    <3> QED BY <1>7, <3>1
  <2> QED BY <1>10, <1>11, <1>13, <2>1, <2>2, <2>3
<1> QED BY <1>12, <1>13

(* The transport header is the last, over IPv4 or over IPv6.               *)
Transported(i) ==
    /\ i \in 2 .. Len(frame.hdrs) /\ i = Len(frame.hdrs) /\ frame.hdrs[i].kind \in Transports
    /\ OverIpv4(i) \/ \E b \in 1 .. Len(frame.hdrs) : OverIpv6(b, i)

(* Over IPv4 the pseudo-header is the one that was summed.                 *)
LEMMA PseudoIpv4 ==
    ASSUME PInv, Sound, NEW i, Transported(i), OverIpv4(i), frame.hdrs[i].kind # "icmp"
    PROVE  PseudoHeader = frame.hdrs[i].sum.pseudo /\ PseudoHeader.length = size
<1> DEFINE H == frame.hdrs
           g == H[i - 1]
           x == g.total_length - 4 * g.ihl
           p == [length |-> x, protocol |-> g.protocol, dst |-> g.dst]
<1>1. i \in 2 .. Len(H) /\ i \in 1 .. Len(H) /\ i - 1 \in 1 .. Len(H) /\ i = Len(H) /\ i \in Nat
  BY DEF Transported
<1>2. LaidOut(frame) /\ frame \in Frames BY DEF PInv, Sound
<1>3. /\ g.kind = "ipv4" /\ pkt.network = "ipv4" /\ pkt.ip = p
      /\ \A j \in 1 .. i - 2 : H[j].kind \in {"eth", "vlan"}
      /\ at = H[i].at /\ size = frame.end - at
  BY DEF OverIpv4, Narrowed
<1>4. i - 1 \in 2 .. Len(H)
  <2> DEFINE k == i - 1
             n == Len(H)
  <2>1. k # 1 BY <1>2, <1>3 DEF LaidOut
  <2>2. k \in 1 .. n BY <1>1
  <2>3. k \in 2 .. n
    <3> HIDE DEF k, n
    <3> QED BY <2>1, <2>2
  <2> QED BY <2>3
<1>5. FieldsSound(frame, i) /\ FieldsSound(frame, i - 1) /\ Stacked(g, H[i])
      /\ H[i].at = g.at + Size(frame, i - 1)
  BY <1>1, <1>2, <1>4 DEF LaidOut
<1>6. g.protocol = H[i].kind
  <2>1. Announces(g) = g.protocol BY <1>3 DEF Announces
  <2>2. H[i].kind # "ext" BY DEF Transported, Transports
  <2> QED BY <1>5, <2>1, <2>2 DEF Stacked
<1>7. x = size
  <2>1. g.total_length = frame.end - g.at /\ Size(frame, i - 1) = 4 * g.ihl
    BY <1>3, <1>5 DEF FieldsSound, Size
  <2>2. g.at \in Nat /\ Size(frame, i - 1) \in Nat /\ frame.end \in Nat BY <1>1, <1>2, WithinFrame
  <2> DEFINE a == g.at
             s == Size(frame, i - 1)
  <2>3. x = (frame.end - a) - s /\ size = frame.end - (a + s) BY <1>3, <1>5, <2>1
  <2> HIDE DEF a, s, x
  <2>4. a \in Nat /\ s \in Nat /\ frame.end \in Nat BY <2>2 DEF a, s
  <2>5. (frame.end - a) - s = frame.end - (a + s) BY <2>4, TakenOff
  <2> QED BY <2>3, <2>5
<1>8. Destination(frame, g.dst) = g.dst
  <2>1. \A j \in 2 .. Len(H) : ~Routes(frame, j)
    <3> TAKE j \in 2 .. Len(H)
    <3>1. j \in 1 .. i - 2 \/ j = i - 1 \/ j = i BY <1>1
    <3>2. H[i].kind # "ext" BY DEF Transported, Transports
    <3>3. H[j].kind # "ext" BY <1>3, <3>1, <3>2
    <3> QED BY <3>3 DEF Routes
  <2> QED BY <2>1 DEF Destination
<1>9. H[i].sum.pseudo = [length |-> frame.end - H[i].at, protocol |-> H[i].kind,
                         dst |-> Destination(frame, g.dst)]
  <2>1. i - 1 \in 1 .. i BY <1>1
  <2>2. H[i].kind \in Transports \ {"icmp"} BY DEF Transported
  <2> QED BY <1>3, <1>5, <2>1, <2>2 DEF FieldsSound
<1>10. PseudoHeader = p BY <1>3 DEF PseudoHeader
<1> HIDE DEF g, x, H
<1>11. H[i].sum.pseudo = p BY <1>3, <1>6, <1>7, <1>8, <1>9
<1>12. p.length = size BY <1>7
<1> QED BY <1>10, <1>11, <1>12 DEF H

(* And over IPv6.                                                          *)
LEMMA PseudoIpv6 ==
    ASSUME PInv, Sound, NEW i, Transported(i), NEW b, OverIpv6(b, i)
    PROVE  /\ frame.hdrs[i].kind \in {"tcp", "udp", "icmpv6"} /\ frame.hdrs[i - 1].kind # "ipv4"
           /\ PseudoHeader = frame.hdrs[i].sum.pseudo /\ PseudoHeader.length = size
<1> DEFINE H == frame.hdrs
           g == H[b]
           q == [length |-> size, protocol |-> H[i].kind, dst |-> Destination(frame, g.dst)]
<1>1. i \in 2 .. Len(H) /\ i \in 1 .. Len(H) /\ i - 1 \in 1 .. Len(H) /\ i = Len(H) /\ i \in Nat
      /\ H[i].kind \in Transports
  BY DEF Transported
<1>2. LaidOut(frame) /\ frame \in Frames /\ pkt \in Packets BY DEF PInv, Sound, Kept
<1>3. /\ b \in 2 .. i - 1 /\ g.kind = "ipv6" /\ pkt.network = "ipv6"
      /\ pkt.ip = [length |-> g.payload_length, protocol |-> g.next_header, dst |-> g.dst]
      /\ \A j \in b + 1 .. i - 1 : H[j].kind = "ext" /\ Len(pkt.ipv6_ext) = (i - 1) - b
      /\ \A k \in 1 .. (i - 1) - b : pkt.ipv6_ext[k] = Noted(b + k)
      /\ at = H[i].at /\ size = frame.end - at /\ Len(pkt.ipv6_ext) = (i - 1) - b
  BY DEF OverIpv6, Narrowed, PastIpv6
<1>4. H[i - 1].kind \in {"ipv6", "ext"}
  <2>1. i - 1 = b \/ i - 1 \in b + 1 .. i - 1 BY <1>1, <1>3
  <2> QED BY <1>3, <2>1
<1>5. FieldsSound(frame, i) /\ Stacked(H[i - 1], H[i]) BY <1>1, <1>2 DEF LaidOut
<1>6. /\ H[i].kind \in {"tcp", "udp", "icmpv6"} /\ H[i].kind = H[i - 1].next_header
  BY <1>1, <1>4, <1>5 DEF Stacked, OnTop, Announces, Transports
<1>7. /\ b \in 1 .. Len(H) /\ g.payload_length = (frame.end - g.at) - 40 /\ Size(frame, b) = 40
      /\ g.payload_length < 65536
  <2>1. b \in 1 .. Len(H) /\ b \in 2 .. Len(H) BY <1>1, <1>3
  <2>2. FieldsSound(frame, b) BY <1>2, <2>1 DEF LaidOut
  <2>3. g.payload_length = (frame.end - g.at) - 40 /\ (frame.end - g.at) - 40 < 65536
    BY <1>3, <2>2 DEF FieldsSound
  <2> QED BY <1>3, <2>1, <2>3 DEF Size
<1>8. H[i].sum.pseudo = q
  <2>1. b \in 1 .. i /\ H[i].kind \in Transports \ {"icmp"} BY <1>1, <1>3, <1>6
  <2> QED BY <1>3, <1>5, <2>1 DEF FieldsSound
<1>9. Destination(frame, g.dst) = PseudoDst
  <2>1. PastIpv6(b, i - 1, pkt) BY DEF OverIpv6
  <2> QED BY <1>1, <1>2, <2>1, DestinationIs
<1>10. size <= g.payload_length /\ size \in Nat /\ (b = i - 1 => size = g.payload_length)
  <2> DEFINE n == g.payload_length
             a == g.at
             e == frame.end
  <2>1. a \in Nat /\ a + 40 <= at /\ at \in Nat
    <3>1. Behind(frame, i) BY <1>1, <1>2, Ascending
    <3>2. b \in 1 .. i - 1 BY <1>3
    <3> QED BY <1>3, <1>7, <3>1, <3>2 DEF Behind
  <2>2. e \in Nat BY <1>2 DEF LaidOut
  <2>3. size \in Nat BY DEF PInv
  <2>4. b = i - 1 => at = a + 40
    <3>1. H[i].at = H[i - 1].at + Size(frame, i - 1) BY <1>1, <1>2 DEF LaidOut
    <3> QED BY <1>3, <1>7, <3>1
  <2>5. n = (e - a) - 40 /\ size = e - at BY <1>3, <1>7
  <2> HIDE DEF n, a, e
  <2>6. size <= n /\ (b = i - 1 => size = n) BY <2>1, <2>2, <2>4, <2>5
  <2> QED BY <2>3, <2>6 DEF n
<1>11. CASE b = i - 1
  <2>1. Len(pkt.ipv6_ext) = 0 BY <1>1, <1>3, <1>11
  <2>2. pkt.ipv6_ext \in Seq([next_header : Names, final_dst : Names])
    BY <1>2 DEF Packets, Records
  <2>3. pkt.ipv6_ext = <<>> BY <2>1, <2>2, EmptySeq
  <2>4. PseudoHeader = pkt.ip /\ PseudoDst = pkt.ip.dst
    <3>1. {k \in DOMAIN pkt.ipv6_ext : pkt.ipv6_ext[k].final_dst # "none"} = {} BY <2>3
    <3> QED BY <2>3, <3>1 DEF PseudoHeader, PseudoDst
  <2>5. pkt.ip = [length |-> size, protocol |-> H[i].kind, dst |-> PseudoDst]
    BY <1>3, <1>6, <1>10, <1>11, <2>4
  <2> HIDE DEF H, g
  <2>6. PseudoHeader = q /\ q.length = size BY <1>9, <2>4, <2>5
  <2> HIDE DEF q
  <2> QED BY <1>4, <1>6, <1>8, <2>6 DEF H
<1>12. CASE b # i - 1
  <2> DEFINE l == Len(pkt.ipv6_ext)
  <2>1. l = (i - 1) - b /\ l \in Nat /\ l >= 1 BY <1>1, <1>3, <1>12
  <2>2. Last(pkt.ipv6_ext).next_header = H[i].kind
    <3>1. Last(pkt.ipv6_ext) = pkt.ipv6_ext[l] BY DEF Last
    <3>2. l \in 1 .. (i - 1) - b /\ b + l = i - 1 BY <1>1, <1>3, <2>1
    <3> HIDE DEF l
    <3>3. pkt.ipv6_ext[l] = Noted(i - 1) BY <1>3, <3>2
    <3> QED BY <1>6, <3>1, <3>3 DEF Noted
  <2>3. pkt.ipv6_ext # <<>> BY <2>1
  <2>4. size % 65536 = size
    <3>1. size < 65536 /\ size \in Nat
      <4> DEFINE n == g.payload_length
      <4>1. n < 65536 /\ size <= n /\ size \in Nat BY <1>7, <1>10
      <4>2. n \in Nat
        <5>1. Fields(g.kind, g) BY <1>2, <1>7, FieldsLaid
        <5> QED BY <1>3, <5>1 DEF Fields
      <4> HIDE DEF n
      <4> QED BY <4>1, <4>2
    <3>2. \A y \in Nat : y < 65536 => y % 65536 = y OBVIOUS
    <3> QED BY <3>1, <3>2
  <2>5. PseudoHeader = [length |-> size, protocol |-> H[i].kind, dst |-> PseudoDst]
    BY <1>3, <2>2, <2>3, <2>4 DEF PseudoHeader
  <2> HIDE DEF H, g
  <2>6. PseudoHeader = q /\ q.length = size BY <1>9, <2>5
  <2> HIDE DEF q
  <2> QED BY <1>4, <1>6, <1>8, <2>6 DEF H
<1> QED BY <1>11, <1>12

(* What layer 4 finds where a sound frame has its transport header.        *)
LEMMA Layer4Here ==
    ASSUME PInv, Sound, Walk, pc = "layer4"
    PROVE  \E i \in 1 .. Len(frame.hdrs) :
              /\ Transported(i) /\ Narrowed(i) /\ pkt.transport = frame.hdrs[i].kind
              /\ Here(frame.hdrs[i].kind) = {frame.hdrs[i]} /\ FieldsSound(frame, i)
              /\ Fields(frame.hdrs[i].kind, frame.hdrs[i])
              /\ pkt.network = "ipv4" <=> frame.hdrs[i - 1].kind = "ipv4"
              /\ pkt.network = "ipv6" <=> frame.hdrs[i - 1].kind # "ipv4"
              /\ frame.hdrs[i].kind = "icmp" => pkt.network = "ipv4"
              /\ frame.hdrs[i].kind = "icmpv6" => pkt.network = "ipv6"
              /\ frame.hdrs[i].kind # "icmp" =>
                    PseudoHeader = frame.hdrs[i].sum.pseudo /\ PseudoHeader.length = size
              /\ config.verify_checksum =>
                    \A j \in 2 .. i - 1 : frame.hdrs[j].kind \in {"ipv4"} \cup Transports =>
                       SumHolds(frame, j)
<1> DEFINE H == frame.hdrs
<1>1. PICK i \in 1 .. Len(H) :
         /\ H[i].kind \in Transports /\ pkt.transport = H[i].kind
         /\ OverIpv4(i) \/ \E b \in 1 .. Len(H) : OverIpv6(b, i)
  BY DEF Walk
<1>2. LaidOut(frame) /\ frame \in Frames BY DEF PInv, Sound
<1>3. i = Len(H) BY <1>1, <1>2, LastLaid
<1>4. Narrowed(i) BY <1>1 DEF OverIpv4, OverIpv6
<1>5. i \in 2 .. Len(H) /\ at = H[i].at /\ i \in Nat BY <1>4 DEF Narrowed
<1>6. Transported(i) BY <1>1, <1>3, <1>5 DEF Transported
<1>7. Here(H[i].kind) = {H[i]} BY <1>2, <1>5, HereLaid
<1>8. FieldsSound(frame, i) /\ Fields(H[i].kind, H[i]) BY <1>2, <1>5, FieldsLaid DEF LaidOut
<1>9. CASE OverIpv4(i)
  <2>1. H[i - 1].kind = "ipv4" /\ pkt.network = "ipv4"
        /\ \A j \in 1 .. i - 2 : H[j].kind \in {"eth", "vlan"}
        /\ (config.verify_checksum => H[i - 1].sum.ok)
    BY <1>9 DEF OverIpv4
  <2>2. H[i].kind # "icmpv6"
    <3>1. Stacked(H[i - 1], H[i]) BY <1>2, <1>5 DEF LaidOut
    <3> QED BY <2>1, <3>1 DEF Stacked, OnTop
  <2>3. H[i].kind # "icmp" => PseudoHeader = H[i].sum.pseudo /\ PseudoHeader.length = size
    BY <1>6, <1>9, PseudoIpv4
  <2>4. ASSUME config.verify_checksum, NEW j \in 2 .. i - 1, H[j].kind \in {"ipv4"} \cup Transports
        PROVE  SumHolds(frame, j)
    <3>1. j = i - 1 \/ j \in 1 .. i - 2 BY <1>5
    <3>2. j # i - 1 => H[j].kind \in {"eth", "vlan"} BY <2>1, <3>1
    <3>3. j = i - 1 BY <2>4, <3>2 DEF Transports
    <3> QED BY <2>1, <2>4, <3>3 DEF SumHolds
  <2> QED BY <1>1, <1>4, <1>6, <1>7, <1>8, <2>1, <2>2, <2>3, <2>4
<1>10. CASE ~OverIpv4(i)
  <2>1. PICK b \in 1 .. Len(H) : OverIpv6(b, i) BY <1>1, <1>10
  <2>2. /\ b \in 2 .. i - 1 /\ H[b].kind = "ipv6" /\ pkt.network = "ipv6"
        /\ \A j \in 1 .. b - 1 : H[j].kind \in {"eth", "vlan"}
        /\ \A j \in b + 1 .. i - 1 : H[j].kind = "ext"
    BY <2>1 DEF OverIpv6, PastIpv6
  <2>3. /\ H[i].kind \in {"tcp", "udp", "icmpv6"} /\ H[i - 1].kind # "ipv4"
        /\ PseudoHeader = H[i].sum.pseudo /\ PseudoHeader.length = size
    BY <1>6, <2>1, PseudoIpv6
  <2>4. ASSUME NEW j \in 2 .. i - 1 PROVE H[j].kind \notin {"ipv4"} \cup Transports
    <3>1. j \in 1 .. b - 1 \/ j = b \/ j \in b + 1 .. i - 1 BY <1>5, <2>2
    <3>2. H[j].kind \in {"eth", "vlan", "ipv6", "ext"} BY <2>2, <3>1
    <3> QED BY <3>2 DEF Transports
  <2> QED BY <1>1, <1>4, <1>6, <1>7, <1>8, <2>2, <2>3, <2>4
<1> QED BY <1>9, <1>10

(* The transport header of a sound frame, with the checksum that is left.  *)
Sums(i, bad) ==
    /\ bad <=> config.verify_checksum /\ ~SumHolds(frame, i)
    /\ config.verify_checksum =>
          \A j \in 2 .. i - 1 : frame.hdrs[j].kind \in {"ipv4"} \cup Transports =>
             SumHolds(frame, j)

(* What its parse leaves.                                                  *)
ParsesLayer4(i, steps, eat, keep, post, bad) ==
    /\ Transported(i) /\ Narrowed(i) /\ pkt.transport = frame.hdrs[i].kind /\ Sums(i, bad)
    /\ eat = Size(frame, i) /\ (post => keep = frame.end - (at + eat))
    /\ ParserSafe(steps, size, post) /\ (Captured => Judges(steps, bad))

(* Behind it is the payload.                                               *)
LEMMA Layer4Walks ==
    ASSUME PInv, Sound, NEW i, NEW steps, NEW eat, NEW keep, NEW post, NEW bad,
           ParsesLayer4(i, steps, eat, keep, post, bad), Layer4(steps, eat, keep)
    PROVE  WInv'
<1> DEFINE H == frame.hdrs
           v == [at |-> at + eat, size |-> keep]
           q == [pkt EXCEPT !.payload = v]
<1>1. /\ i \in 2 .. Len(H) /\ i = Len(H) /\ H[i].kind \in Transports /\ Captured /\ at = H[i].at
      /\ Narrowed(i) /\ pkt.transport = H[i].kind /\ Sums(i, bad) /\ eat = Size(frame, i)
      /\ ParserSafe(steps, size, post) /\ (Captured => Judges(steps, bad))
      /\ (post => keep = frame.end - (at + eat))
  BY DEF ParsesLayer4, Transported, Narrowed
<1>2. Parse(steps, eat, keep, q, next, "done") BY DEF Layer4
<1>3. q.transport = pkt.transport /\ q.payload = v
  <2>1. pkt \in Packets BY DEF PInv, Kept
  <2> HIDE DEF v
  <2> QED BY <2>1 DEF Packets, Records
<1> HIDE DEF q
<1>4. Judged(eat, keep, q, next, "done", post, bad) BY <1>1, <1>2, ParseJudged
<1>5. config' = config /\ frame' = frame BY <1>4 DEF Judged
<1>6. CASE Refused(bad)
  <2>1. bad => config.verify_checksum /\ ~SumsHold(frame) BY <1>1, OneFails DEF Sums
  <2> QED BY <1>5, <1>6, <2>1, RefusedRight
<1>7. CASE Moved(eat, keep, q, next, "done") /\ post /\ (Captured => ~bad)
  <2>1. pc' = "done" /\ err' = "None" /\ pkt' = q BY <1>7 DEF Moved
  <2>2. config.verify_checksum => SumsHold(frame)
    <3>1. ASSUME config.verify_checksum, NEW j \in 2 .. Len(H),
                 H[j].kind \in {"ipv4"} \cup Transports
          PROVE  SumHolds(frame, j)
      <4>1. j = i \/ j \in 2 .. i - 1 BY <1>1
      <4> QED BY <1>1, <1>7, <3>1, <4>1 DEF Sums
    <3> QED BY <3>1 DEF SumsHold
  <2>3. q.payload = Payload(frame) BY <1>1, <1>3, <1>7 DEF Payload
  <2>4. H[i].kind # "arp" /\ i \in 1 .. Len(H) BY <1>1 DEF Transports
  <2> QED BY <1>1, <1>3, <1>5, <2>1, <2>2, <2>3, <2>4, AcceptedRight
<1> QED BY <1>4, <1>6, <1>7 DEF Judged

(* TCP.                                                                    *)
LEMMA TcpWalks == ASSUME PInv, Sound, Walk, Tcp PROVE WInv'
<1> DEFINE H == frame.hdrs
<1>1. pc = "layer4" /\ pkt.transport = "tcp" BY DEF Tcp, Parser
<1>2. PICK i \in 1 .. Len(H) :
         /\ Transported(i) /\ Narrowed(i) /\ pkt.transport = H[i].kind
         /\ Here(H[i].kind) = {H[i]} /\ FieldsSound(frame, i) /\ Fields(H[i].kind, H[i])
         /\ pkt.network = "ipv4" <=> H[i - 1].kind = "ipv4"
         /\ pkt.network = "ipv6" <=> H[i - 1].kind # "ipv4"
         /\ H[i].kind # "icmp" => PseudoHeader = H[i].sum.pseudo /\ PseudoHeader.length = size
         /\ config.verify_checksum =>
               \A j \in 2 .. i - 1 : H[j].kind \in {"ipv4"} \cup Transports => SumHolds(frame, j)
  BY <1>1, Layer4Here
<1> DEFINE h    == H[i]
           post == 4 * h.data_offset <= size
<1>3. h.kind = "tcp" /\ Here("tcp") = {h} /\ Fields("tcp", h) BY <1>1, <1>2
<1>4. PICK sum_ok \in Verified(h, PseudoHeader.length, PseudoHeader) :
         Layer4(TcpSteps(h, sum_ok), 4 * h.data_offset, size - 4 * h.data_offset)
  BY <1>3 DEF Tcp
<1> DEFINE bad  == config.verify_checksum /\ ~sum_ok
<1>5. i \in 1 .. Len(H) /\ at = h.at /\ size = frame.end - at BY <1>2 DEF Narrowed
<1>6. /\ h.data_offset >= 5 /\ h.data_offset \in Nat /\ PseudoHeader.length = size
      /\ h.sum.ok \in BOOLEAN /\ h.sum.n = size /\ h.sum.n = PseudoHeader.length
      /\ h.sum.pseudo = PseudoHeader
  BY <1>2, <1>3, <1>5 DEF FieldsSound, Fields, Transports
<1>7. sum_ok = h.sum.ok /\ sum_ok \in BOOLEAN
  <2> HIDE DEF h
  <2> QED BY <1>4, <1>6, VerifiedSound
<1>8. /\ Size(frame, i) = 4 * h.data_offset /\ at \in Nat /\ Size(frame, i) \in Nat /\ frame.end \in Nat
      /\ at + Size(frame, i) <= frame.end /\ size \in Nat
  <2>1. Size(frame, i) = 4 * h.data_offset BY <1>3 DEF Size
  <2>2. frame \in Frames /\ LaidOut(frame) /\ size \in Nat BY DEF PInv, Sound
  <2> QED BY <1>5, <2>1, <2>2, WithinFrame
<1>9. 4 * h.data_offset <= size /\ size - 4 * h.data_offset = frame.end - (at + 4 * h.data_offset)
  <2> DEFINE x == 4 * h.data_offset
  <2>1. x = Size(frame, i) /\ x \in Nat BY <1>8
  <2> HIDE DEF x
  <2>2. x <= size BY <1>5, <1>8, <2>1
  <2>3. (frame.end - at) - x = frame.end - (at + x) BY <1>8, <2>1, TakenOff
  <2> QED BY <1>5, <2>2, <2>3 DEF x
<1>10. ParserSafe(TcpSteps(h, sum_ok), size, post) BY <1>3, <1>7, PInvTyped, PseudoLength, TcpSafe
<1>11. Judges(TcpSteps(h, sum_ok), bad)
  <2> HIDE DEF h
  <2> QED BY <1>3, <1>6, <1>7, <1>8, <1>9, PInvTyped, TcpJudges
<1>12. Sums(i, bad)
  <2>1. SumHolds(frame, i) <=> h.sum.ok BY <1>2, <1>3 DEF SumHolds
  <2>2. bad <=> config.verify_checksum /\ ~SumHolds(frame, i) BY <1>7, <2>1
  <2> HIDE DEF bad
  <2> QED BY <1>2, <2>2 DEF Sums
<1> HIDE DEF post, bad
<1>13. ParsesLayer4(i, TcpSteps(h, sum_ok), 4 * h.data_offset, size - 4 * h.data_offset, post, bad)
  BY <1>2, <1>8, <1>9, <1>10, <1>11, <1>12 DEF ParsesLayer4
<1> QED BY <1>4, <1>13, Layer4Walks

(* UDP.                                                                    *)
LEMMA UdpWalks == ASSUME PInv, Sound, Walk, Udp PROVE WInv'
<1> DEFINE H == frame.hdrs
<1>1. pc = "layer4" /\ pkt.transport = "udp" BY DEF Udp, Parser
<1>2. PICK i \in 1 .. Len(H) :
         /\ Transported(i) /\ Narrowed(i) /\ pkt.transport = H[i].kind
         /\ Here(H[i].kind) = {H[i]} /\ FieldsSound(frame, i) /\ Fields(H[i].kind, H[i])
         /\ pkt.network = "ipv4" <=> H[i - 1].kind = "ipv4"
         /\ pkt.network = "ipv6" <=> H[i - 1].kind # "ipv4"
         /\ H[i].kind # "icmp" => PseudoHeader = H[i].sum.pseudo /\ PseudoHeader.length = size
         /\ config.verify_checksum =>
               \A j \in 2 .. i - 1 : H[j].kind \in {"ipv4"} \cup Transports => SumHolds(frame, j)
  BY <1>1, Layer4Here
<1> DEFINE h    == H[i]
           post == 8 <= h.length /\ h.length <= size
<1>3. h.kind = "udp" /\ Here("udp") = {h} /\ Fields("udp", h) BY <1>1, <1>2
<1>4. PICK sum_ok \in Verified(h, h.length, PseudoHeader) :
         Layer4(UdpSteps(h, sum_ok), 8, h.length - 8)
  BY <1>3 DEF Udp
<1> DEFINE bad  == config.verify_checksum /\ (~h.zero \/ pkt.network = "ipv6") /\ ~sum_ok
<1>5. i \in 1 .. Len(H) /\ at = h.at /\ size = frame.end - at BY <1>2 DEF Narrowed
<1>6. /\ h.length = size /\ h.length \in Nat /\ h.zero \in BOOLEAN
      /\ h.sum.ok \in BOOLEAN /\ h.sum.n = size /\ h.sum.n = h.length /\ h.sum.pseudo = PseudoHeader
  BY <1>2, <1>3, <1>5 DEF FieldsSound, Fields, Transports
<1>7. sum_ok = h.sum.ok /\ sum_ok \in BOOLEAN
  <2> HIDE DEF h
  <2> QED BY <1>4, <1>6, VerifiedSound
<1>8. /\ Size(frame, i) = 8 /\ at \in Nat /\ Size(frame, i) \in Nat /\ frame.end \in Nat
      /\ at + Size(frame, i) <= frame.end /\ size \in Nat
  <2>1. Size(frame, i) = 8 BY <1>3 DEF Size
  <2>2. frame \in Frames /\ LaidOut(frame) /\ size \in Nat BY DEF PInv, Sound
  <2> QED BY <1>5, <2>1, <2>2, WithinFrame
<1>9. 8 <= size /\ h.length - 8 = frame.end - (at + 8)
  <2> DEFINE s == Size(frame, i)
  <2>1. s = 8 /\ at + s <= frame.end /\ at \in Nat /\ frame.end \in Nat BY <1>8
  <2> HIDE DEF s
  <2>2. 8 <= size BY <1>5, <2>1
  <2>3. (frame.end - at) - 8 = frame.end - (at + 8) BY <2>1, TakenOff
  <2> QED BY <1>5, <1>6, <2>2, <2>3
<1>10. ParserSafe(UdpSteps(h, sum_ok), size, post) BY <1>3, <1>7, PInvTyped, UdpSafe
<1>11. Judges(UdpSteps(h, sum_ok), bad)
  <2> HIDE DEF h
  <2> QED BY <1>3, <1>6, <1>7, <1>8, <1>9, PInvTyped, UdpJudges
<1>12. Sums(i, bad)
  <2>1. SumHolds(frame, i) <=> h.sum.ok \/ (h.zero /\ pkt.network # "ipv6") BY <1>2, <1>3 DEF SumHolds
  <2>2. bad <=> config.verify_checksum /\ ~SumHolds(frame, i) BY <1>6, <1>7, <2>1
  <2> HIDE DEF bad
  <2> QED BY <1>2, <2>2 DEF Sums
<1> HIDE DEF post, bad
<1>13. ParsesLayer4(i, UdpSteps(h, sum_ok), 8, h.length - 8, post, bad)
  BY <1>2, <1>8, <1>9, <1>10, <1>11, <1>12 DEF ParsesLayer4
<1> QED BY <1>4, <1>13, Layer4Walks

(* ICMP.                                                                   *)
LEMMA IcmpWalks == ASSUME PInv, Sound, Walk, Icmp PROVE WInv'
<1> DEFINE H == frame.hdrs
<1>1. pc = "layer4" /\ pkt.transport = "icmp" BY DEF Icmp, Parser
<1>2. PICK i \in 1 .. Len(H) :
         /\ Transported(i) /\ Narrowed(i) /\ pkt.transport = H[i].kind
         /\ Here(H[i].kind) = {H[i]} /\ FieldsSound(frame, i) /\ Fields(H[i].kind, H[i])
         /\ pkt.network = "ipv4" <=> H[i - 1].kind = "ipv4"
         /\ pkt.network = "ipv6" <=> H[i - 1].kind # "ipv4"
         /\ H[i].kind # "icmp" => PseudoHeader = H[i].sum.pseudo /\ PseudoHeader.length = size
         /\ config.verify_checksum =>
               \A j \in 2 .. i - 1 : H[j].kind \in {"ipv4"} \cup Transports => SumHolds(frame, j)
  BY <1>1, Layer4Here
<1> DEFINE h    == H[i]
           post == 8 <= size
<1>3. h.kind = "icmp" /\ Here("icmp") = {h} /\ Fields("icmp", h) BY <1>1, <1>2
<1>4. PICK sum_ok \in Verified(h, size, "none") :
         Layer4(IcmpSteps(h, sum_ok), 8, size - 8)
  BY <1>3 DEF Icmp
<1> DEFINE bad  == config.verify_checksum /\ ~sum_ok
<1>5. i \in 1 .. Len(H) /\ at = h.at /\ size = frame.end - at BY <1>2 DEF Narrowed
<1>6. /\ h.code <= IcmpMaxCode(h.type)
      /\ h.sum.ok \in BOOLEAN /\ h.sum.n = size /\ h.sum.n = size /\ h.sum.pseudo = "none"
  BY <1>2, <1>3, <1>5 DEF FieldsSound, Fields, Transports
<1>7. sum_ok = h.sum.ok /\ sum_ok \in BOOLEAN
  <2> HIDE DEF h
  <2> QED BY <1>4, <1>6, VerifiedSound
<1>8. /\ Size(frame, i) = 8 /\ at \in Nat /\ Size(frame, i) \in Nat /\ frame.end \in Nat
      /\ at + Size(frame, i) <= frame.end /\ size \in Nat
  <2>1. Size(frame, i) = 8 BY <1>3 DEF Size
  <2>2. frame \in Frames /\ LaidOut(frame) /\ size \in Nat BY DEF PInv, Sound
  <2> QED BY <1>5, <2>1, <2>2, WithinFrame
<1>9. 8 <= size /\ size - 8 = frame.end - (at + 8)
  <2> DEFINE s == Size(frame, i)
  <2>1. s = 8 /\ at + s <= frame.end /\ at \in Nat /\ frame.end \in Nat BY <1>8
  <2> HIDE DEF s
  <2>2. 8 <= size BY <1>5, <2>1
  <2>3. (frame.end - at) - 8 = frame.end - (at + 8) BY <2>1, TakenOff
  <2> QED BY <1>5, <1>6, <2>2, <2>3
<1>10. ParserSafe(IcmpSteps(h, sum_ok), size, post) BY <1>3, <1>7, PInvTyped, IcmpSafe
<1>11. Judges(IcmpSteps(h, sum_ok), bad)
  <2> HIDE DEF h
  <2> QED BY <1>3, <1>6, <1>7, <1>8, <1>9, PInvTyped, IcmpJudges
<1>12. Sums(i, bad)
  <2>1. SumHolds(frame, i) <=> h.sum.ok BY <1>2, <1>3 DEF SumHolds
  <2>2. bad <=> config.verify_checksum /\ ~SumHolds(frame, i) BY <1>7, <2>1
  <2> HIDE DEF bad
  <2> QED BY <1>2, <2>2 DEF Sums
<1> HIDE DEF post, bad
<1>13. ParsesLayer4(i, IcmpSteps(h, sum_ok), 8, size - 8, post, bad)
  BY <1>2, <1>8, <1>9, <1>10, <1>11, <1>12 DEF ParsesLayer4
<1> QED BY <1>4, <1>13, Layer4Walks

(* ICMPv6.                                                                 *)
LEMMA Icmpv6Walks == ASSUME PInv, Sound, Walk, Icmpv6 PROVE WInv'
<1> DEFINE H == frame.hdrs
<1>1. pc = "layer4" /\ pkt.transport = "icmpv6" BY DEF Icmpv6, Parser
<1>2. PICK i \in 1 .. Len(H) :
         /\ Transported(i) /\ Narrowed(i) /\ pkt.transport = H[i].kind
         /\ Here(H[i].kind) = {H[i]} /\ FieldsSound(frame, i) /\ Fields(H[i].kind, H[i])
         /\ pkt.network = "ipv4" <=> H[i - 1].kind = "ipv4"
         /\ pkt.network = "ipv6" <=> H[i - 1].kind # "ipv4"
         /\ H[i].kind # "icmp" => PseudoHeader = H[i].sum.pseudo /\ PseudoHeader.length = size
         /\ config.verify_checksum =>
               \A j \in 2 .. i - 1 : H[j].kind \in {"ipv4"} \cup Transports => SumHolds(frame, j)
  BY <1>1, Layer4Here
<1> DEFINE h    == H[i]
           post == 8 <= size
<1>3. h.kind = "icmpv6" /\ Here("icmpv6") = {h} /\ Fields("icmpv6", h) BY <1>1, <1>2
<1>4. PICK sum_ok \in Verified(h, PseudoHeader.length, PseudoHeader) :
         Layer4(Icmpv6Steps(h, sum_ok), 8, size - 8)
  BY <1>3 DEF Icmpv6
<1> DEFINE bad  == config.verify_checksum /\ ~sum_ok
<1>5. i \in 1 .. Len(H) /\ at = h.at /\ size = frame.end - at BY <1>2 DEF Narrowed
<1>6. /\ h.code <= Icmpv6MaxCode(h.type) /\ (h.type = "too_big" => h.mtu >= 1280)
      /\ h.mtu \in Nat /\ PseudoHeader.length = size
      /\ h.sum.ok \in BOOLEAN /\ h.sum.n = size /\ h.sum.n = PseudoHeader.length
      /\ h.sum.pseudo = PseudoHeader
  BY <1>2, <1>3, <1>5 DEF FieldsSound, Fields, Transports
<1>7. sum_ok = h.sum.ok /\ sum_ok \in BOOLEAN
  <2> HIDE DEF h
  <2> QED BY <1>4, <1>6, VerifiedSound
<1>8. /\ Size(frame, i) = 8 /\ at \in Nat /\ Size(frame, i) \in Nat /\ frame.end \in Nat
      /\ at + Size(frame, i) <= frame.end /\ size \in Nat
  <2>1. Size(frame, i) = 8 BY <1>3 DEF Size
  <2>2. frame \in Frames /\ LaidOut(frame) /\ size \in Nat BY DEF PInv, Sound
  <2> QED BY <1>5, <2>1, <2>2, WithinFrame
<1>9. 8 <= size /\ size - 8 = frame.end - (at + 8)
  <2> DEFINE s == Size(frame, i)
  <2>1. s = 8 /\ at + s <= frame.end /\ at \in Nat /\ frame.end \in Nat BY <1>8
  <2> HIDE DEF s
  <2>2. 8 <= size BY <1>5, <2>1
  <2>3. (frame.end - at) - 8 = frame.end - (at + 8) BY <2>1, TakenOff
  <2> QED BY <1>5, <1>6, <2>2, <2>3
<1>10. ParserSafe(Icmpv6Steps(h, sum_ok), size, post) BY <1>3, <1>7, PInvTyped, PseudoLength, Icmpv6Safe
<1>11. Judges(Icmpv6Steps(h, sum_ok), bad)
  <2> HIDE DEF h
  <2> QED BY <1>3, <1>6, <1>7, <1>8, <1>9, PInvTyped, Icmpv6Judges
<1>12. Sums(i, bad)
  <2>1. SumHolds(frame, i) <=> h.sum.ok BY <1>2, <1>3 DEF SumHolds
  <2>2. bad <=> config.verify_checksum /\ ~SumHolds(frame, i) BY <1>7, <2>1
  <2> HIDE DEF bad
  <2> QED BY <1>2, <2>2 DEF Sums
<1> HIDE DEF post, bad
<1>13. ParsesLayer4(i, Icmpv6Steps(h, sum_ok), 8, size - 8, post, bad)
  BY <1>2, <1>8, <1>9, <1>10, <1>11, <1>12 DEF ParsesLayer4
<1> QED BY <1>4, <1>13, Layer4Walks

-----------------------------------------------------------------------------
(* Sound frames: one after another                                         *)

(* A sound frame always has a parser.                                      *)
LEMMA AlwaysParsed ==
    ASSUME PInv, Sound, Walk, OtherLink \/ OtherNetwork \/ OtherTransport
    PROVE  FALSE
<1>1. CASE OtherLink BY <1>1 DEF OtherLink, Sound
<1>2. CASE OtherNetwork BY <1>2 DEF OtherNetwork, Walk
<1>3. CASE OtherTransport
  <2>1. pc = "layer4" /\ \A t \in Transports : ~Parser(t) BY <1>3 DEF OtherTransport
  <2>2. PICK i \in 1 .. Len(frame.hdrs) :
           /\ Transported(i) /\ pkt.transport = frame.hdrs[i].kind
           /\ frame.hdrs[i].kind = "icmp" => pkt.network = "ipv4"
           /\ frame.hdrs[i].kind = "icmpv6" => pkt.network = "ipv6"
    BY <2>1, Layer4Here
  <2>3. pkt.transport \in Transports BY <2>2 DEF Transported
  <2>4. Parser(pkt.transport) BY <2>1, <2>2 DEF Parser
  <2> QED BY <2>1, <2>3, <2>4
<1> QED BY <1>1, <1>2, <1>3

(* The next frame is decoded from its first byte, into an empty Packet.    *)
LEMMA NextFrameWalks == ASSUME PInv, NextFrame PROVE WInv'
<1>1. pkt \in Packets BY DEF PInv, Kept
<1>2. pkt' = Reset(pkt) /\ pc' = "layer2" /\ at' = 0 /\ size' = frame'.incl BY DEF NextFrame
<1>3. /\ Reset(pkt).vlan_tags = 0 /\ Reset(pkt).ipv6_ext = <<>>
      /\ Reset(pkt).transport = "none"
  BY <1>1 DEF Reset, Packets, Records
<1>4. Walk' BY <1>2, <1>3 DEF Walk, SoundDecoded, CorruptRefused
<1> QED BY <1>4 DEF WInv

(* The first frame.                                                        *)
LEMMA InitWalks == Init => WInv
<1> SUFFICES ASSUME Init PROVE WInv OBVIOUS
<1>1. pkt = Reset(NoPacket) /\ pc = "layer2" /\ at = 0 /\ size = frame.incl BY DEF Init
<1>2. /\ Reset(NoPacket).vlan_tags = 0 /\ Reset(NoPacket).ipv6_ext = <<>>
      /\ Reset(NoPacket).transport = "none"
  BY FirstPacket DEF Reset, Packets, Records
<1>3. Walk BY <1>1, <1>2 DEF Walk, SoundDecoded, CorruptRefused
<1> QED BY <1>3 DEF WInv

(* Frames that are not sound are walked as their bytes say.                *)
LEMMA NotSound ==
    ASSUME config' = config, frame' = frame, ~Sound
    PROVE  WInv'
BY DEF Sound, WInv

(* Every step keeps the walk.                                              *)
LEMMA NextWalks == PInv /\ WInv /\ [Next]_vars => WInv'
<1> SUFFICES ASSUME PInv, WInv, [Next]_vars PROVE WInv' OBVIOUS
<1>1. CASE NextFrame BY <1>1, NextFrameWalks
<1>2. CASE UNCHANGED vars
  <2>1. /\ config' = config /\ frame' = frame /\ pc' = pc /\ at' = at /\ size' = size
        /\ pkt' = pkt /\ next' = next /\ err' = err
    BY <1>2 DEF vars
  <2>2. Walk' = Walk
    BY <2>1 DEF Walk, Linked, OverIpv4, OverIpv6, PastIpv6, Narrowed, Noted, Captured,
                SoundDecoded, CorruptRefused
  <2> QED BY <2>1, <2>2 DEF WInv
<1>3. CASE Next /\ ~NextFrame
  <2>1. config' = config /\ frame' = frame
    BY <1>3 DEF Next, Ethernet, Layer2, OtherLink, Vlan, Ipv4, Ipv6, Layer3, Ext, Arp,
                OtherNetwork, Tcp, Udp, Icmp, Icmpv6, Layer4, OtherTransport, Parse, Unsupported
  <2>2. CASE ~Sound BY <2>1, <2>2, NotSound
  <2>3. CASE Sound
    <3>1. Walk BY <2>3 DEF Sound, WInv
    <3> QED BY <1>3, <2>3, <3>1, EthernetWalks, VlanWalks, Ipv4Walks, Ipv6Walks, ExtWalks, ArpWalks,
               TcpWalks, UdpWalks, IcmpWalks, Icmpv6Walks, AlwaysParsed DEF Next
  <2> QED BY <2>2, <2>3
<1> QED BY <1>1, <1>2, <1>3

(* The walk ends as the properties say.                                    *)
LEMMA WInvImplies == WInv => SoundDecoded /\ CorruptRefused
BY DEF WInv, Walk, SoundDecoded, CorruptRefused

-----------------------------------------------------------------------------
(* The theorems                                                            *)

(* The span never leaves the captured bytes, and the chains of VLAN tags   *)
(* and extension headers never pass MAX_TAGS and MAX_HEADERS, over any     *)
(* number of frames decoded into one Packet.                               *)
THEOREM TypeCorrect == Spec => []TypeOK
<1>1. PInv => TypeOK BY PInvImplies
<1> QED BY InitPInv, NextPInv, <1>1, PTL DEF Spec

(* Every read of every parse function lies in the span the function was    *)
(* given, whatever lengths, offsets and counts the bytes state.            *)
THEOREM ReadsAreInBounds == Spec => []ReadsInBounds
<1>1. PInv => ReadsInBounds BY PInvImplies
<1> QED BY InitPInv, NextPInv, <1>1, PTL DEF Spec

(* decodePacket accepts a frame only with a network and transport that     *)
(* addPacket can make a flow key from, or as ARP.                          *)
THEOREM AcceptedCarriesKey == Spec => []CarriesKey
<1>1. PInv => CarriesKey BY PInvImplies
<1> QED BY InitPInv, NextPInv, <1>1, PTL DEF Spec

(* Whatever frames came before it, a sound frame that was captured whole   *)
(* is decoded to its transport and exactly its payload, through any tags   *)
(* and extension headers the limits allow; one that was not is refused.    *)
THEOREM SoundIsDecoded == Spec => []SoundDecoded
<1>1. PInv /\ WInv => SoundDecoded BY WInvImplies
<1> QED BY InitPInv, NextPInv, InitWalks, NextWalks, <1>1, PTL DEF Spec

(* A wrong checksum in a frame that is sound otherwise is found, when      *)
(* checksums are verified, and never stated when they are not.             *)
THEOREM CorruptIsRefused == Spec => []CorruptRefused
<1>1. PInv /\ WInv => CorruptRefused BY WInvImplies
<1> QED BY InitPInv, NextPInv, InitWalks, NextWalks, <1>1, PTL DEF Spec

=============================================================================
