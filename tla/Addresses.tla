------------------------------ MODULE Addresses ------------------------------
(***************************************************************************)
(* Addresses and numbers as text: ip::v6::addressFromString and printIp,   *)
(* ip::v4::addressFromString and printIp, util::parseUint.                 *)
(*                                                                         *)
(* A text is a sequence of characters and a character a number: a digit is *)
(* its value (0..15, upper and lower case alike), the rest are below.  The *)
(* program's GROUPS is 8, its DIGITS 4 and its OCTETS 4.                   *)
(***************************************************************************)
EXTENDS Integers, SequencesExt

CONSTANTS
    GROUPS,     \* groups of an IPv6 address
    DIGITS,     \* hexadecimal digits of a group
    OCTETS      \* octets of an IPv4 address

ASSUME AddressAssumption == {GROUPS, DIGITS, OCTETS} \subseteq Nat \ {0} /\ OCTETS <= GROUPS

COLON == 100
DOT   == 101
JUNK  == 102

Decimals == 0 .. 9
Hexes    == 0 .. 15

(* No address.                                                             *)
Refused == <<>>

Zeros(n) == [k \in 1 .. n |-> 0]

(* The number the digits of t stand for.                                   *)
NumberOf(t, radix) == FoldLeft(LAMBDA v, d : v * radix + d, 0, t)

Join(parts, sep) ==
    FlattenSeq([k \in 1 .. Len(parts) |-> IF k = 1 THEN parts[k] ELSE <<sep>> \o parts[k]])

-----------------------------------------------------------------------------
(* IPv6                                                                    *)

(* Writing the groups out, the gap filled with zeros; gap is -1 or the     *)
(* number of groups in front of the "::".                                  *)
Assigned(groups, gap) ==
    LET count == Len(groups)
    IN  IF gap = -1 THEN IF count = GROUPS THEN groups ELSE Refused
        ELSE IF count >= GROUPS THEN Refused
        ELSE SubSeq(groups, 1, gap) \o Zeros(GROUPS - count) \o SubSeq(groups, gap + 1, count)

(* The first position at or behind i that holds no hexadecimal digit.      *)
DigitsEnd(text, i) ==
    CHOOSE e \in i .. Len(text) + 1 :
       /\ \A k \in i .. e - 1 : text[k] \in Hexes
       /\ e <= Len(text) => text[e] \notin Hexes

(* The loop over the groups: from text[s.i] on, with s.groups in front of  *)
(* it and the "::" at s.gap.                                               *)
GroupsFrom(text, start) ==
    LET scan[s \in [i : Nat, groups : Seq(Nat), gap : Int]] ==
          LET e    == DigitsEnd(text, s.i)
              more == Append(s.groups, NumberOf(SubSeq(text, s.i, e - 1), 16))
          IN  IF s.i > Len(text) THEN Assigned(s.groups, s.gap)
              ELSE IF e - s.i \notin 1 .. DIGITS \/ Len(s.groups) >= GROUPS THEN Refused
              ELSE IF e > Len(text) THEN Assigned(more, s.gap)
              ELSE IF text[e] # COLON \/ e = Len(text) THEN Refused
              ELSE IF text[e + 1] # COLON
                   THEN scan[[i |-> e + 1, groups |-> more, gap |-> s.gap]]
              ELSE IF s.gap # -1 THEN Refused
              ELSE scan[[i |-> e + 2, groups |-> more, gap |-> Len(more)]]
    IN  scan[start]

AddressFromString6(text) ==
    IF IsPrefix(<<COLON, COLON>>, text)
    THEN GroupsFrom(text, [i |-> 3, groups |-> <<>>, gap |-> 0])
    ELSE IF IsPrefix(<<COLON>>, text) THEN Refused
    ELSE GroupsFrom(text, [i |-> 1, groups |-> <<>>, gap |-> -1])

ZeroRun(ip, s, n) == \A k \in s .. s + n - 1 : ip[k] = 0

(* The first of the longest runs of zero groups, as start and length.      *)
BestRun(ip) ==
    LET runs == {r \in (1 .. GROUPS) \X (0 .. GROUPS) :
                   r[1] + r[2] - 1 <= GROUPS /\ ZeroRun(ip, r[1], r[2])}
    IN  CHOOSE r \in runs :
          \A q \in runs : r[2] > q[2] \/ (r[2] = q[2] /\ r[1] <= q[1])

(* printIp writes every digit of a group, and "::" for the longest run of  *)
(* two zero groups or more.                                                *)
PrintIp6(ip) ==
    LET Hex(g) == [d \in 1 .. DIGITS |-> (g \div 16 ^ (DIGITS - d)) % 16]
        Part(a, b) == Join([k \in 1 .. b - a + 1 |-> Hex(ip[a + k - 1])], COLON)
        run == BestRun(ip)
    IN  IF run[2] < 2 THEN Part(1, GROUPS)
        ELSE Part(1, run[1] - 1) \o <<COLON, COLON>> \o Part(run[1] + run[2], GROUPS)

-----------------------------------------------------------------------------
(* IPv4 and numbers                                                        *)

(* v4's loop; the end of the text ends an octet like a dot.                *)
AddressFromString4(text) ==
    LET n == Len(text)
        scan[i \in Nat, out \in Seq(Nat), value \in Nat, digits \in Nat] ==
          IF i <= n /\ text[i] \in Decimals
          THEN IF value * 10 + text[i] > 255 \/ digits = 3 THEN Refused
               ELSE scan[i + 1, out, value * 10 + text[i], digits + 1]
          ELSE IF \/ i <= n /\ text[i] # DOT
                  \/ digits = 0 \/ Len(out) >= OCTETS THEN Refused
          ELSE IF i <= n THEN scan[i + 1, Append(out, value), 0, 0]
          ELSE IF Len(out) + 1 = OCTETS THEN Append(out, value) ELSE Refused
    IN  scan[1, <<>>, 0, 0]

PrintIp4(ip) ==
    LET Dec(v) == IF v < 10 THEN <<v>>
                  ELSE IF v < 100 THEN <<v \div 10, v % 10>>
                  ELSE <<v \div 100, (v \div 10) % 10, v % 10>>
    IN  Join([k \in 1 .. OCTETS |-> Dec(ip[k])], DOT)

(* Fault: the digit is not compared with what is left up to max.           *)
ParseUintLate(text, max) ==
    LET scan[i \in Nat, value \in Nat] ==
          IF i > Len(text) THEN value
          ELSE IF text[i] \notin Decimals \/ value > max \div 10 THEN -1
          ELSE scan[i + 1, value * 10 + text[i]]
    IN  IF text = <<>> THEN -1 ELSE scan[1, 0]

(* parseUint: the number, or -1.  value * 10 is compared with max - digit  *)
(* so that neither side overflows.                                         *)
ParseUint(text, max) ==
    LET scan[i \in Nat, value \in Nat] ==
          IF i > Len(text) THEN value
          ELSE IF \/ text[i] \notin Decimals
                  \/ value > max \div 10 \/ value * 10 > max - text[i] THEN -1
          ELSE scan[i + 1, value * 10 + text[i]]
    IN  IF text = <<>> THEN -1 ELSE scan[1, 0]

-----------------------------------------------------------------------------
(* Reference: what a text means.                                           *)

(* The pieces of t between the separators.                                 *)
Pieces(t, sep) ==
    LET seps == SelectSeq([k \in 1 .. Len(t) |-> k], LAMBDA k : t[k] = sep)
        cut  == <<0>> \o seps \o <<Len(t) + 1>>
    IN  [k \in 1 .. Len(cut) - 1 |-> SubSeq(t, cut[k] + 1, cut[k + 1] - 1)]

Numerals(parts, max, digits) ==
    \A k \in DOMAIN parts : Len(parts[k]) \in 1 .. max /\ ToSet(parts[k]) \subseteq digits

Numbers(parts, radix) == [k \in DOMAIN parts |-> NumberOf(parts[k], radix)]

(* RFC 4291, 2.2: GROUPS groups, or fewer with one "::" in place of zeros. *)
Meaning6(text) ==
    LET Groups(t) == IF t = <<>> THEN <<>> ELSE Pieces(t, COLON)
        Sound(t)  == Numerals(Groups(t), DIGITS, Hexes)
        whole == IF Sound(text) /\ Len(Groups(text)) = GROUPS
                 THEN {Numbers(Groups(text), 16)} ELSE {}
        Left(p)  == SubSeq(text, 1, p - 1)
        Right(p) == SubSeq(text, p + 2, Len(text))
        Given(p) == Len(Groups(Left(p))) + Len(Groups(Right(p)))
        gaps  == {p \in 1 .. Len(text) - 1 : /\ text[p] = COLON /\ text[p + 1] = COLON
                                             /\ Sound(Left(p)) /\ Sound(Right(p))
                                             /\ Given(p) < GROUPS}
    IN  whole \cup {Numbers(Groups(Left(p)), 16) \o Zeros(GROUPS - Given(p))
                      \o Numbers(Groups(Right(p)), 16) : p \in gaps}

Meaning4(text) ==
    LET parts == Pieces(text, DOT)
        ip    == Numbers(parts, 10)
    IN  IF /\ Len(parts) = OCTETS /\ Numerals(parts, 3, Decimals)
           /\ \A k \in DOMAIN ip : ip[k] <= 255
        THEN {ip} ELSE {}

(* The numbers up to max that the text may stand for: one or none.         *)
MeaningOfNumber(text, max) ==
    IF Numerals(<<text>>, Len(text), Decimals) /\ NumberOf(text, 10) <= max
    THEN {NumberOf(text, 10)} ELSE {}

=============================================================================
