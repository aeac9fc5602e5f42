----------------------- MODULE TcpStreamExact_proofs -----------------------
(***************************************************************************)
(* What the reassembler makes of the sender's stream, for every sequence   *)
(* space, limit, stream length, reach and set of peer flags: the buffered  *)
(* segments are in order and ahead of next_seq, what can be read is the    *)
(* stream without a byte lost, repeated or moved, and a FIN waits for the  *)
(* bytes before it.                                                        *)
(***************************************************************************)
EXTENDS TcpStream_proofs

-----------------------------------------------------------------------------
(* Sequence numbers modulo 2^32                                            *)

(* The sequence number of the sender's byte o, when its SYN has number i.  *)
Num(i, o) == U32(i + 1 + o)

(* Division with remainder.                                                *)
LEMMA ModDivide == \A x \in Int : /\ x \div SeqSpace \in Int
                                  /\ x = SeqSpace * (x \div SeqSpace) + U32(x)
BY SeqSpaceAssumption DEF U32

(* A multiple of 2^32 that is less than 2^32 away from 0 is 0.             *)
LEMMA NoMultiple == \A d \in Int : SeqSpace * d < SeqSpace /\ -SeqSpace < SeqSpace * d => d = 0
BY SeqSpaceAssumption

(* The remainder is the only sequence number a multiple of 2^32 away.      *)
LEMMA ModUnique ==
    ASSUME NEW x \in Int, NEW k \in Int, NEW r \in SeqNumbers, x = SeqSpace * k + r
    PROVE  U32(x) = r
<1> DEFINE q == x \div SeqSpace
<1>1. q \in Int /\ x = SeqSpace * q + U32(x) BY ModDivide
<1>2. U32(x) \in SeqNumbers BY U32Type
<1> HIDE DEF q
<1>3. SeqSpace * (k - q) = U32(x) - r 
  BY <1>1, <1>2, SeqSpaceAssumption DEF SeqNumbers
<1>4. U32(x) - r < SeqSpace /\ - SeqSpace < U32(x) - r
  BY <1>2, SeqSpaceAssumption DEF SeqNumbers
<1>5. k - q = 0 BY <1>1, <1>3, <1>4, NoMultiple
<1> QED BY <1>1, <1>2, <1>3, <1>5, SeqSpaceAssumption DEF SeqNumbers

(* Reducing modulo 2^32 early or late is the same.                         *)
LEMMA ModShift == \A x, y \in Int : U32(U32(x) + y) = U32(x + y)
<1> TAKE x, y \in Int
<1> DEFINE p == x \div SeqSpace
           q == (x + y) \div SeqSpace
<1>1. p \in Int /\ x = SeqSpace * p + U32(x) BY ModDivide
<1>2. q \in Int /\ x + y = SeqSpace * q + U32(x + y) BY ModDivide
<1>3. U32(x) \in SeqNumbers /\ U32(x + y) \in SeqNumbers BY U32Type
<1>4. U32(x) \in Int /\ U32(x + y) \in Int BY <1>3, SeqSpaceAssumption DEF SeqNumbers
<1> HIDE DEF p, q
<1>5. U32(x) + y = SeqSpace * (q - p) + U32(x + y)
  BY <1>1, <1>2, <1>4, SeqSpaceAssumption
<1> QED BY <1>1, <1>2, <1>3, <1>4, <1>5, ModUnique

(* The same for a difference of two reduced numbers.                       *)
LEMMA ModMinus == \A x, y \in Int : U32(U32(x) - U32(y)) = U32(x - y)
<1> TAKE x, y \in Int
<1> DEFINE p == x \div SeqSpace
           q == y \div SeqSpace
           s == (x - y) \div SeqSpace
<1>1. p \in Int /\ x = SeqSpace * p + U32(x) BY ModDivide
<1>2. q \in Int /\ y = SeqSpace * q + U32(y) BY ModDivide
<1>3. s \in Int /\ x - y = SeqSpace * s + U32(x - y) BY ModDivide
<1>4. U32(x) \in Int /\ U32(y) \in Int /\ U32(x - y) \in Int /\ U32(x - y) \in SeqNumbers
  BY U32Type, SeqSpaceAssumption DEF SeqNumbers
<1> HIDE DEF p, q, s
<1>5. U32(x) - U32(y) = SeqSpace * (s - p + q) + U32(x - y)
  BY <1>1, <1>2, <1>3, <1>4, SeqSpaceAssumption
<1> QED BY <1>1, <1>2, <1>3, <1>4, <1>5, ModUnique

(* Advancing a sequence number advances the offset it stands for.          *)
LEMMA NumShift ==
    ASSUME NEW i \in Int, NEW o \in Int, NEW n \in Int
    PROVE  U32(Num(i, o) + n) = Num(i, o + n)
<1>1. i + 1 + o \in Int /\ (i + 1 + o) + n = i + 1 + (o + n) OBVIOUS
<1> QED BY <1>1, ModShift DEF Num

(* The unsigned distance of two bytes less than 2^32 apart.                *)
LEMMA NumDistance ==
    ASSUME NEW i \in Int, NEW a \in Int, NEW b \in Int, -SeqSpace <= a - b, a - b < SeqSpace
    PROVE  U32(Num(i, a) - Num(i, b)) = IF a >= b THEN a - b ELSE a - b + SeqSpace
<1>1. i + 1 + a \in Int /\ i + 1 + b \in Int /\ (i + 1 + a) - (i + 1 + b) = a - b OBVIOUS
<1>2. U32(Num(i, a) - Num(i, b)) = U32(a - b) BY <1>1, ModMinus DEF Num
<1>3. CASE a >= b
  <2>1. a - b \in SeqNumbers /\ a - b = SeqSpace * 0 + (a - b)
    BY <1>3, SeqSpaceAssumption DEF SeqNumbers
  <2> QED BY <1>2, <1>3, <2>1, ModUnique
<1>4. CASE ~(a >= b)
  <2>1. a - b + SeqSpace \in SeqNumbers /\ a - b = SeqSpace * (-1) + (a - b + SeqSpace)
    BY <1>4, SeqSpaceAssumption DEF SeqNumbers
  <2> QED BY <1>2, <1>4, <2>1, ModUnique
<1> QED BY <1>3, <1>4

(* The signed distance of two bytes less than 2^31 apart is that of their  *)
(* offsets: what every comparison of sequence numbers in the code rests on.*)
LEMMA NumDiff ==
    ASSUME NEW i \in Int, NEW a \in Int, NEW b \in Int,
           a - b < SeqSpace \div 2, b - a <= SeqSpace \div 2
    PROVE  SeqDiff(Num(i, a), Num(i, b)) = a - b
<1>1. SeqSpace \in Nat /\ SeqSpace = 2 * (SeqSpace \div 2) /\ SeqSpace > 1 BY SeqSpaceAssumption
<1>2. -SeqSpace <= a - b /\ a - b < SeqSpace BY <1>1
<1>3. U32(Num(i, a) - Num(i, b)) = IF a >= b THEN a - b ELSE a - b + SeqSpace
  BY <1>2, NumDistance
<1> QED BY <1>1, <1>3 DEF SeqDiff

-----------------------------------------------------------------------------
(* Slices of the stream                                                    *)

(* The end of a slice is a slice.                                          *)
LEMMA SliceRest ==
    ASSUME NEW o \in Nat, NEW n \in Nat, NEW s \in 0 .. n
    PROVE  SubSeq(Slice(o, n), s + 1, n) = Slice(o + s, n - s)
<1> DEFINE p == SubSeq(Slice(o, n), s + 1, n)
           q == Slice(o + s, n - s)
<1>1. \A k \in s + 1 .. n : Slice(o, n)[k] \in Nat /\ Slice(o, n)[k] = o + k - 1
  BY DEF Slice
<1>0. s + 1 \in Int /\ n - (s + 1) + 1 = n - s /\ o + s \in Nat /\ n - s \in Nat OBVIOUS
<1>2. /\ p \in Seq(Nat) /\ Len(p) = n - s
      /\ \A k \in 1 .. n - s : p[k] = Slice(o, n)[s + 1 + k - 1]
  BY <1>0, <1>1, SubSeqProperties
<1>3. q \in Seq(Nat) /\ Len(q) = n - s BY <1>0, SliceType
<1>4. ASSUME NEW k \in 1 .. n - s PROVE p[k] = q[k]
  <2>1. s + 1 + k - 1 = s + k /\ s + k \in s + 1 .. n OBVIOUS
  <2>2. p[k] = o + (s + k) - 1
    <3> HIDE DEF p
    <3> QED BY <2>1, <1>1, <1>2
  <2>3. q[k] = (o + s) + k - 1 BY DEF Slice
  <2> HIDE DEF p, q
  <2> QED BY <2>2, <2>3
<1> HIDE DEF p, q
<1>5. p = q BY <1>2, <1>3, <1>4, SeqEqual
<1> QED BY <1>5 DEF p, q

(* Two adjacent slices are one.                                            *)
LEMMA SliceJoin ==
    ASSUME NEW o \in Nat, NEW n \in Nat, NEW m \in Nat
    PROVE  Slice(o, n) \o Slice(o + n, m) = Slice(o, n + m)
<1> DEFINE a == Slice(o, n)
           b == Slice(o + n, m)
           c == Slice(o, n + m)
<1>1. a \in Seq(Nat) /\ Len(a) = n /\ \A k \in 1 .. n : a[k] = o + k - 1
  BY SliceType DEF Slice
<1>2. b \in Seq(Nat) /\ Len(b) = m /\ \A k \in 1 .. m : b[k] = o + n + k - 1
  BY SliceType DEF Slice
<1>3. c \in Seq(Nat) /\ Len(c) = n + m /\ \A k \in 1 .. n + m : c[k] = o + k - 1
  BY SliceType DEF Slice
<1> HIDE DEF a, b, c
<1>4. /\ a \o b \in Seq(Nat) /\ Len(a \o b) = n + m
      /\ \A k \in 1 .. n + m : (a \o b)[k] = IF k <= n THEN a[k] ELSE b[k - n]
  BY <1>1, <1>2, ConcatProperties
<1>5. ASSUME NEW k \in 1 .. n + m PROVE (a \o b)[k] = c[k]
  <2>1. CASE k <= n BY <2>1, <1>1, <1>3, <1>4
  <2>2. CASE ~(k <= n)
    <3>1. k - n \in 1 .. m BY <2>2
    <3>2. b[k - n] = o + n + (k - n) - 1 BY <3>1, <1>2
    <3>3. (a \o b)[k] = b[k - n] /\ c[k] = o + k - 1 BY <2>2, <1>3, <1>4
    <3> QED BY <3>2, <3>3
  <2> QED BY <2>1, <2>2
<1>6. a \o b = c BY <1>3, <1>4, <1>5, SeqEqual
<1> QED BY <1>6 DEF a, b, c

(* A slice of no bytes.                                                    *)
LEMMA SliceNone == \A o \in Nat : Slice(o, 0) = <<>>
BY DEF Slice

(* What follows position r of a sequence that gets longer.                 *)
LEMMA RestOfConcat ==
    ASSUME NEW a \in Seq(Nat), NEW b \in Seq(Nat), NEW r \in Nat, r <= Len(a)
    PROVE  SubSeq(a \o b, r + 1, Len(a \o b)) = SubSeq(a, r + 1, Len(a)) \o b
<1> DEFINE c == a \o b
           p == SubSeq(c, r + 1, Len(c))
           f == SubSeq(a, r + 1, Len(a))
<1>1. Len(a) \in Nat /\ Len(b) \in Nat /\ \A k \in 1 .. Len(a) : a[k] \in Nat
  BY LenProperties
<1>2. /\ c \in Seq(Nat) /\ Len(c) = Len(a) + Len(b)
      /\ \A k \in 1 .. Len(a) + Len(b) : c[k] = IF k <= Len(a) THEN a[k] ELSE b[k - Len(a)]
  BY ConcatProperties
<1>3. /\ f \in Seq(Nat) /\ Len(f) = Len(a) - r
      /\ \A k \in 1 .. Len(a) - r : f[k] = a[r + k]
  BY <1>1, SubSeqProperties
<1> HIDE DEF c, f
<1>4. \A k \in 1 .. Len(c) : c[k] \in Nat BY <1>2, LenProperties
<1>5. /\ p \in Seq(Nat) /\ Len(p) = Len(c) - r
      /\ \A k \in 1 .. Len(c) - r : p[k] = c[r + k]
  BY <1>1, <1>2, <1>4, SubSeqProperties
<1> HIDE DEF p
<1>6. /\ f \o b \in Seq(Nat) /\ Len(f \o b) = Len(f) + Len(b)
      /\ \A k \in 1 .. Len(f) + Len(b) : (f \o b)[k] = IF k <= Len(f) THEN f[k] ELSE b[k - Len(f)]
  BY <1>3, ConcatProperties
<1>7. ASSUME NEW k \in 1 .. Len(c) - r PROVE p[k] = (f \o b)[k]
  <2>1. r + k \in 1 .. Len(a) + Len(b) /\ k \in 1 .. Len(f) + Len(b)
    BY <1>1, <1>2, <1>3
  <2>2. p[k] = IF r + k <= Len(a) THEN a[r + k] ELSE b[(r + k) - Len(a)]
    BY <1>2, <1>5, <2>1
  <2>3. (f \o b)[k] = IF k <= Len(f) THEN f[k] ELSE b[k - Len(f)] BY <1>6, <2>1
  <2>4. (r + k) - Len(a) = k - Len(f) /\ (r + k <= Len(a) <=> k <= Len(f))
    BY <1>1, <1>3
  <2>5. CASE k <= Len(f)
    <3>1. k \in 1 .. Len(a) - r BY <2>5, <1>1, <1>3
    <3> QED BY <2>2, <2>3, <2>4, <2>5, <3>1, <1>3
  <2>6. CASE ~(k <= Len(f)) BY <2>2, <2>3, <2>4, <2>6
  <2> QED BY <2>5, <2>6
<1>8. Len(p) = Len(f \o b) BY <1>1, <1>2, <1>3, <1>5, <1>6
<1>9. p = f \o b BY <1>5, <1>6, <1>7, <1>8, SeqEqual
<1> QED BY <1>9 DEF c, p, f

-----------------------------------------------------------------------------
(* The out-of-order buffer as a chain of stretches of the stream           *)

(* Bytes o .. o+n-1.                                                       *)
Stretch(o, n) == o .. o + n - 1

(* m stretches, the k-th of size[k] bytes from offs[k] on, lie in the      *)
(* stream in strictly increasing order.                                    *)
Ascending(m, offs, size) ==
    /\ offs \in [1 .. m -> 0 .. StreamLen] /\ size \in [1 .. m -> 0 .. MaxSegment]
    /\ \A k \in 1 .. m : offs[k] + size[k] <= StreamLen
    /\ \A j, k \in 1 .. m : j < k => offs[j] < offs[k]

(* Those past the first lo are near the next expected byte no, and         *)
(* strictly ahead of it unless a drain is on its way to them.              *)
Ahead(m, offs, lo, no, draining) ==
    \A k \in lo + 1 .. m : /\ offs[k] - no <= Reach
                           /\ IF draining THEN no - offs[k] <= Reach ELSE no < offs[k]

(* They are captured, and every captured byte from no on is in one of      *)
(* those past the first lo.                                                *)
Holds(m, offs, size, lo, no, cap) ==
    /\ cap \subseteq Nat
    /\ \A k \in 1 .. m : Stretch(offs[k], size[k]) \subseteq cap
    /\ \A b \in cap : b >= no => \E k \in lo + 1 .. m : b \in Stretch(offs[k], size[k])

(* The m stretches of the out-of-order buffer of a stream whose next       *)
(* expected byte is no.                                                    *)
Chain(m, offs, size, lo, no, cap, draining) ==
    /\ Ascending(m, offs, size)
    /\ Ahead(m, offs, lo, no, draining)
    /\ Holds(m, offs, size, lo, no, cap)

(* new is f with e put in at position i of 1 .. m.                         *)
PutIn(f, m, i, e) == [k \in 1 .. m + 1 |-> IF k < i THEN f[k] ELSE IF k = i THEN e ELSE f[k - 1]]

(* A stretch ahead of no joins the chain at its place.                     *)
LEMMA ChainInsert ==
    ASSUME NEW m \in Nat, NEW offs, NEW size, NEW no \in Nat, NEW cap,
           Chain(m, offs, size, 0, no, cap, FALSE),
           NEW it \in 1 .. m + 1, NEW off \in Nat, NEW n \in 0 .. MaxSegment,
           off + n <= StreamLen, no < off, off - no <= Reach,
           \A k \in 1 .. it - 1 : offs[k] < off,
           \A k \in it .. m : off < offs[k]
    PROVE  Chain(m + 1, PutIn(offs, m, it, off), PutIn(size, m, it, n), 0, no,
                 cap \cup Stretch(off, n), FALSE)
<1> DEFINE o2 == PutIn(offs, m, it, off)
           s2 == PutIn(size, m, it, n)
           cap2 == cap \cup Stretch(off, n)
<1>0. StreamLen \in Nat /\ MaxSegment \in Nat /\ Reach \in Nat BY StreamAssumption
<1>1. /\ offs \in [1 .. m -> 0 .. StreamLen] /\ size \in [1 .. m -> 0 .. MaxSegment]
      /\ \A k \in 1 .. m : offs[k] + size[k] <= StreamLen
      /\ \A j, k \in 1 .. m : j < k => offs[j] < offs[k]
  BY DEF Chain, Ascending
<1>2. \A k \in 1 .. m : offs[k] - no <= Reach /\ no < offs[k] BY DEF Chain, Ahead
<1>3. /\ cap \subseteq Nat
      /\ \A k \in 1 .. m : Stretch(offs[k], size[k]) \subseteq cap
      /\ \A b \in cap : b >= no => \E k \in 1 .. m : b \in Stretch(offs[k], size[k])
  BY DEF Chain, Holds
<1>4. off \in 0 .. StreamLen BY <1>0
<1>5. \A k \in 1 .. m + 1 : /\ k < it => k \in 1 .. m /\ o2[k] = offs[k] /\ s2[k] = size[k]
                            /\ k = it => o2[k] = off /\ s2[k] = n
                            /\ k > it => k - 1 \in 1 .. m /\ o2[k] = offs[k - 1] /\ s2[k] = size[k - 1]
  BY DEF PutIn
<1>6. o2 \in [1 .. m + 1 -> 0 .. StreamLen] /\ s2 \in [1 .. m + 1 -> 0 .. MaxSegment]
  <2>1. \A k \in 1 .. m + 1 : o2[k] \in 0 .. StreamLen /\ s2[k] \in 0 .. MaxSegment
    <3> HIDE DEF o2, s2
    <3>1. TAKE k \in 1 .. m + 1
    <3>2. CASE k < it BY <3>2, <1>1, <1>5
    <3>3. CASE k = it BY <3>3, <1>4, <1>5
    <3>4. CASE k > it
      <4>1. k - 1 \in 1 .. m /\ o2[k] = offs[k - 1] /\ s2[k] = size[k - 1] BY <3>4, <1>5
      <4> QED BY <4>1, <1>1
    <3> QED BY <3>2, <3>3, <3>4
  <2> QED BY <2>1 DEF PutIn
<1> HIDE DEF o2, s2
<1>7. \A k \in 1 .. m + 1 : o2[k] + s2[k] <= StreamLen
  BY <1>1, <1>5
<1>8. ASSUME NEW j \in 1 .. m + 1, NEW k \in 1 .. m + 1, j < k PROVE o2[j] < o2[k]
  <2>1. CASE k < it BY <2>1, <1>1, <1>5, <1>8
  <2>2. CASE k = it BY <2>2, <1>5, <1>8
  <2>3. CASE k > it /\ j < it
    <3>2. k - 1 \in it .. m /\ j \in 1 .. it - 1 BY <2>3
    <3>3. offs[j] < off /\ off < offs[k - 1] BY <3>2
    <3>4. o2[j] = offs[j] /\ o2[k] = offs[k - 1] /\ j \in 1 .. m /\ k - 1 \in 1 .. m BY <2>3, <1>5
    <3>5. offs[j] \in Int /\ offs[k - 1] \in Int BY <3>4, <1>1
    <3> QED BY <3>3, <3>4, <3>5
  <2>4. CASE k > it /\ j = it
    <3>1. k - 1 \in it .. m BY <2>4
    <3> QED BY <2>4, <3>1, <1>5
  <2>5. CASE k > it /\ j > it
    <3>1. j - 1 \in 1 .. m /\ k - 1 \in 1 .. m /\ j - 1 < k - 1 BY <2>5, <1>8
    <3> QED BY <2>5, <3>1, <1>1, <1>5
  <2> QED BY <2>1, <2>2, <2>3, <2>4, <2>5
<1>9. Ascending(m + 1, o2, s2) BY <1>6, <1>7, <1>8 DEF Ascending
<1>10. Ahead(m + 1, o2, 0, no, FALSE)
  <2>1. \A k \in 1 .. m + 1 : o2[k] - no <= Reach /\ no < o2[k] BY <1>2, <1>5
  <2> QED BY <2>1 DEF Ahead
<1>11. cap2 \subseteq Nat BY <1>3 DEF Stretch
<1>12. ASSUME NEW k \in 1 .. m + 1 PROVE Stretch(o2[k], s2[k]) \subseteq cap2
  <2>1. CASE k < it BY <2>1, <1>3, <1>5
  <2>2. CASE k = it BY <2>2, <1>5
  <2>3. CASE k > it BY <2>3, <1>3, <1>5
  <2> QED BY <2>1, <2>2, <2>3
<1>13. ASSUME NEW b \in cap2, b >= no
       PROVE  \E k \in 1 .. m + 1 : b \in Stretch(o2[k], s2[k])
  <2>1. CASE b \in Stretch(off, n)
    <3>1. it \in 1 .. m + 1 OBVIOUS
    <3> QED BY <2>1, <3>1, <1>5
  <2>2. CASE b \in cap
    <3>1. PICK j \in 1 .. m : b \in Stretch(offs[j], size[j]) BY <2>2, <1>3, <1>13
    <3>2. CASE j < it
      <4>1. j \in 1 .. m + 1 /\ o2[j] = offs[j] /\ s2[j] = size[j] BY <3>2, <1>5
      <4> QED BY <3>1, <4>1
    <3>3. CASE ~(j < it)
      <4>1. j + 1 \in 1 .. m + 1 /\ j + 1 > it /\ (j + 1) - 1 = j BY <3>3
      <4>2. o2[j + 1] = offs[j] /\ s2[j + 1] = size[j] BY <4>1, <1>5
      <4> QED BY <3>1, <4>1, <4>2
    <3> QED BY <3>2, <3>3
  <2> QED BY <2>1, <2>2
<1>14. Holds(m + 1, o2, s2, 0, no, cap2)
  BY <1>11, <1>12, <1>13 DEF Holds
<1> QED BY <1>9, <1>10, <1>14 DEF Chain, o2, s2

(* A longer stretch takes the place of one with the same start.            *)
LEMMA ChainGrow ==
    ASSUME NEW m \in Nat, NEW offs, NEW size, NEW no \in Nat, NEW cap,
           Chain(m, offs, size, 0, no, cap, FALSE),
           NEW it \in 1 .. m, NEW n \in 0 .. MaxSegment,
           offs[it] + n <= StreamLen, size[it] <= n
    PROVE  Chain(m, offs, [size EXCEPT ![it] = n], 0, no,
                 cap \cup Stretch(offs[it], n), FALSE)
<1> DEFINE s2 == [size EXCEPT ![it] = n]
           cap2 == cap \cup Stretch(offs[it], n)
<1>0. StreamLen \in Nat /\ MaxSegment \in Nat /\ Reach \in Nat BY StreamAssumption
<1>1. /\ offs \in [1 .. m -> 0 .. StreamLen] /\ size \in [1 .. m -> 0 .. MaxSegment]
      /\ \A k \in 1 .. m : offs[k] + size[k] <= StreamLen
      /\ \A j, k \in 1 .. m : j < k => offs[j] < offs[k]
  BY DEF Chain, Ascending
<1>2. \A k \in 1 .. m : s2[k] = IF k = it THEN n ELSE size[k] BY <1>1
<1>3. s2 \in [1 .. m -> 0 .. MaxSegment] BY <1>1
<1> HIDE DEF s2
<1>4. Ascending(m, offs, s2) BY <1>1, <1>2, <1>3 DEF Ascending
<1>5. Ahead(m, offs, 0, no, FALSE) BY DEF Chain
<1>6. /\ cap \subseteq Nat
      /\ \A k \in 1 .. m : Stretch(offs[k], size[k]) \subseteq cap
      /\ \A b \in cap : b >= no => \E k \in 1 .. m : b \in Stretch(offs[k], size[k])
  BY DEF Chain, Holds
<1>7. cap2 \subseteq Nat
  <2>1. offs[it] \in Nat /\ n \in Nat BY <1>0, <1>1
  <2>2. Stretch(offs[it], n) \subseteq Nat BY <2>1 DEF Stretch
  <2> QED BY <2>2, <1>6
<1>8. \A k \in 1 .. m : Stretch(offs[k], s2[k]) \subseteq cap2 BY <1>2, <1>6
<1>9. ASSUME NEW k \in 1 .. m PROVE Stretch(offs[k], size[k]) \subseteq Stretch(offs[k], s2[k])
  <2>1. offs[k] \in Int /\ size[k] \in Int /\ s2[k] \in Int BY <1>1, <1>3
  <2>2. size[k] <= s2[k]
    <3>1. CASE k = it BY <3>1, <1>2
    <3>2. CASE k # it BY <3>2, <1>2, <2>1
    <3> QED BY <3>1, <3>2
  <2> QED BY <2>1, <2>2 DEF Stretch
<1>10. \A b \in cap2 : b >= no => \E k \in 1 .. m : b \in Stretch(offs[k], s2[k])
  BY <1>2, <1>6, <1>9
<1>11. Holds(m, offs, s2, 0, no, cap2) BY <1>7, <1>8, <1>10 DEF Holds
<1> QED BY <1>4, <1>5, <1>11 DEF Chain, s2

(* More bytes are captured, all of them before no or in the chain already. *)
LEMMA ChainCapture ==
    ASSUME NEW m \in Nat, NEW offs, NEW size, NEW no \in Nat, NEW cap,
           Chain(m, offs, size, 0, no, cap, FALSE), NEW new \in SUBSET Nat,
           \A b \in new : b < no \/ \E k \in 1 .. m : b \in Stretch(offs[k], size[k])
    PROVE  Chain(m, offs, size, 0, no, cap \cup new, FALSE)
<1>1. /\ cap \subseteq Nat
      /\ \A k \in 1 .. m : Stretch(offs[k], size[k]) \subseteq cap
      /\ \A b \in cap : b >= no => \E k \in 1 .. m : b \in Stretch(offs[k], size[k])
  BY DEF Chain, Holds
<1>2. \A b \in cap \cup new : b >= no => \E k \in 1 .. m : b \in Stretch(offs[k], size[k])
  BY <1>1
<1> QED BY <1>1, <1>2 DEF Chain, Holds

(* The missing bytes arrive: no advances, and a drain begins.              *)
LEMMA ChainAdvance ==
    ASSUME NEW m \in Nat, NEW offs, NEW size, NEW no \in Nat, NEW cap,
           Chain(m, offs, size, 0, no, cap, FALSE), NEW new \in SUBSET Nat,
           NEW to \in Nat, no <= to, to - no <= MaxSegment, \A b \in new : b < to
    PROVE  Chain(m, offs, size, 0, to, cap \cup new, TRUE)
<1>0. StreamLen \in Nat /\ MaxSegment \in Nat /\ Reach \in Nat /\ MaxSegment <= Reach
  BY StreamAssumption
<1>1. /\ cap \subseteq Nat
      /\ \A k \in 1 .. m : Stretch(offs[k], size[k]) \subseteq cap
      /\ \A b \in cap : b >= no => \E k \in 1 .. m : b \in Stretch(offs[k], size[k])
  BY DEF Chain, Holds
<1>2. \A b \in cap \cup new : b >= to => \E k \in 1 .. m : b \in Stretch(offs[k], size[k])
  BY <1>1
<1>3. \A k \in 1 .. m : offs[k] - no <= Reach /\ no < offs[k] /\ offs[k] \in 0 .. StreamLen
  BY DEF Chain, Ahead, Ascending
<1>4. \A k \in 1 .. m : offs[k] - to <= Reach /\ to - offs[k] <= Reach BY <1>0, <1>3
<1>5. Ahead(m, offs, 0, to, TRUE) BY <1>4 DEF Ahead
<1>6. Holds(m, offs, size, 0, to, cap \cup new) BY <1>1, <1>2 DEF Holds
<1>7. Ascending(m, offs, size) BY DEF Chain
<1> QED BY <1>5, <1>6, <1>7 DEF Chain

(* One turn of the drain: the next stretch starts at or before no, and no  *)
(* moves to its end if that is later.                                      *)
LEMMA ChainDrain ==
    ASSUME NEW m \in Nat, NEW offs, NEW size, NEW lo \in 0 .. m - 1, NEW no \in Nat, NEW cap,
           Chain(m, offs, size, lo, no, cap, TRUE), offs[lo + 1] <= no,
           NEW to \in Nat,
           to = IF no - offs[lo + 1] < size[lo + 1] THEN offs[lo + 1] + size[lo + 1] ELSE no
    PROVE  Chain(m, offs, size, lo + 1, to, cap, TRUE)
<1>0. StreamLen \in Nat /\ MaxSegment \in Nat /\ Reach \in Nat /\ MaxSegment <= Reach
  BY StreamAssumption
<1>1. /\ cap \subseteq Nat
      /\ \A k \in 1 .. m : Stretch(offs[k], size[k]) \subseteq cap
      /\ \A b \in cap : b >= no => \E k \in lo + 1 .. m : b \in Stretch(offs[k], size[k])
  BY DEF Chain, Holds
<1>2. /\ offs \in [1 .. m -> 0 .. StreamLen] /\ size \in [1 .. m -> 0 .. MaxSegment]
      /\ \A j, k \in 1 .. m : j < k => offs[j] < offs[k]
  BY DEF Chain, Ascending
<1>3. \A k \in lo + 1 .. m : offs[k] - no <= Reach /\ no - offs[k] <= Reach
  BY DEF Chain, Ahead
<1>4. lo + 1 \in 1 .. m /\ offs[lo + 1] \in 0 .. StreamLen /\ size[lo + 1] \in 0 .. MaxSegment
  BY <1>2
<1>5. no <= to /\ offs[lo + 1] + size[lo + 1] <= to BY <1>4, <1>0
<1>6. ASSUME NEW k \in (lo + 1) + 1 .. m PROVE offs[k] - to <= Reach /\ to - offs[k] <= Reach
  <2>1. k \in lo + 1 .. m /\ k \in 1 .. m /\ lo + 1 < k OBVIOUS
  <2>2. offs[k] - no <= Reach /\ no - offs[k] <= Reach BY <1>3, <2>1
  <2>3. offs[lo + 1] < offs[k] /\ offs[k] \in 0 .. StreamLen BY <1>2, <1>4, <2>1
  <2> QED BY <2>2, <2>3, <1>0, <1>4, <1>5
<1>7. ASSUME NEW b \in cap, b >= to
      PROVE  \E k \in (lo + 1) + 1 .. m : b \in Stretch(offs[k], size[k])
  <2>1. b \in Nat /\ b >= no BY <1>1, <1>5, <1>7
  <2>2. PICK k \in lo + 1 .. m : b \in Stretch(offs[k], size[k]) BY <1>1, <2>1
  <2>3. k # lo + 1 BY <2>1, <2>2, <1>4, <1>5, <1>7 DEF Stretch
  <2>4. k \in (lo + 1) + 1 .. m BY <2>3
  <2> QED BY <2>2, <2>4
<1> QED BY <1>1, <1>6, <1>7 DEF Chain, Holds, Ahead

(* f without its first lo of m values.                                     *)
WithoutFirst(f, m, lo) == [k \in 1 .. m - lo |-> f[k + lo]]

(* The drain ends before a stretch that is ahead, or at the end: what it   *)
(* went through is dropped.                                                *)
LEMMA ChainErase ==
    ASSUME NEW m \in Nat, NEW offs, NEW size, NEW lo \in 0 .. m, NEW no \in Nat, NEW cap,
           Chain(m, offs, size, lo, no, cap, TRUE),
           lo < m => no < offs[lo + 1], NEW k2, k2 = m - lo,
           NEW o2, o2 = WithoutFirst(offs, m, lo), NEW s2, s2 = WithoutFirst(size, m, lo)
    PROVE  Chain(k2, o2, s2, 0, no, cap, FALSE)
<1>0. StreamLen \in Nat /\ MaxSegment \in Nat /\ Reach \in Nat /\ MaxSegment <= Reach
  BY StreamAssumption
<1>1. /\ cap \subseteq Nat
      /\ \A k \in 1 .. m : Stretch(offs[k], size[k]) \subseteq cap
      /\ \A b \in cap : b >= no => \E k \in lo + 1 .. m : b \in Stretch(offs[k], size[k])
  BY DEF Chain, Holds
<1>2. /\ offs \in [1 .. m -> 0 .. StreamLen] /\ size \in [1 .. m -> 0 .. MaxSegment]
      /\ \A k \in 1 .. m : offs[k] + size[k] <= StreamLen
      /\ \A j, k \in 1 .. m : j < k => offs[j] < offs[k]
  BY DEF Chain, Ascending
<1>3. \A k \in lo + 1 .. m : offs[k] - no <= Reach
  BY DEF Chain, Ahead
<1>4. \A k \in 1 .. m - lo : k + lo \in 1 .. m /\ k + lo \in lo + 1 .. m OBVIOUS
<1>5. \A k \in 1 .. m - lo : o2[k] = offs[k + lo] /\ s2[k] = size[k + lo]
  BY DEF WithoutFirst
<1>6. o2 \in [1 .. m - lo -> 0 .. StreamLen] /\ s2 \in [1 .. m - lo -> 0 .. MaxSegment]
  BY <1>2, <1>4 DEF WithoutFirst
<1>7. Ascending(m - lo, o2, s2)
  <2>1. \A k \in 1 .. m - lo : o2[k] + s2[k] <= StreamLen BY <1>2, <1>4, <1>5
  <2>2. ASSUME NEW j \in 1 .. m - lo, NEW k \in 1 .. m - lo, j < k PROVE o2[j] < o2[k]
    <3>1. j + lo \in 1 .. m /\ k + lo \in 1 .. m /\ j + lo < k + lo BY <1>4, <2>2
    <3> QED BY <3>1, <1>2, <1>5
  <2> QED BY <1>6, <2>1, <2>2 DEF Ascending
<1>8. ASSUME NEW k \in 1 .. m - lo PROVE o2[k] - no <= Reach /\ no < o2[k]
  <2>1. lo < m /\ lo + 1 \in 1 .. m /\ k + lo \in 1 .. m OBVIOUS
  <2>2. no < offs[lo + 1] BY <2>1
  <2>3. k + lo = lo + 1 \/ lo + 1 < k + lo OBVIOUS
  <2>4. offs[lo + 1] <= offs[k + lo]
    <3>1. offs[lo + 1] \in Int BY <1>2, <2>1
    <3> QED BY <1>2, <2>1, <2>3, <3>1
  <2>5. offs[lo + 1] \in Int /\ offs[k + lo] \in Int BY <1>2, <2>1
  <2> QED BY <2>2, <2>4, <2>5, <1>3, <1>4, <1>5
<1>9. Ahead(m - lo, o2, 0, no, FALSE) BY <1>8 DEF Ahead
<1>10. \A k \in 1 .. m - lo : Stretch(o2[k], s2[k]) \subseteq cap BY <1>1, <1>4, <1>5
<1>11. ASSUME NEW b \in cap, b >= no PROVE \E k \in 1 .. m - lo : b \in Stretch(o2[k], s2[k])
  <2>1. PICK j \in lo + 1 .. m : b \in Stretch(offs[j], size[j]) BY <1>1, <1>11
  <2>2. j - lo \in 1 .. m - lo /\ (j - lo) + lo = j OBVIOUS
  <2>3. o2[j - lo] = offs[j] /\ s2[j - lo] = size[j] BY <2>2, <1>5
  <2> QED BY <2>1, <2>2, <2>3
<1>12. Holds(m - lo, o2, s2, 0, no, cap) BY <1>1, <1>10, <1>11 DEF Holds
<1> QED BY <1>7, <1>9, <1>12 DEF Chain

-----------------------------------------------------------------------------
(* The struct's buffer is such a chain                                     *)

(* The buffered segment that holds bytes o .. o+n-1 of the stream.         *)
Piece(i, o, n) == [seq |-> Num(i, o), data |-> Slice(o, n)]

(* ooo holds the stretches offs, size, one segment each.                   *)
Pieces(ooo, i, offs, size) == \A k \in 1 .. Len(ooo) : ooo[k] = Piece(i, offs[k], size[k])

(* out_of_order holds the pieces of a chain.                               *)
Buffer(ooo, i, lo, no, cap, draining) ==
    \E offs \in [1 .. Len(ooo) -> 0 .. StreamLen],
       size \in [1 .. Len(ooo) -> 0 .. MaxSegment] :
       /\ Pieces(ooo, i, offs, size)
       /\ Chain(Len(ooo), offs, size, lo, no, cap, draining)

(* u differs from t in the out-of-order buffer only.                       *)
BufferOnly(u, t) ==
    /\ u.state = t.state /\ u.next_seq = t.next_seq
    /\ u.assembled = t.assembled /\ u.read_pos = t.read_pos
    /\ u.fin_seen = t.fin_seen /\ u.fin_seq = t.fin_seq
    /\ u.seeded = t.seeded /\ u.keep_payload = t.keep_payload

(* What a piece holds.                                                     *)
LEMMA PieceFields ==
    ASSUME NEW i, NEW o \in Nat, NEW n \in Nat
    PROVE  /\ Piece(i, o, n).seq = Num(i, o)
           /\ Piece(i, o, n).data = Slice(o, n) /\ Len(Piece(i, o, n).data) = n
BY SliceType DEF Piece

(* Bytes less than 2^32 apart have different sequence numbers.             *)
LEMMA NumInjective ==
    ASSUME NEW i \in Int, NEW a \in Int, NEW b \in Int,
           a - b < SeqSpace, b - a < SeqSpace, Num(i, a) = Num(i, b)
    PROVE  a = b
<1>1. i + 1 + a \in Int /\ i + 1 + b \in Int /\ SeqSpace \in Nat /\ SeqSpace > 1
  BY SeqSpaceAssumption
<1>2. Num(i, a) \in Int BY <1>1, U32Type, SeqSpaceAssumption DEF Num, SeqNumbers
<1>3. U32(Num(i, a) - Num(i, b)) = IF a >= b THEN a - b ELSE a - b + SeqSpace
  BY <1>1, NumDistance
<1>4. Num(i, a) - Num(i, b) = 0 BY <1>2
<1>5. 0 \in SeqNumbers /\ 0 = SeqSpace * 0 + 0 BY <1>1 DEF SeqNumbers
<1>6. U32(0) = 0 BY <1>5, ModUnique
<1> QED BY <1>1, <1>3, <1>4, <1>6

(* The half space is wider than the reach.                                 *)
LEMMA ReachFits ==
    /\ Reach \in Nat /\ SeqSpace \in Nat /\ SeqSpace \div 2 \in Nat
    /\ Reach < SeqSpace \div 2 /\ SeqSpace = 2 * (SeqSpace \div 2) /\ SeqSpace > 1
    /\ MaxSegment \in Nat /\ MaxSegment <= Reach /\ StreamLen \in Nat
BY SeqSpaceAssumption, StreamAssumption

(* it is the place of byte off, whose sequence number is seq, in a chain.  *)
IsPlace(it, ooo, offs, off, seq) ==
    /\ it \in 1 .. Len(ooo) + 1
    /\ \A k \in 1 .. it - 1 : offs[k] < off
    /\ \A k \in it .. Len(ooo) : off <= offs[k]
    /\ \A k \in 1 .. Len(ooo) : ooo[k].seq = seq <=> offs[k] = off

(* On a chain, std::lower_bound finds the place of a byte ahead of no.     *)
LEMMA LowerBoundPlace ==
    ASSUME NEW t \in Structs, NEW i \in Int, NEW no \in Nat, NEW off \in Nat,
           NEW offs, NEW size, NEW cap,
           Pieces(t.out_of_order, i, offs, size),
           Chain(Len(t.out_of_order), offs, size, 0, no, cap, FALSE),
           t.next_seq = Num(i, no), no < off, off - no <= Reach,
           NEW it, it = LowerBound(t, Num(i, off))
    PROVE  IsPlace(it, t.out_of_order, offs, off, Num(i, off))
<1> DEFINE m  == Len(t.out_of_order)
           d(k) == U32(t.out_of_order[k].seq - t.next_seq)
           e  == U32(Num(i, off) - t.next_seq)
           S  == {k \in 1 .. m : d(k) >= e} \cup {m + 1}
<1>0. m \in Nat BY DataLen
<1>1. \A k \in 1 .. m : offs[k] \in 0 .. StreamLen /\ size[k] \in 0 .. MaxSegment
  BY DEF Chain, Ascending
<1>2. \A j, k \in 1 .. m : j < k => offs[j] < offs[k] BY DEF Chain, Ascending
<1>3. \A k \in 1 .. m : offs[k] - no <= Reach /\ no < offs[k] BY DEF Chain, Ahead
<1>4. \A k \in 1 .. m : t.out_of_order[k].seq = Num(i, offs[k])
  <2>1. TAKE k \in 1 .. m
  <2>2. offs[k] \in Nat /\ size[k] \in Nat BY <1>1, ReachFits
  <2> QED BY <2>2, PieceFields DEF Pieces
<1>5. ASSUME NEW k \in 1 .. m PROVE d(k) = offs[k] - no
  <2>1. offs[k] \in Int /\ offs[k] - no <= Reach /\ no < offs[k] BY <1>1, <1>3
  <2>2. -SeqSpace <= offs[k] - no /\ offs[k] - no < SeqSpace /\ offs[k] >= no BY <2>1, ReachFits
  <2> QED BY <1>4, <2>1, <2>2, NumDistance
<1>6. e = off - no
  <2>1. -SeqSpace <= off - no /\ off - no < SeqSpace /\ off >= no BY ReachFits
  <2> QED BY <2>1, NumDistance
<1>7. ASSUME NEW k \in 1 .. m PROVE t.out_of_order[k].seq = Num(i, off) <=> offs[k] = off
  <2>1. offs[k] \in Int /\ offs[k] - no <= Reach /\ no < offs[k] BY <1>1, <1>3
  <2>2. offs[k] - off < SeqSpace /\ off - offs[k] < SeqSpace BY <2>1, ReachFits
  <2> QED BY <1>4, <2>1, <2>2, NumInjective
<1> HIDE DEF d, e
<1>8. S \in SUBSET Nat /\ S # {} /\ S \subseteq 1 .. m + 1 BY <1>0
<1>9. Min(S) \in S /\ \A y \in S : Min(S) <= y
  <2> HIDE DEF S
  <2> QED BY <1>8, MinOfNats
<1>10. it = Min(S) BY DEF LowerBound, d, e
<1>11. it \in S /\ it \in 1 .. m + 1 /\ \A y \in S : it <= y
  <2> HIDE DEF S
  <2> QED BY <1>8, <1>9, <1>10
<1>12. ASSUME NEW k \in 1 .. it - 1 PROVE offs[k] < off
  <2>1. k \in 1 .. m /\ ~(it <= k) BY <1>0, <1>11
  <2>2. k \notin S BY <1>11, <2>1
  <2>3. ~(d(k) >= e) BY <2>1, <2>2
  <2> QED BY <2>1, <2>3, <1>1, <1>5, <1>6
<1>13. ASSUME NEW k \in it .. m PROVE off <= offs[k]
  <2>1. it \in 1 .. m /\ k \in 1 .. m /\ it # m + 1 BY <1>0, <1>11
  <2>2. d(it) >= e BY <1>11, <2>1
  <2>3. offs[it] \in Int /\ offs[k] \in Int BY <2>1, <1>1
  <2>4. off <= offs[it] BY <2>1, <2>2, <2>3, <1>5, <1>6
  <2>5. it = k \/ it < k BY <2>1
  <2>6. offs[it] <= offs[k] BY <2>1, <2>3, <2>5, <1>2
  <2> QED BY <2>3, <2>4, <2>6
<1> QED BY <1>7, <1>11, <1>12, <1>13 DEF IsPlace

(* The larger of a length and 0 is the length.                             *)
LEMMA MaxWithZero ==
    ASSUME NEW a \in Nat
    PROVE  Max({a} \cup {0}) = a /\ Max({} \cup {0}) = 0
<1>1. a \in {a} \cup {0} /\ \A y \in {a} \cup {0} : a >= y OBVIOUS
<1>2. \A x \in {a} \cup {0} : (\A y \in {a} \cup {0} : x >= y) => x = a OBVIOUS
<1> QED BY <1>1, <1>2 DEF Max

(* A segment past the next expected byte is buffered: the chain stays one, *)
(* and holds its bytes unless the limit keeps them out.                    *)
LEMMA BufferAheadStep ==
    ASSUME NEW t \in Structs, NEW i \in Int, NEW no \in Nat, NEW cap,
           Buffer(t.out_of_order, i, 0, no, cap, FALSE), t.keep_payload,
           t.next_seq = Num(i, no),
           NEW off \in Nat, NEW n \in 0 .. MaxSegment,
           off + n <= StreamLen, no < off, off - no <= Reach
    PROVE  LET u == BufferAhead(t, Num(i, off), Slice(off, n))
           IN  /\ BufferOnly(u, t)
               /\ Buffer(u.out_of_order, i, 0, no,
                         IF PastLimit(t, Num(i, off), n) THEN cap ELSE cap \cup Stretch(off, n),
                         FALSE)
<1> DEFINE ooo  == t.out_of_order
           m    == Len(ooo)
           seq  == Num(i, off)
           span == Slice(off, n)
           it   == LowerBound(t, seq)
           same == it <= m /\ ooo[it].seq = seq
           extra == Len(span) - Len(ooo[it].data)
           r == [t EXCEPT !.ooo_bytes = @ + extra, !.out_of_order[it].data = span]
           u == [t EXCEPT !.ooo_bytes = @ + Len(span),
                          !.out_of_order = InsertAt(@, it, [seq |-> seq, data |-> span])]
           cap2 == IF PastLimit(t, seq, n) THEN cap ELSE cap \cup Stretch(off, n)
           kept == {Len(ooo[k].data) : k \in {j \in 1 .. m : ooo[j].seq = seq}}
<1>0. /\ m \in Nat /\ n \in Nat /\ span \in Seq(Nat) /\ Len(span) = n /\ ooo \in Seq(Segments)
      /\ t.ooo_bytes \in Nat
  <2>1. n \in Nat BY ReachFits
  <2> QED BY <2>1, DataLen, SliceType DEF Structs
<1>1. PICK offs \in [1 .. m -> 0 .. StreamLen], size \in [1 .. m -> 0 .. MaxSegment] :
         Pieces(ooo, i, offs, size) /\ Chain(m, offs, size, 0, no, cap, FALSE)
  BY DEF Buffer
<1>2. /\ it \in 1 .. m + 1
      /\ \A k \in 1 .. it - 1 : offs[k] < off
      /\ \A k \in it .. m : off <= offs[k]
      /\ \A k \in 1 .. m : ooo[k].seq = seq <=> offs[k] = off
  <2>1. IsPlace(it, ooo, offs, off, seq) BY <1>1, LowerBoundPlace
  <2> HIDE DEF it, ooo, seq
  <2> QED BY <2>1 DEF IsPlace
<1>3. \A k \in 1 .. m : /\ offs[k] \in Nat /\ size[k] \in Nat /\ size[k] \in 0 .. MaxSegment
                        /\ ooo[k] = Piece(i, offs[k], size[k]) /\ Len(ooo[k].data) = size[k]
  <2>1. TAKE k \in 1 .. m
  <2>2. offs[k] \in Nat /\ size[k] \in Nat /\ size[k] \in 0 .. MaxSegment BY ReachFits
  <2>3. ooo[k] = Piece(i, offs[k], size[k]) BY <1>1 DEF Pieces
  <2>4. Len(Piece(i, offs[k], size[k]).data) = size[k] BY <2>2, PieceFields
  <2> QED BY <2>2, <2>3, <2>4
<1>4. \A j, k \in 1 .. m : j < k => offs[j] < offs[k] BY <1>1 DEF Chain, Ascending
<1>5. PastLimit(t, seq, n) <=> t.ooo_bytes + n - Max(kept \cup {0}) > MAX_OOO_BYTES
  <2>1. SeqDiff(seq, t.next_seq) = off - no
    <3>1. off - no < SeqSpace \div 2 /\ no - off <= SeqSpace \div 2 BY ReachFits
    <3> QED BY <3>1, NumDiff
  <2>2. off - no > 0 OBVIOUS
  <2> QED BY <2>1, <2>2 DEF PastLimit
<1>6. BufferAhead(t, seq, span) =
        IF same THEN IF extra > 0 /\ t.ooo_bytes + extra <= MAX_OOO_BYTES THEN r ELSE t
        ELSE IF t.ooo_bytes + Len(span) <= MAX_OOO_BYTES THEN u ELSE t
  BY DEF BufferAhead
<1>7. BufferOnly(t, t) /\ BufferOnly(r, t) /\ BufferOnly(u, t)
  <2> HIDE DEF extra, it, span, seq
  <2> QED BY DEF BufferOnly, Structs
<1> HIDE DEF span, seq
<1>8. CASE same
  <2>1. it \in 1 .. m /\ offs[it] = off /\ Len(ooo[it].data) = size[it] /\ size[it] \in Nat
    BY <1>0, <1>2, <1>3, <1>8
  <2>2. kept = {size[it]}
    <3>1. \A j \in 1 .. m : ooo[j].seq = seq => j = it
      <4>1. TAKE j \in 1 .. m
      <4>2. ooo[j].seq = seq => offs[j] = off BY <1>2
      <4>3. offs[j] = off => ~(j < it) /\ ~(it < j) BY <2>1, <1>3, <1>4
      <4>4. j \in Int /\ it \in Int BY <2>1
      <4> HIDE DEF it, ooo, m
      <4> QED BY <4>2, <4>3, <4>4
    <3>2. ooo[it].seq = seq BY <1>8
    <3> QED BY <2>1, <3>1, <3>2
  <2>3. PastLimit(t, seq, n) <=> t.ooo_bytes + n - size[it] > MAX_OOO_BYTES
    <3> HIDE DEF kept, it
    <3> QED BY <1>5, <2>1, <2>2, MaxWithZero
  <2>4. extra = n - size[it] BY <1>0, <2>1
  <2>5. CASE extra > 0 /\ t.ooo_bytes + extra <= MAX_OOO_BYTES
    <3>1. size[it] <= n /\ ~PastLimit(t, seq, n)
      <4> HIDE DEF it, extra
      <4> QED BY <1>0, <2>1, <2>3, <2>4, <2>5, LimitsAssumption
    <3>2. r.out_of_order = [ooo EXCEPT ![it].data = span]
      <4> HIDE DEF it, extra
      <4> QED BY DEF Structs
    <3>3. /\ Len(r.out_of_order) = m
          /\ \A k \in 1 .. m : r.out_of_order[k] = IF k = it THEN [ooo[it] EXCEPT !.data = span]
                                                   ELSE ooo[k]
      <4> HIDE DEF it, r
      <4>1. ooo[it] \in Segments BY <2>1, DataLen
      <4>2. [ooo[it] EXCEPT !.data = span] \in Segments BY <1>0, <4>1 DEF Segments
      <4>3. [ooo EXCEPT ![it].data = span] = [ooo EXCEPT ![it] = [ooo[it] EXCEPT !.data = span]]
        OBVIOUS
      <4> QED BY <1>0, <2>1, <3>2, <4>2, <4>3, ExceptSeq
    <3> DEFINE s2 == [size EXCEPT ![it] = n]
    <3>4. /\ \A k \in 1 .. m : s2[k] = IF k = it THEN n ELSE size[k]
          /\ s2 \in [1 .. m -> 0 .. MaxSegment]
      <4> HIDE DEF it
      <4> QED BY <2>1
    <3>5. [ooo[it] EXCEPT !.data = span] = Piece(i, off, n)
      <4>1. ooo[it] = [seq |-> Num(i, off), data |-> Slice(off, size[it])]
        BY <2>1, <1>3 DEF Piece
      <4> HIDE DEF it, ooo
      <4> QED BY <4>1 DEF Piece, span
    <3>6. Pieces(r.out_of_order, i, offs, s2)
      <4> HIDE DEF it, r, s2
      <4> QED BY <2>1, <3>3, <3>4, <3>5, <1>3 DEF Pieces
    <3>7. Chain(m, offs, s2, 0, no, cap \cup Stretch(offs[it], n), FALSE)
      <4> HIDE DEF it
      <4> QED BY <1>0, <1>1, <2>1, <3>1, ChainGrow
    <3>8. Buffer(r.out_of_order, i, 0, no, cap2, FALSE)
      <4> HIDE DEF it, r, s2
      <4> QED BY <2>1, <3>1, <3>3, <3>4, <3>6, <3>7 DEF Buffer
    <3>9. BufferAhead(t, seq, span) = r
      <4> HIDE DEF r, extra
      <4> QED BY <1>6, <1>8, <2>5
    <3> HIDE DEF r, cap2
    <3> QED BY <1>7, <3>8, <3>9 DEF cap2, seq, span
  <2>6. CASE ~(extra > 0 /\ t.ooo_bytes + extra <= MAX_OOO_BYTES)
    <3>1. BufferAhead(t, seq, span) = t
      <4> HIDE DEF r, extra, same
      <4> QED BY <1>6, <1>8, <2>6
    <3>2. Buffer(ooo, i, 0, no, cap2, FALSE)
      <4>1. CASE PastLimit(t, seq, n)
        <5>1. cap2 = cap BY <4>1
        <5> QED BY <5>1
      <4>2. CASE ~PastLimit(t, seq, n)
        <5>1. n <= size[it]
          <6> HIDE DEF it, extra
          <6> QED BY <1>0, <2>1, <2>3, <2>4, <2>6, <4>2, LimitsAssumption
        <5>2. \A b \in Stretch(off, n) : \E k \in 1 .. m : b \in Stretch(offs[k], size[k])
          <6>1. Stretch(off, n) \subseteq Stretch(offs[it], size[it])
            <7> HIDE DEF it
            <7> QED BY <1>0, <2>1, <5>1 DEF Stretch
          <6> QED BY <2>1, <6>1
        <5>3. Stretch(off, n) \in SUBSET Nat BY <1>0 DEF Stretch
        <5>4. Chain(m, offs, size, 0, no, cap \cup Stretch(off, n), FALSE)
          BY <1>0, <1>1, <5>2, <5>3, ChainCapture
        <5>5. cap2 = cap \cup Stretch(off, n) BY <4>2
        <5> QED BY <1>1, <5>4, <5>5 DEF Buffer
      <4> QED BY <4>1, <4>2
    <3> HIDE DEF cap2
    <3> QED BY <1>7, <3>1, <3>2 DEF cap2, seq, span
  <2> QED BY <2>5, <2>6
<1>9. CASE ~same
  <2>1. \A k \in 1 .. m : ooo[k].seq # seq
    <3>1. TAKE k \in 1 .. m
    <3>2. SUFFICES ASSUME offs[k] = off PROVE FALSE BY <1>2
    <3>3. ~(k < it)
      <4>1. k < it => k \in 1 .. it - 1 BY <1>0, <1>2
      <4> QED BY <3>2, <4>1, <1>2, <1>3
    <3>4. it \in 1 .. m /\ it <= k BY <3>3, <1>0, <1>2
    <3>5. off <= offs[it] /\ (it < k => offs[it] < offs[k]) /\ offs[it] \in Nat
      BY <3>4, <1>2, <1>3, <1>4
    <3>6. it = k
      <4> HIDE DEF it, m
      <4> QED BY <1>0, <3>2, <3>4, <3>5
    <3> QED BY <3>2, <3>4, <3>6, <1>2, <1>9
  <2>2. kept = {} BY <2>1
  <2>3. PastLimit(t, seq, n) <=> t.ooo_bytes + n > MAX_OOO_BYTES
    <3>1. Max(kept \cup {0}) = 0 BY <2>2, MaxWithZero
    <3> HIDE DEF kept
    <3> QED BY <1>0, <1>5, <3>1
  <2>4. CASE t.ooo_bytes + Len(span) <= MAX_OOO_BYTES
    <3>1. ~PastLimit(t, seq, n) BY <1>0, <2>3, <2>4, LimitsAssumption
    <3> DEFINE e == [seq |-> seq, data |-> span]
               o2 == PutIn(offs, m, it, off)
               s2 == PutIn(size, m, it, n)
    <3>2. u.out_of_order = InsertAt(ooo, it, e)
      <4> HIDE DEF it
      <4> QED BY DEF Structs
    <3>3. e \in Segments /\ e = Piece(i, off, n)
      <4>1. i + 1 + off \in Int OBVIOUS
      <4>2. seq \in SeqNumbers BY <4>1, U32Type DEF seq, Num
      <4> QED BY <1>0, <4>2 DEF Segments, Piece, seq, span
    <3>4. Inserted(u.out_of_order, ooo, it, e)
      <4> HIDE DEF it, e, u
      <4> QED BY <1>0, <1>2, <3>2, <3>3, InsertAtProperties
    <3>5. \A k \in it .. m : off < offs[k]
      <4>1. TAKE k \in it .. m
      <4>2. k \in 1 .. m BY <1>2
      <4>3. off <= offs[k] /\ offs[k] # off /\ offs[k] \in Nat BY <4>2, <1>2, <1>3, <2>1
      <4> HIDE DEF it, m
      <4> QED BY <4>3
    <3>6. Chain(m + 1, o2, s2, 0, no, cap \cup Stretch(off, n), FALSE)
      <4> HIDE DEF it
      <4> QED BY <1>0, <1>1, <1>2, <3>5, ChainInsert
    <3> HIDE DEF u
    <3>7. Len(u.out_of_order) = m + 1 BY <3>4 DEF Inserted
    <3>8. Pieces(u.out_of_order, i, o2, s2)
      <4>1. SUFFICES ASSUME NEW k \in 1 .. m + 1
                     PROVE  u.out_of_order[k] = Piece(i, o2[k], s2[k])
        BY <3>7 DEF Pieces
      <4>2. u.out_of_order[k] = IF k < it THEN ooo[k] ELSE IF k = it THEN e ELSE ooo[k - 1]
        BY <3>4 DEF Inserted
      <4>3. /\ o2[k] = IF k < it THEN offs[k] ELSE IF k = it THEN off ELSE offs[k - 1]
            /\ s2[k] = IF k < it THEN size[k] ELSE IF k = it THEN n ELSE size[k - 1]
        BY DEF PutIn
      <4> HIDE DEF it, o2, s2, e, ooo
      <4>4. CASE k < it
        <5>1. k \in 1 .. m BY <4>4, <1>0, <1>2
        <5> QED BY <4>2, <4>3, <4>4, <5>1, <1>3
      <4>5. CASE k = it BY <4>2, <4>3, <4>5, <1>2, <3>3
      <4>6. CASE k > it
        <5>1. k - 1 \in 1 .. m /\ ~(k < it) /\ k # it BY <4>6, <1>0, <1>2
        <5> QED BY <4>2, <4>3, <5>1, <1>3
      <4> QED BY <4>4, <4>5, <4>6, <1>2
    <3>9. o2 \in [1 .. m + 1 -> 0 .. StreamLen] /\ s2 \in [1 .. m + 1 -> 0 .. MaxSegment]
      <4> HIDE DEF o2, s2
      <4> QED BY <3>6 DEF Chain, Ascending
    <3>10. Buffer(u.out_of_order, i, 0, no, cap2, FALSE)
      <4>1. cap2 = cap \cup Stretch(off, n) BY <3>1
      <4> HIDE DEF o2, s2, cap2
      <4> QED BY <3>6, <3>7, <3>8, <3>9, <4>1 DEF Buffer
    <3>11. BufferAhead(t, seq, span) = u
      <4> HIDE DEF same, r
      <4> QED BY <1>6, <1>9, <2>4
    <3> HIDE DEF cap2
    <3> QED BY <1>7, <3>10, <3>11 DEF cap2, seq, span
  <2>5. CASE ~(t.ooo_bytes + Len(span) <= MAX_OOO_BYTES)
    <3>1. PastLimit(t, seq, n) BY <1>0, <2>3, <2>5, LimitsAssumption
    <3>2. BufferAhead(t, seq, span) = t
      <4> HIDE DEF same, r, u
      <4> QED BY <1>6, <1>9, <2>5
    <3>3. cap2 = cap BY <3>1
    <3> HIDE DEF cap2
    <3> QED BY <1>7, <3>2, <3>3 DEF cap2, seq, span
  <2> QED BY <2>4, <2>5
<1> QED BY <1>8, <1>9

-----------------------------------------------------------------------------
(* The assembled stream                                                    *)

(* u differs from t in assembled, read_pos, next_seq and ooo_bytes only.   *)
SameControl(u, t) ==
    /\ u.state = t.state /\ u.fin_seen = t.fin_seen /\ u.fin_seq = t.fin_seq
    /\ u.seeded = t.seeded /\ u.keep_payload = t.keep_payload

(* read_pos has not run past what was assembled.                           *)
Readable(t) == t.read_pos <= Len(t.assembled)

(* u is t with bytes no .. to-1 of the stream appended.                    *)
Appended(u, t, i, no, to) ==
    /\ Readable(u) /\ SameControl(u, t) /\ u.next_seq = Num(i, to)
    /\ Peek(u) = Peek(t) \o Slice(no, to - no)

(* The same, with the out-of-order buffer left alone.                      *)
Extended(u, t, i, no, to) == Appended(u, t, i, no, to) /\ u.out_of_order = t.out_of_order

(* Appending the bytes of a payload past the first skip.                   *)
LEMMA AssembleView ==
    ASSUME NEW t \in Structs, Readable(t), NEW i \in Int, NEW no \in Nat, t.next_seq = Num(i, no),
           NEW off \in Nat, NEW n \in Nat, NEW skip \in 0 .. n, off + skip = no,
           NEW to, to = off + n, NEW u, u = Assemble(t, Slice(off, n), skip)
    PROVE  Extended(u, t, i, no, to)
<1> DEFINE span == Slice(off, n)
           rest == SubSeq(span, skip + 1, Len(span))
<1>1. span \in Seq(Nat) /\ Len(span) = n BY SliceType
<1>2. rest = Slice(no, off + n - no)
  <2>1. off + skip = no /\ n - skip = off + n - no OBVIOUS
  <2>2. SubSeq(Slice(off, n), skip + 1, n) = Slice(off + skip, n - skip) BY SliceRest
  <2> QED BY <1>1, <2>1, <2>2
<1>3. rest \in Seq(Nat)
  <2>1. off + n - no \in Nat OBVIOUS
  <2> QED BY <1>2, <2>1, SliceType
<1>4. t.assembled \in Seq(Nat) /\ t.read_pos \in Nat /\ t.read_pos <= Len(t.assembled)
  BY DEF Structs, Readable
<1>5. U32(t.next_seq + Len(span) - skip) = Num(i, off + n)
  <2>1. no \in Int /\ n - skip \in Int /\ no + (n - skip) = off + n OBVIOUS
  <2>2. U32(Num(i, no) + (n - skip)) = Num(i, off + n)
    <3> DEFINE d == n - skip
    <3> HIDE DEF d
    <3>1. d \in Int /\ no + d = off + n BY <2>1 DEF d
    <3>2. U32(Num(i, no) + d) = Num(i, no + d) BY <2>1, <3>1, NumShift
    <3> QED BY <3>1, <3>2 DEF d
  <2>3. Num(i, no) \in Int
    <3>1. i + 1 + no \in Int OBVIOUS
    <3> QED BY <3>1, U32Type, SeqSpaceAssumption DEF Num, SeqNumbers
  <2>4. t.next_seq + Len(span) - skip = Num(i, no) + (n - skip) BY <1>1, <2>3
  <2> QED BY <2>2, <2>4
<1>6. /\ u.assembled = t.assembled \o rest /\ u.next_seq = Num(i, off + n)
      /\ u.read_pos = t.read_pos /\ u.out_of_order = t.out_of_order /\ SameControl(u, t)
  <2>1. u = Assemble(t, span, skip) OBVIOUS
  <2> HIDE DEF span
  <2> QED BY <1>5, <2>1 DEF Assemble, Structs, SameControl
<1> HIDE DEF rest
<1>7. Len(t.assembled \o rest) = Len(t.assembled) + Len(rest) /\ Len(rest) \in Nat /\ Len(t.assembled) \in Nat
  BY <1>3, <1>4, ConcatProperties, LenProperties
<1>8. Readable(u) BY <1>4, <1>6, <1>7 DEF Readable
<1>9. Peek(u) = Peek(t) \o rest
  <2>1. SubSeq(t.assembled \o rest, t.read_pos + 1, Len(t.assembled \o rest))
          = SubSeq(t.assembled, t.read_pos + 1, Len(t.assembled)) \o rest
    BY <1>3, <1>4, RestOfConcat
  <2> QED BY <1>6, <2>1 DEF Peek
<1> QED BY <1>2, <1>6, <1>8, <1>9 DEF Extended, Appended

(* The reader takes n bytes: they and what is left are what was there.     *)
LEMMA ConsumeView ==
    ASSUME NEW t \in Structs, Readable(t), NEW n \in 1 .. Available(t)
    PROVE  LET u == Consume(t, n)
           IN  /\ Readable(u) /\ SameControl(u, t) /\ u.out_of_order = t.out_of_order
               /\ u.next_seq = t.next_seq
               /\ SubSeq(Peek(t), 1, n) \in Seq(Nat) /\ Peek(u) \in Seq(Nat)
               /\ Len(SubSeq(Peek(t), 1, n)) = n
               /\ SubSeq(Peek(t), 1, n) \o Peek(u) = Peek(t)
<1> DEFINE a == t.assembled
           r == t.read_pos
           l == Len(a)
           u == Consume(t, n)
           p == SubSeq(a, r + 1, l)
<1>1. a \in Seq(Nat) /\ r \in Nat /\ l \in Nat /\ r <= l BY LenProperties DEF Structs, Readable
<1>2. n \in Nat /\ 1 <= n /\ r + n <= l BY <1>1 DEF Available
<1>3. Min({n, Available(t)}) = n
  <2>1. Available(t) \in Nat /\ n <= Available(t) BY <1>1, <1>2 DEF Available
  <2> QED BY <1>2, <2>1 DEF Min
<1>4. \/ u = [t EXCEPT !.assembled = SubSeq(a, r + n + 1, l), !.read_pos = 0]
      \/ u = [t EXCEPT !.read_pos = r + n]
  BY <1>3 DEF Consume
<1> HIDE DEF a, r, l
<1> DEFINE tail == SubSeq(a, r + n + 1, l)
<1>4a. \A k \in 1 .. l : a[k] \in Nat BY <1>1, LenProperties DEF l
<1>5. /\ tail \in Seq(Nat) /\ Len(tail) = l - (r + n)
      /\ \A k \in 1 .. l - (r + n) : tail[k] = a[r + n + k]
  <2>1. \A k \in r + n + 1 .. l : a[k] \in Nat BY <1>1, <1>2, <1>4a
  <2>2. r + n + 1 \in Int /\ l \in Int /\ l - (r + n + 1) + 1 = l - (r + n) BY <1>1, <1>2
  <2>3. /\ tail \in Seq(Nat)
        /\ Len(tail) = IF r + n + 1 <= l THEN l - (r + n + 1) + 1 ELSE 0
        /\ \A k \in 1 .. l - (r + n + 1) + 1 : tail[k] = a[r + n + 1 + k - 1]
    BY <2>1, <2>2, SubSeqProperties
  <2>4. Len(tail) = l - (r + n)
    <3> HIDE DEF tail
    <3> QED BY <1>1, <1>2, <2>2, <2>3
  <2>5. \A k \in 1 .. l - (r + n) : r + n + 1 + k - 1 = r + n + k BY <1>1, <1>2
  <2> HIDE DEF tail
  <2> QED BY <2>2, <2>3, <2>4, <2>5
<1>6. /\ p \in Seq(Nat) /\ Len(p) = l - r
      /\ \A k \in 1 .. l - r : p[k] = a[r + k]
  <2>1. \A k \in r + 1 .. l : a[k] \in Nat BY <1>1, <1>4a
  <2>2. r + 1 \in Int /\ l \in Int /\ l - (r + 1) + 1 = l - r BY <1>1
  <2>3. /\ p \in Seq(Nat)
        /\ Len(p) = IF r + 1 <= l THEN l - (r + 1) + 1 ELSE 0
        /\ \A k \in 1 .. l - (r + 1) + 1 : p[k] = a[r + 1 + k - 1]
    BY <2>1, <2>2, SubSeqProperties
  <2>4. Len(p) = l - r
    <3> HIDE DEF p
    <3> QED BY <1>1, <1>2, <2>2, <2>3
  <2>5. \A k \in 1 .. l - r : r + 1 + k - 1 = r + k BY <1>1
  <2> HIDE DEF p
  <2> QED BY <2>2, <2>3, <2>4, <2>5
<1>7. Peek(t) = p BY DEF Peek, a, r, l
<1> HIDE DEF u, tail, p
<1>8. /\ Readable(u) /\ SameControl(u, t) /\ u.out_of_order = t.out_of_order
      /\ u.next_seq = t.next_seq /\ Peek(u) = tail
  <2> DEFINE c == [t EXCEPT !.assembled = tail, !.read_pos = 0]
             d == [t EXCEPT !.read_pos = r + n]
  <2>1. u = c \/ u = d BY <1>4 DEF tail
  <2>2. /\ Readable(c) /\ SameControl(c, t) /\ c.out_of_order = t.out_of_order
        /\ c.next_seq = t.next_seq
    BY <1>5, LenProperties DEF Structs, SameControl, Readable
  <2>3. Peek(c) = tail
    <3>1. c.assembled = tail /\ c.read_pos = 0 BY DEF Structs
    <3> HIDE DEF c
    <3>2. 0 + 1 = 1 OBVIOUS
    <3> QED BY <1>5, <3>1, <3>2, SubSeqFull DEF Peek
  <2>4. /\ SameControl(d, t) /\ d.out_of_order = t.out_of_order
        /\ d.next_seq = t.next_seq /\ d.assembled = a /\ d.read_pos = r + n
    BY DEF Structs, SameControl, a
  <2> HIDE DEF c, d
  <2>5. Readable(d) BY <1>2, <2>4 DEF Readable, l
  <2>6. Peek(d) = tail BY <2>4 DEF Peek, tail, l
  <2> QED BY <2>1, <2>2, <2>3, <2>4, <2>5, <2>6
<1> DEFINE front == SubSeq(p, 1, n)
<1>9. \A k \in 1 .. l - r : p[k] \in Nat BY <1>6, LenProperties
<1>10. front \in Seq(Nat) /\ Len(front) = n /\ \A k \in 1 .. n : front[k] = p[k]
  <2>1. \A k \in 1 .. n : p[k] \in Nat BY <1>1, <1>2, <1>9
  <2> QED BY <1>2, <2>1, SubSeqProperties
<1> HIDE DEF front
<1>11. /\ front \o tail \in Seq(Nat) /\ Len(front \o tail) = l - r
       /\ \A k \in 1 .. l - r : (front \o tail)[k] = IF k <= n THEN front[k] ELSE tail[k - n]
  <2>1. n + (l - (r + n)) = l - r BY <1>1, <1>2
  <2>2. /\ front \o tail \in Seq(Nat) /\ Len(front \o tail) = Len(front) + Len(tail)
        /\ \A k \in 1 .. Len(front) + Len(tail) :
              (front \o tail)[k] = IF k <= Len(front) THEN front[k] ELSE tail[k - Len(front)]
    <3>1. front \in Seq(Nat) /\ tail \in Seq(Nat) BY <1>5, <1>10
    <3> QED BY <3>1, ConcatProperties
  <2>3. Len(front) = n /\ Len(front) + Len(tail) = l - r BY <1>5, <1>10, <2>1
  <2> QED BY <2>2, <2>3
<1>12. ASSUME NEW k \in 1 .. l - r PROVE (front \o tail)[k] = p[k]
  <2>1. CASE k <= n BY <2>1, <1>2, <1>10, <1>11
  <2>2. CASE ~(k <= n)
    <3>1. k - n \in 1 .. l - (r + n) /\ r + n + (k - n) = r + k BY <2>2, <1>1, <1>2
    <3>2. tail[k - n] = a[r + k] BY <3>1, <1>5
    <3> QED BY <2>2, <3>2, <1>6, <1>11
  <2> QED BY <2>1, <2>2
<1>13. front \o tail = p BY <1>6, <1>11, <1>12, SeqEqual
<1> QED BY <1>5, <1>7, <1>8, <1>10, <1>13 DEF front, u

-----------------------------------------------------------------------------
(* ingest and drain on the sender's segments                               *)

(* Where next_seq stands after bytes off .. off+n-1 when it stood at no.   *)
Advance(no, off, n) == IF off <= no /\ no < off + n THEN off + n ELSE no

(* What is offered to the reader is a sequence of bytes.                   *)
LEMMA PeekType ==
    ASSUME NEW t \in Structs
    PROVE  Peek(t) \in Seq(Nat)
BY TailType DEF Peek, Structs

(* Nothing appended.                                                       *)
LEMMA AppendedNone ==
    ASSUME NEW t \in Structs, NEW u, Readable(t), NEW i, NEW no \in Nat,
           t.next_seq = Num(i, no), SameControl(u, t), u.next_seq = t.next_seq,
           u.assembled = t.assembled, u.read_pos = t.read_pos
    PROVE  Appended(u, t, i, no, no)
<1>1. Peek(t) \o <<>> = Peek(t) BY PeekType, ConcatEmptySeq
<1>2. no - no = 0 /\ Slice(no, 0) = <<>> BY SliceNone
<1>3. Peek(u) = Peek(t) BY DEF Peek
<1> QED BY <1>1, <1>2, <1>3 DEF Appended, Readable

(* How the code's comparisons read for bytes off and no.                   *)
Faithful(i, no, off) ==
    /\ SeqDiff(Num(i, off), Num(i, no)) = off - no
    /\ off <= no => U32(Num(i, no) - Num(i, off)) = no - off
    /\ Num(i, off) = Num(i, no) <=> off = no

(* They read so when the bytes are near each other.                        *)
LEMMA NearNumbers ==
    ASSUME NEW i \in Int, NEW no \in Int, NEW off \in Int,
           off - no <= Reach, no - off <= Reach + 1
    PROVE  Faithful(i, no, off)
<1>1. off - no < SeqSpace \div 2 /\ no - off <= SeqSpace \div 2 BY ReachFits
<1>2. SeqDiff(Num(i, off), Num(i, no)) = off - no BY <1>1, NumDiff
<1>3. off - no < SeqSpace /\ no - off < SeqSpace /\ -SeqSpace <= no - off BY <1>1, ReachFits
<1>4. Num(i, off) = Num(i, no) => off = no BY <1>3, NumInjective
<1>5. U32(Num(i, no) - Num(i, off)) = IF no >= off THEN no - off ELSE no - off + SeqSpace
  BY <1>3, NumDistance
<1>6. off <= no => no >= off OBVIOUS
<1> QED BY <1>2, <1>4, <1>5, <1>6 DEF Faithful

(* ingest appends bytes and drains when the segment starts at no, or       *)
(* starts before it and reaches past it.                                   *)
LEMMA DrainsWhen ==
    ASSUME NEW t, t.keep_payload, NEW i \in Int, NEW no \in Int, NEW off \in Int,
           NEW seq, seq = Num(i, off), NEW span, NEW n \in Nat, Len(span) = n,
           t.next_seq = Num(i, no), off - no <= Reach, no - off <= Reach + 1,
           off <= no, off = no \/ no < off + n
    PROVE  Drains(t, seq, span)
<1>0. Faithful(i, no, off) BY NearNumbers
<1>1. /\ SeqDiff(seq, t.next_seq) = off - no
      /\ off <= no => U32(t.next_seq - seq) = no - off
      /\ seq = t.next_seq <=> off = no
  BY <1>0 DEF Faithful
<1>2. off = no \/ (off - no < 0 /\ no - off < n) OBVIOUS
<1> QED BY <1>1, <1>2 DEF Drains

(* And only then.                                                          *)
LEMMA DrainsOnlyWhen ==
    ASSUME NEW t, NEW i \in Int, NEW no \in Int, NEW off \in Int,
           NEW seq, seq = Num(i, off), NEW span, NEW n \in Nat, Len(span) = n,
           t.next_seq = Num(i, no), off - no <= Reach, no - off <= Reach + 1,
           Drains(t, seq, span)
    PROVE  off <= no /\ (off = no \/ no < off + n)
<1>0. Faithful(i, no, off) BY NearNumbers
<1>1. /\ SeqDiff(seq, t.next_seq) = off - no
      /\ off <= no => U32(t.next_seq - seq) = no - off
      /\ seq = t.next_seq <=> off = no
  BY <1>0 DEF Faithful
<1>2. off = no \/ (off - no < 0 /\ U32(t.next_seq - seq) < n) BY <1>1 DEF Drains
<1> QED BY <1>1, <1>2

(* ingest leaves t as it is, without drain.                                *)
Ignored(t, seq, span, n) == /\ Ingest(t, seq, span) = t
                            /\ ~Drains(t, seq, span) /\ ~PastLimit(t, seq, n)

(* A segment of bytes that were all taken before, or a repeated SYN        *)
(* without payload: ingest does nothing.                                   *)
LEMMA IngestBehind ==
    ASSUME NEW t, NEW i \in Int, NEW no \in Int, NEW off \in Int,
           NEW seq, seq = Num(i, off), NEW span, NEW n \in Nat, Len(span) = n,
           t.next_seq = Num(i, no), no - off <= Reach + 1, off < no, off + n <= no
    PROVE  Ignored(t, seq, span, n)
<1>0. off - no <= Reach BY ReachFits
<1>7. Faithful(i, no, off) BY <1>0, NearNumbers
<1>8. off <= no /\ off # no OBVIOUS
<1>1. /\ SeqDiff(seq, t.next_seq) = off - no
      /\ U32(t.next_seq - seq) = no - off
      /\ seq # t.next_seq
  BY <1>7, <1>8 DEF Faithful
<1>3. ~(off - no > 0) /\ ~(no - off < n) OBVIOUS
<1>2. ~Drains(t, seq, span) BY <1>1, <1>3 DEF Drains
<1>4. ~PastLimit(t, seq, n) BY <1>1, <1>3 DEF PastLimit
<1>5. CountOnly(t, seq, span) = t BY <1>1, <1>3 DEF CountOnly
<1>6. Ingest(t, seq, span) = t BY <1>1, <1>2, <1>3, <1>5 DEF Ingest
<1> QED BY <1>2, <1>4, <1>6 DEF Ignored

(* Without payload kept, next_seq moves over what extends it.              *)
LEMMA IngestCount ==
    ASSUME NEW t \in Structs, ~t.keep_payload, Readable(t),
           NEW i \in Int, NEW no \in Nat, NEW off \in Nat,
           NEW n \in Nat, t.next_seq = Num(i, no), no - off <= Reach, off - no <= Reach
    PROVE  LET u == Ingest(t, Num(i, off), Slice(off, n))
           IN  /\ SameControl(u, t) /\ u.next_seq = Num(i, Advance(no, off, n))
               /\ u.out_of_order = t.out_of_order
               /\ u.assembled = t.assembled /\ u.read_pos = t.read_pos
               /\ ~Drains(t, Num(i, off), Slice(off, n))
               /\ ~PastLimit(t, Num(i, off), n)
<1> DEFINE seq  == Num(i, off)
           span == Slice(off, n)
           u    == Ingest(t, seq, span)
<1>0. Len(span) = n BY SliceType
<1>1. /\ SeqDiff(seq, Num(i, no)) = off - no
      /\ off <= no => U32(Num(i, no) - seq) = no - off
      /\ seq = Num(i, no) <=> off = no
  <2>1. no - off <= Reach + 1 BY ReachFits
  <2>2. no \in Int /\ off \in Int OBVIOUS
  <2>3. Faithful(i, no, off) BY <2>1, <2>2, NearNumbers
  <2> QED BY <2>3 DEF Faithful
<1>2. u = CountOnly(t, seq, span) BY DEF Ingest
<1>3. CASE off <= no /\ (off = no \/ no < off + n)
  <2>1. U32(Num(i, no) - seq) = no - off BY <1>1, <1>3
  <2>2. off - no <= 0 /\ (seq = Num(i, no) \/ no - off < n) BY <1>1, <1>3
  <2>3. u = [t EXCEPT !.next_seq = U32(@ + n - (no - off))]
    <3> HIDE DEF seq, span
    <3> QED BY <1>0, <1>1, <1>2, <2>1, <2>2 DEF CountOnly
  <2>4. U32(t.next_seq + n - (no - off)) = Num(i, off + n)
    <3> DEFINE d == n - (no - off)
    <3>1. d \in Int /\ no + d = off + n OBVIOUS
    <3>2. Num(i, no) \in Int
      <4>1. i + 1 + no \in Int OBVIOUS
      <4> QED BY <4>1, U32Type, SeqSpaceAssumption DEF Num, SeqNumbers
    <3>3. t.next_seq + n - (no - off) = Num(i, no) + d BY <3>2
    <3> HIDE DEF d
    <3>4. U32(Num(i, no) + d) = Num(i, no + d) BY <3>1, NumShift
    <3> QED BY <3>1, <3>3, <3>4
  <2>5. Advance(no, off, n) = off + n BY <1>3 DEF Advance
  <2>6. u = [t EXCEPT !.next_seq = Num(i, off + n)] BY <2>3, <2>4 DEF Structs
  <2> HIDE DEF u
  <2>7. /\ SameControl(u, t) /\ u.next_seq = Num(i, Advance(no, off, n))
        /\ u.out_of_order = t.out_of_order /\ u.assembled = t.assembled /\ u.read_pos = t.read_pos
    BY <2>5, <2>6 DEF SameControl, Structs
  <2> QED BY <2>7 DEF u, Drains, PastLimit
<1>4. CASE ~(off <= no /\ (off = no \/ no < off + n))
  <2>1. ~(off - no <= 0 /\ (seq = Num(i, no) \/ U32(Num(i, no) - seq) < n))
    <3>1. CASE off <= no BY <1>1, <1>4, <3>1
    <3>2. CASE ~(off <= no) BY <3>2
    <3> QED BY <3>1, <3>2
  <2>2. u = t
    <3> HIDE DEF seq, span
    <3> QED BY <1>0, <1>1, <1>2, <2>1 DEF CountOnly
  <2>3. Advance(no, off, n) = no BY <1>4 DEF Advance
  <2> HIDE DEF u
  <2>4. /\ SameControl(u, t) /\ u.next_seq = Num(i, Advance(no, off, n))
        /\ u.out_of_order = t.out_of_order /\ u.assembled = t.assembled /\ u.read_pos = t.read_pos
    BY <2>2, <2>3 DEF SameControl
  <2> QED BY <2>4 DEF u, Drains, PastLimit
<1> QED BY <1>3, <1>4

(* The captured bytes after a segment of n bytes from off on.              *)
Capturing(t, i, off, n, cap) ==
    IF PastLimit(t, Num(i, off), n) THEN cap ELSE cap \cup Stretch(off, n)

(* With payload kept: what extends the stream is appended and a drain      *)
(* begins, what is ahead of it is buffered, what is behind is ignored.     *)
LEMMA IngestKeep ==
    ASSUME NEW t \in Structs, t.keep_payload, Readable(t), NEW i \in Int, NEW no \in Nat,
           t.next_seq = Num(i, no), NEW cap, Buffer(t.out_of_order, i, 0, no, cap, FALSE),
           NEW off \in Nat, NEW n \in 0 .. MaxSegment, off + n <= StreamLen,
           no - off <= Reach, off + n - no <= Reach
    PROVE  LET span == Slice(off, n)
               u    == Ingest(t, Num(i, off), span)
               to   == Advance(no, off, n)
           IN  /\ Appended(u, t, i, no, to)
               /\ Buffer(u.out_of_order, i, 0, to, Capturing(t, i, off, n, cap),
                         Drains(t, Num(i, off), span))
               /\ Stretch(no, to - no) \subseteq Capturing(t, i, off, n, cap)
<1> DEFINE seq  == Num(i, off)
           span == Slice(off, n)
           u    == Ingest(t, seq, span)
           to   == Advance(no, off, n)
           cap2 == Capturing(t, i, off, n, cap)
<1>0. n \in Nat /\ off - no <= Reach /\ no - off <= Reach + 1 BY ReachFits
<1>1. span \in Seq(Nat) /\ Len(span) = n BY <1>0, SliceType
<1>2. /\ SeqDiff(seq, t.next_seq) = off - no
      /\ off <= no => U32(t.next_seq - seq) = no - off
      /\ seq = t.next_seq <=> off = no
  <2>1. no \in Int /\ off \in Int OBVIOUS
  <2>2. Faithful(i, no, off) BY <1>0, <2>1, NearNumbers
  <2> QED BY <2>2 DEF Faithful
<1>3. Drains(t, seq, span) <=> off <= no /\ (off = no \/ no < off + n)
  <2>1. no \in Int /\ off \in Int /\ seq = Num(i, off) OBVIOUS
  <2> HIDE DEF span, seq
  <2>2. Drains(t, seq, span) => off <= no /\ (off = no \/ no < off + n)
    BY <1>0, <1>1, <2>1, DrainsOnlyWhen
  <2>3. off <= no /\ (off = no \/ no < off + n) => Drains(t, seq, span)
    BY <1>0, <1>1, <2>1, DrainsWhen
  <2> QED BY <2>2, <2>3
<1>4. Stretch(off, n) \in SUBSET Nat BY <1>0 DEF Stretch
<1>5. PICK offs \in [1 .. Len(t.out_of_order) -> 0 .. StreamLen],
           size \in [1 .. Len(t.out_of_order) -> 0 .. MaxSegment] :
         /\ Pieces(t.out_of_order, i, offs, size)
         /\ Chain(Len(t.out_of_order), offs, size, 0, no, cap, FALSE)
  BY DEF Buffer
<1>6. Len(t.out_of_order) \in Nat BY DataLen
<1>7. CASE Drains(t, seq, span)
  <2>1. off <= no /\ (off = no \/ no < off + n) BY <1>3, <1>7
  <2>2. to = off + n /\ no <= to /\ to - no <= MaxSegment /\ to \in Nat
    BY <1>0, <2>1, ReachFits DEF Advance
  <2>3. u = Assemble(t, span, no - off)
    <3> HIDE DEF seq, span
    <3> QED BY <1>2, <1>7, <2>1 DEF Ingest
  <2>4. Appended(u, t, i, no, to) /\ u.out_of_order = t.out_of_order
    <3>1. no - off \in 0 .. n /\ off + (no - off) = no BY <1>0, <2>1
    <3> DEFINE skip == no - off
    <3> HIDE DEF skip
    <3>2. skip \in 0 .. n /\ off + skip = no BY <3>1 DEF skip
    <3>3. u = Assemble(t, Slice(off, n), skip) BY <2>3 DEF skip
    <3> HIDE DEF u, to
    <3>4. Extended(u, t, i, no, to) BY <1>0, <2>2, <3>2, <3>3, AssembleView
    <3> QED BY <3>4 DEF Extended
  <2>5. cap2 = cap \cup Stretch(off, n)
    <3>1. ~(off - no > 0) BY <2>1
    <3>2. ~PastLimit(t, seq, n) BY <1>2, <3>1 DEF PastLimit
    <3> QED BY <3>2 DEF Capturing
  <2>6. Chain(Len(t.out_of_order), offs, size, 0, to, cap \cup Stretch(off, n), TRUE)
    <3>1. \A b \in Stretch(off, n) : b < to BY <1>0, <2>2 DEF Stretch
    <3> HIDE DEF to
    <3> QED BY <1>4, <1>5, <1>6, <2>2, <3>1, ChainAdvance
  <2>7. Buffer(u.out_of_order, i, 0, to, cap2, TRUE)
    <3> HIDE DEF u, to
    <3> QED BY <1>5, <2>4, <2>5, <2>6 DEF Buffer
  <2>8. Stretch(no, to - no) \subseteq Stretch(off, n)
    <3> HIDE DEF to
    <3> QED BY <1>0, <2>1, <2>2 DEF Stretch
  <2>9. Appended(u, t, i, no, to) BY <2>4
  <2>10. Buffer(u.out_of_order, i, 0, to, cap2, Drains(t, seq, span))
    <3>1. Drains(t, seq, span) = TRUE BY <1>7 DEF Drains
    <3> HIDE DEF u, to, cap2
    <3> QED BY <2>7, <3>1
  <2> HIDE DEF u, to, cap2
  <2>11. Stretch(no, to - no) \subseteq cap2 BY <2>5, <2>8
  <2> QED BY <2>9, <2>10, <2>11 DEF u, to, cap2
<1>8. ASSUME ~Drains(t, seq, span), BufferOnly(u, t),
             Buffer(u.out_of_order, i, 0, no, cap2, FALSE)
      PROVE  /\ Appended(u, t, i, no, to)
             /\ Buffer(u.out_of_order, i, 0, to, cap2, Drains(t, seq, span))
             /\ Stretch(no, to - no) \subseteq cap2
  <2>1. to = no BY <1>0, <1>3, <1>8 DEF Advance
  <2>2. SameControl(u, t) /\ u.next_seq = t.next_seq /\ u.assembled = t.assembled
        /\ u.read_pos = t.read_pos
    BY <1>8 DEF BufferOnly, SameControl
  <2>3. Drains(t, seq, span) = FALSE BY <1>8 DEF Drains
  <2> HIDE DEF u, to, cap2
  <2>4. Appended(u, t, i, no, no) BY <1>8, <2>2, AppendedNone
  <2>5. Stretch(no, to - no) = {} BY <2>1 DEF Stretch
  <2> QED BY <1>8, <2>1, <2>3, <2>4, <2>5
<1>9. CASE ~Drains(t, seq, span) /\ off > no
  <2>1. off - no > 0 BY <1>9
  <2>2. u = BufferAhead(t, seq, span)
    <3> HIDE DEF seq, span
    <3> QED BY <1>2, <1>9, <2>1 DEF Ingest
  <2>3. /\ BufferOnly(u, t) /\ Buffer(u.out_of_order, i, 0, no, cap2, FALSE)
    <3>1. no < off BY <1>9
    <3>2. /\ BufferOnly(BufferAhead(t, Num(i, off), Slice(off, n)), t)
          /\ Buffer(BufferAhead(t, Num(i, off), Slice(off, n)).out_of_order, i, 0, no,
                    IF PastLimit(t, Num(i, off), n) THEN cap ELSE cap \cup Stretch(off, n), FALSE)
      BY <1>0, <3>1, BufferAheadStep
    <3> QED BY <2>2, <3>2 DEF Capturing
  <2> HIDE DEF u, to, cap2
  <2> QED BY <1>8, <1>9, <2>3 DEF u, to, cap2
<1>10. CASE ~Drains(t, seq, span) /\ ~(off > no)
  <2>1. off < no /\ off + n <= no BY <1>0, <1>3, <1>10
  <2>2. u = t /\ ~PastLimit(t, seq, n)
    <3>1. no \in Int /\ off \in Int /\ seq = Num(i, off) OBVIOUS
    <3> HIDE DEF span, seq
    <3>2. Ignored(t, seq, span, n) BY <1>0, <1>1, <2>1, <3>1, IngestBehind
    <3> QED BY <3>2 DEF Ignored
  <2>3. cap2 = cap \cup Stretch(off, n) BY <2>2 DEF Capturing
  <2>4. \A b \in Stretch(off, n) : b < no BY <1>0, <2>1 DEF Stretch
  <2>5. Chain(Len(t.out_of_order), offs, size, 0, no, cap \cup Stretch(off, n), FALSE)
    BY <1>4, <1>5, <1>6, <2>4, ChainCapture
  <2>6. BufferOnly(u, t) BY <2>2 DEF BufferOnly
  <2> HIDE DEF u, to, cap2
  <2>7. Buffer(u.out_of_order, i, 0, no, cap2, FALSE) BY <1>5, <2>2, <2>3, <2>5 DEF Buffer
  <2> QED BY <1>8, <1>10, <2>2, <2>6, <2>7 DEF u, to, cap2
<1> QED BY <1>7, <1>9, <1>10

(* One turn of drain's loop on a chain.                                    *)
LEMMA DrainStepView ==
    ASSUME NEW t \in Structs, Readable(t), NEW i \in Int, NEW no \in Nat,
           t.next_seq = Num(i, no), NEW cap, NEW lo \in Nat, Accounted(t, lo),
           Buffer(t.out_of_order, i, lo, no, cap, TRUE), DrainContinues(t, lo)
    PROVE  \E to \in Nat :
              LET u == DrainStep(t, lo)
              IN  /\ Appended(u, t, i, no, to) /\ u.out_of_order = t.out_of_order
                  /\ Buffer(t.out_of_order, i, lo + 1, to, cap, TRUE)
                  /\ Stretch(no, to - no) \subseteq cap
                  /\ to = no \/ (no < to /\ to <= StreamLen /\ to - no <= Reach)
<1> DEFINE ooo == t.out_of_order
           m   == Len(ooo)
           u   == DrainStep(t, lo)
<1>0. m \in Nat /\ lo \in 0 .. m - 1 /\ lo + 1 \in 1 .. m
  BY DataLen DEF DrainContinues
<1>1. PICK offs \in [1 .. m -> 0 .. StreamLen], size \in [1 .. m -> 0 .. MaxSegment] :
         Pieces(ooo, i, offs, size) /\ Chain(m, offs, size, lo, no, cap, TRUE)
  BY DEF Buffer
<1> DEFINE o == offs[lo + 1]
           n == size[lo + 1]
<1>2. o \in Nat /\ n \in Nat /\ n <= MaxSegment BY <1>0, ReachFits
<1>3. /\ ooo[lo + 1].seq = Num(i, o) /\ ooo[lo + 1].data = Slice(o, n)
      /\ Len(ooo[lo + 1].data) = n
  <2>1. ooo[lo + 1] = Piece(i, o, n) BY <1>0, <1>1 DEF Pieces
  <2> HIDE DEF o, n
  <2> QED BY <1>2, <2>1, PieceFields
<1>4. o - no <= Reach /\ no - o <= Reach
  <2>1. lo + 1 \in lo + 1 .. m BY <1>0
  <2> QED BY <1>1, <2>1 DEF Chain, Ahead
<1>5. o + n <= StreamLen /\ Stretch(o, n) \subseteq cap
  BY <1>0, <1>1 DEF Chain, Ascending, Holds
<1> HIDE DEF o, n
<1>6. /\ SeqDiff(Num(i, o), Num(i, no)) = o - no
      /\ o <= no => U32(Num(i, no) - Num(i, o)) = no - o
  <2>1. no - o <= Reach + 1 BY <1>2, <1>4, ReachFits
  <2>2. no \in Int /\ o \in Int BY <1>2
  <2>3. Faithful(i, no, o) BY <1>4, <2>1, <2>2, NearNumbers
  <2> QED BY <2>3 DEF Faithful
<1>7. o <= no
  <2>1. SeqDiff(ooo[lo + 1].seq, t.next_seq) <= 0 BY DEF DrainContinues
  <2>2. o - no <= 0 BY <1>3, <1>6, <2>1
  <2> QED BY <1>2, <2>2
<1>8. U32(t.next_seq - ooo[lo + 1].seq) = no - o BY <1>3, <1>6, <1>7
<1> DEFINE to    == IF no - o < n THEN o + n ELSE no
           freed == [t EXCEPT !.ooo_bytes = @ - Len(ooo[lo + 1].data)]
<1>9. to \in Nat /\ no <= to BY <1>2, <1>7
<1>10. Chain(m, offs, size, lo + 1, to, cap, TRUE)
  <2> HIDE DEF m, ooo
  <2> QED BY <1>0, <1>1, <1>7, <1>9, ChainDrain DEF o, n
<1>11. Buffer(t.out_of_order, i, lo + 1, to, cap, TRUE)
  <2> HIDE DEF to
  <2> QED BY <1>1, <1>10 DEF Buffer
<1>12. to = no \/ (no < to /\ to <= StreamLen /\ to - no <= Reach)
  BY <1>2, <1>5, <1>7, ReachFits
<1>13. Stretch(no, to - no) \subseteq cap
  <2>1. Stretch(no, to - no) \subseteq Stretch(o, n) BY <1>2, <1>7 DEF Stretch
  <2> QED BY <1>5, <2>1
<1>14. u = IF no - o < n THEN Assemble(freed, Slice(o, n), no - o) ELSE freed
  <2> HIDE DEF freed
  <2> QED BY <1>3, <1>8 DEF DrainStep, freed
<1>15. /\ freed \in Structs /\ freed.out_of_order = ooo
       /\ freed.next_seq = Num(i, no) /\ SameControl(freed, t)
       /\ freed.assembled = t.assembled /\ freed.read_pos = t.read_pos
       /\ Readable(freed) /\ Peek(freed) = Peek(t)
  <2>1. PICK rem : rem \in SuffixSums(t) /\ t.ooo_bytes = rem[lo] BY DEF Accounted
  <2>2. /\ rem \in [0 .. m -> 0 .. MAX_OOO_BYTES]
        /\ rem[lo] = rem[lo + 1] + Len(ooo[lo + 1].data)
    BY <1>0, <2>1 DEF SuffixSums
  <2>3. rem[lo + 1] \in Nat /\ rem[lo] \in Nat BY <1>0, <2>2, LimitsAssumption
  <2>4. t.ooo_bytes - Len(ooo[lo + 1].data) \in Nat BY <1>2, <1>3, <2>1, <2>2, <2>3
  <2> QED BY <2>4 DEF Structs, SameControl, Readable, Peek
<1>16. CASE no - o < n
  <2> DEFINE skip == no - o
  <2>1. skip \in 0 .. n /\ o + skip = no BY <1>2, <1>7, <1>16
  <2> HIDE DEF skip, freed
  <2>2. u = Assemble(freed, Slice(o, n), skip) /\ to = o + n BY <1>14, <1>16 DEF skip
  <2> HIDE DEF u, to
  <2>3. Extended(u, freed, i, no, to) BY <1>2, <1>15, <2>1, <2>2, AssembleView
  <2>4. Appended(u, t, i, no, to) /\ u.out_of_order = t.out_of_order
    BY <1>15, <2>3 DEF Extended, Appended, SameControl
  <2> QED BY <1>9, <1>11, <1>12, <1>13, <2>4 DEF u
<1>17. CASE ~(no - o < n)
  <2>1. u = freed /\ to = no BY <1>14, <1>17
  <2> HIDE DEF u, to, freed
  <2>2. Appended(u, t, i, no, no) BY <1>15, <2>1, AppendedNone
  <2> QED BY <1>9, <1>11, <1>12, <1>13, <1>15, <2>1, <2>2 DEF u
<1> QED BY <1>16, <1>17

(* The erase after the loop.                                               *)
LEMMA DrainEraseView ==
    ASSUME NEW t \in Structs, NEW i \in Int, NEW no \in Nat,
           t.next_seq = Num(i, no), NEW cap, NEW lo \in 0 .. Len(t.out_of_order),
           Buffer(t.out_of_order, i, lo, no, cap, TRUE), ~DrainContinues(t, lo)
    PROVE  LET u == DrainErase(t, lo)
           IN  BufferOnly(u, t) /\ Buffer(u.out_of_order, i, 0, no, cap, FALSE)
<1> DEFINE ooo == t.out_of_order
           m   == Len(ooo)
           u   == DrainErase(t, lo)
<1>0. m \in Nat /\ lo \in Nat /\ lo <= m BY DataLen
<1>1. PICK offs \in [1 .. m -> 0 .. StreamLen], size \in [1 .. m -> 0 .. MaxSegment] :
         Pieces(ooo, i, offs, size) /\ Chain(m, offs, size, lo, no, cap, TRUE)
  BY DEF Buffer
<1>2. lo < m => no < offs[lo + 1]
  <2>0. HAVE lo < m
  <2> DEFINE o == offs[lo + 1]
  <2>1. lo + 1 \in 1 .. m /\ lo + 1 \in lo + 1 .. m BY <1>0, <2>0
  <2>2. o \in Nat /\ size[lo + 1] \in Nat BY <2>1, ReachFits
  <2>3. ooo[lo + 1].seq = Num(i, o) BY <1>1, <2>1, <2>2, PieceFields DEF Pieces
  <2>4. o - no <= Reach /\ no - o <= Reach BY <1>1, <2>1 DEF Chain, Ahead
  <2> HIDE DEF o
  <2>5. SeqDiff(Num(i, o), Num(i, no)) = o - no
    <3>1. no - o <= Reach + 1 BY <2>2, <2>4, ReachFits
    <3>2. no \in Int /\ o \in Int BY <2>2
    <3>3. Faithful(i, no, o) BY <2>4, <3>1, <3>2, NearNumbers
    <3> QED BY <3>3 DEF Faithful
  <2>6. ~(o - no <= 0) BY <2>0, <2>3, <2>5 DEF DrainContinues
  <2>7. no < o BY <2>2, <2>6
  <2> QED BY <2>7 DEF o
<1> DEFINE o2 == WithoutFirst(offs, m, lo)
           s2 == WithoutFirst(size, m, lo)
<1>3. Chain(m - lo, o2, s2, 0, no, cap, FALSE)
  <2> DEFINE k2 == m - lo
  <2>1. o2 = WithoutFirst(offs, m, lo) /\ s2 = WithoutFirst(size, m, lo) OBVIOUS
  <2>2. lo \in 0 .. m OBVIOUS
  <2>3. Chain(m, offs, size, lo, no, cap, TRUE) BY <1>1
  <2> HIDE DEF m, ooo, o2, s2
  <2>4. k2 = m - lo OBVIOUS
  <2> HIDE DEF k2
  <2>5. Chain(k2, o2, s2, 0, no, cap, FALSE)
    BY <1>0, <1>2, <2>1, <2>2, <2>3, <2>4, ChainErase
  <2> QED BY <2>4, <2>5
<1>4. u.out_of_order = SubSeq(ooo, lo + 1, m) /\ BufferOnly(u, t)
  BY DEF DrainErase, Structs, BufferOnly
<1> HIDE DEF u
<1>5. /\ Len(u.out_of_order) = m - lo
      /\ \A k \in 1 .. m - lo : u.out_of_order[k] = ooo[k + lo]
  <2>1. ooo \in Seq(Segments) BY DEF Structs
  <2> QED BY <1>0, <1>4, <2>1, SubSeqProperties
<1>6. Pieces(u.out_of_order, i, o2, s2)
  <2>1. \A k \in 1 .. m - lo : k + lo \in 1 .. m BY <1>0
  <2>2. \A k \in 1 .. m - lo : ooo[k + lo] = Piece(i, offs[k + lo], size[k + lo])
    BY <1>1, <2>1 DEF Pieces
  <2> QED BY <1>5, <2>2 DEF Pieces, WithoutFirst
<1>7. o2 \in [1 .. m - lo -> 0 .. StreamLen] /\ s2 \in [1 .. m - lo -> 0 .. MaxSegment]
  <2> HIDE DEF o2, s2
  <2> QED BY <1>3 DEF Chain, Ascending
<1> HIDE DEF o2, s2
<1>8. Buffer(u.out_of_order, i, 0, no, cap, FALSE)
  BY <1>3, <1>5, <1>6, <1>7 DEF Buffer
<1> QED BY <1>4, <1>8 DEF u

-----------------------------------------------------------------------------
(* What a call finds and leaves                                            *)

(* The states in which this side's FIN has been processed.                 *)
FinStates == {"FinWait1", "FinWait2", "Closing", "LastAck", "TimeWait"}

(* The struct t of a stream whose SYN has number i and whose view starts   *)
(* at byte f: next_seq stands at byte no, k past the end when the FIN      *)
(* advanced it k times.                                                    *)
Standing(t, i, f, no, k) ==
    /\ t.next_seq = Num(i, no)
    /\ f <= no - k /\ no - k <= StreamLen /\ (k > 0 => no - k = StreamLen)

(* A FIN that is remembered is the sender's and has not been reached.      *)
FinKnown(t, i, no, k) ==
    t.fin_seen => k = 0 /\ t.fin_seq = Num(i, StreamLen) /\ StreamLen - no <= Reach

(* The state shows this side closed only at the end of the stream.         *)
Ended(t, no, k) == t.state \in FinStates => no - k = StreamLen

(* Bytes rd that were read and p that can be read are a of the stream from *)
(* byte f on.                                                              *)
Shows(rd, p, f, a) == rd \o p = Slice(f, a)

(* With payload kept: what was read and can be read is the stream from f   *)
(* to next_seq, and every captured byte (cap) from next_seq on is in the   *)
(* buffer, whose first lo segments a drain has been through.               *)
Kept(t, i, f, no, k, rd, cap, lo, draining) ==
    /\ Buffer(t.out_of_order, i, lo, no, cap, draining)
    /\ Shows(rd, Peek(t), f, no - k - f)

(* Without: only next_seq advances, and nothing is buffered or presented.  *)
Counted(t, rd, draining) ==
    t.out_of_order = <<>> /\ t.assembled = <<>> /\ rd = <<>> /\ ~draining

(* Where t stands, with every byte that next_seq has passed captured.      *)
Placed(t, i, f, no, k, cap) ==
    /\ Standing(t, i, f, no, k) /\ FinKnown(t, i, no, k) /\ Ended(t, no, k)
    /\ f .. no - k - 1 \subseteq cap

(* What holds of a seeded struct between any two steps.                    *)
Sound(t, i, f, no, k, rd, cap, lo, draining) ==
    /\ Readable(t) /\ Placed(t, i, f, no, k, cap)
    /\ IF t.keep_payload THEN Kept(t, i, f, no, k, rd, cap, lo, draining)
                         ELSE Counted(t, rd, draining)

(* Bytes are appended one after the other.                                 *)
LEMMA ConcatBytes == \A a, b, c \in Seq(Nat) : (a \o b) \o c = a \o (b \o c)
BY ConcatAssociative, SMT

(* One more stretch of the stream is appended.                             *)
LEMMA ViewGrows ==
    ASSUME NEW rd \in Seq(Nat), NEW p \in Seq(Nat), NEW q, NEW f \in Nat, NEW no \in Nat,
           NEW a \in Nat, NEW b \in Nat, NEW c, f + a = no, a + b = c,
           Shows(rd, p, f, a), q = p \o Slice(no, b)
    PROVE  Shows(rd, q, f, c)
<1> DEFINE s == Slice(no, b)
<1>1. s \in Seq(Nat) /\ q = p \o s BY SliceType
<1> HIDE DEF s
<1>2. (rd \o p) \o s = rd \o (p \o s) BY <1>1, ConcatBytes
<1>3. Slice(f, a) \o Slice(f + a, b) = Slice(f, a + b) BY SliceJoin
<1> QED BY <1>1, <1>2, <1>3 DEF s, Shows

(* Nothing is appended.                                                    *)
LEMMA ViewStays ==
    ASSUME NEW p \in Seq(Nat), NEW no \in Nat
    PROVE  p \o Slice(no, no - no) = p
<1>1. no - no = 0 /\ Slice(no, 0) = <<>> BY SliceNone
<1> QED BY <1>1, ConcatEmptySeq

(* next_seq moves over bytes that are captured.                            *)
LEMMA PlacedAdvance ==
    ASSUME NEW t, NEW u, NEW i, NEW f \in Nat, NEW no \in Nat, NEW k \in Nat,
           NEW cap, Placed(t, i, f, no, k, cap),
           NEW to \in Nat, to = no \/ (no < to /\ to <= StreamLen),
           SameControl(u, t), u.next_seq = Num(i, to), NEW cap2, cap \subseteq cap2,
           Stretch(no, to - no) \subseteq cap2
    PROVE  Placed(u, i, f, to, k, cap2)
<1>0. StreamLen \in Nat /\ Reach \in Nat BY ReachFits
<1>1. f <= no - k /\ no - k <= StreamLen /\ (k > 0 => no - k = StreamLen)
  BY DEF Placed, Standing
<1>3. k > 0 => to = no BY <1>0, <1>1
<1>4. Standing(u, i, f, to, k) BY <1>0, <1>1, <1>3 DEF Standing
<1>5. FinKnown(u, i, to, k)
  <2>1. u.fin_seen = t.fin_seen /\ u.fin_seq = t.fin_seq BY DEF SameControl
  <2>2. FinKnown(t, i, no, k) BY DEF Placed
  <2> QED BY <1>0, <2>1, <2>2 DEF FinKnown
<1>6. Ended(u, to, k)
  <2>1. u.state = t.state BY DEF SameControl
  <2>2. Ended(t, no, k) BY DEF Placed
  <2>3. no - k = StreamLen => to = no BY <1>0, <1>3
  <2> QED BY <2>1, <2>2, <2>3 DEF Ended
<1>7. f .. to - k - 1 \subseteq cap2
  <2>1. f .. no - k - 1 \subseteq cap BY DEF Placed
  <2>2. CASE k > 0
    <3>1. to = no BY <1>3, <2>2
    <3> QED BY <2>1, <3>1
  <2>3. CASE k = 0
    <3>1. f .. no - 1 \subseteq cap2 BY <2>1, <2>3
    <3>2. no .. to - 1 \subseteq cap2
      <4>1. no + (to - no) - 1 = to - 1 OBVIOUS
      <4> QED BY <4>1 DEF Stretch
    <3>3. \A b \in f .. to - 1 : b \in f .. no - 1 \/ b \in no .. to - 1 OBVIOUS
    <3>4. to - k - 1 = to - 1 BY <2>3
    <3> QED BY <3>1, <3>2, <3>3, <3>4
  <2> QED BY <2>2, <2>3
<1> QED BY <1>4, <1>5, <1>6, <1>7 DEF Placed

(* The bytes it moves over are appended: the struct is as sound as before. *)
LEMMA SoundAdvance ==
    ASSUME NEW t \in Structs, NEW u, NEW i, NEW f \in Nat, NEW no \in Nat, NEW k \in Nat,
           NEW rd \in Seq(Nat), NEW cap, NEW lo, NEW draining, 
           Sound(t, i, f, no, k, rd, cap, lo, draining), t.keep_payload,
           NEW to \in Nat, to = no \/ (no < to /\ to <= StreamLen),
           Appended(u, t, i, no, to), NEW cap2, cap \subseteq cap2,
           Stretch(no, to - no) \subseteq cap2, NEW lo2, NEW draining2,
           Buffer(u.out_of_order, i, lo2, to, cap2, draining2)
    PROVE  Sound(u, i, f, to, k, rd, cap2, lo2, draining2)
<1>1. Placed(t, i, f, no, k, cap) /\ Shows(rd, Peek(t), f, no - k - f) BY DEF Sound, Kept
<1>2. /\ Readable(u) /\ SameControl(u, t) /\ u.next_seq = Num(i, to)
      /\ Peek(u) = Peek(t) \o Slice(no, to - no)
  BY DEF Appended
<1>3. Placed(u, i, f, to, k, cap2) BY <1>1, <1>2, PlacedAdvance
<1>8. Shows(rd, Peek(u), f, to - k - f)
  <2>2. Peek(t) \in Seq(Nat) BY PeekType
  <2>3. CASE to = no
    <3>1. Peek(u) = Peek(t) BY <1>2, <2>2, <2>3, ViewStays
    <3> QED BY <1>1, <2>3, <3>1
  <2>4. CASE to # no
    <3>1. k = 0 /\ no < to
      <4>1. k > 0 => no - k = StreamLen BY <1>1 DEF Placed, Standing
      <4> QED BY <2>4, <4>1, ReachFits
    <3>2. no - k - f = no - f /\ to - k - f = to - f /\ f <= no /\ no <= to
      <4>1. f <= no - k BY <1>1 DEF Placed, Standing
      <4> QED BY <3>1, <4>1
    <3>3. Shows(rd, Peek(t), f, no - f) BY <1>1, <3>2
    <3> DEFINE p == Peek(t)
               q == Peek(u)
               a == no - f
               b == to - no
               c == to - f
    <3>4. Shows(rd, q, f, to - f)
      <4>1. p \in Seq(Nat) /\ Shows(rd, p, f, a) /\ q = p \o Slice(no, b)
        BY <1>2, <2>2, <3>3
      <4>2. a \in Nat /\ b \in Nat /\ f + a = no /\ a + b = c BY <3>2
      <4> HIDE DEF p, q, a, b, c
      <4>3. Shows(rd, q, f, c) BY <4>1, <4>2, ViewGrows
      <4> QED BY <4>3 DEF c
    <3> QED BY <3>2, <3>4
  <2> QED BY <2>3, <2>4
<1>9. u.keep_payload BY <1>2 DEF SameControl
<1>10. Kept(u, i, f, to, k, rd, cap2, lo2, draining2) BY <1>8 DEF Kept
<1> QED BY <1>2, <1>3, <1>9, <1>10 DEF Sound

(* ingest, up to its call of drain, on a segment of the stream.            *)
LEMMA IngestSound ==
    ASSUME NEW t \in Structs, NEW i \in Int, NEW f \in Nat, NEW no \in Nat, NEW k \in Nat,
           NEW rd \in Seq(Nat), NEW cap, Sound(t, i, f, no, k, rd, cap, 0, FALSE),
           NEW off \in Nat, NEW n \in 0 .. MaxSegment, off + n <= StreamLen,
           no - off <= Reach, off + n - no <= Reach,
           NEW seq, seq = Num(i, off), NEW span, span = Slice(off, n),
           NEW u, u = Ingest(t, seq, span), NEW to, to = Advance(no, off, n),
           NEW cap2, cap2 = Capturing(t, i, off, n, cap), NEW dr, dr = Drains(t, seq, span)
    PROVE  Sound(u, i, f, to, k, rd, cap2, 0, dr)
<1>0. n \in Nat /\ n <= MaxSegment /\ StreamLen \in Nat /\ off - no <= Reach BY ReachFits
<1>1. to \in Nat /\ (to = no \/ (no < to /\ to <= StreamLen)) BY <1>0 DEF Advance
<1>2. t.next_seq = Num(i, no) /\ Readable(t) BY DEF Sound, Placed, Standing
<1>3. cap \subseteq cap2 BY DEF Capturing
<1>4. CASE t.keep_payload
  <2>1. Buffer(t.out_of_order, i, 0, no, cap, FALSE) BY <1>4 DEF Sound, Kept
  <2>2. LET sp == Slice(off, n)
            v  == Ingest(t, Num(i, off), sp)
            w  == Advance(no, off, n)
        IN  /\ Appended(v, t, i, no, w)
            /\ Buffer(v.out_of_order, i, 0, w, Capturing(t, i, off, n, cap),
                      Drains(t, Num(i, off), sp))
            /\ Stretch(no, w - no) \subseteq Capturing(t, i, off, n, cap)
    BY <1>2, <1>4, <2>1, IngestKeep
  <2>3. /\ Appended(u, t, i, no, to) /\ Buffer(u.out_of_order, i, 0, to, cap2, dr)
        /\ Stretch(no, to - no) \subseteq cap2
    BY <2>2
  <2> QED BY <1>1, <1>3, <1>4, <2>3, SoundAdvance
<1>5. CASE ~t.keep_payload
  <2>1. LET v == Ingest(t, Num(i, off), Slice(off, n))
        IN  /\ SameControl(v, t) /\ v.next_seq = Num(i, Advance(no, off, n))
            /\ v.out_of_order = t.out_of_order
            /\ v.assembled = t.assembled /\ v.read_pos = t.read_pos
            /\ ~Drains(t, Num(i, off), Slice(off, n))
            /\ ~PastLimit(t, Num(i, off), n)
    BY <1>0, <1>2, <1>5, IngestCount
  <2>2. /\ SameControl(u, t) /\ u.next_seq = Num(i, to) /\ u.out_of_order = t.out_of_order
        /\ u.assembled = t.assembled /\ u.read_pos = t.read_pos /\ ~dr
        /\ cap2 = cap \cup Stretch(off, n)
    BY <2>1 DEF Capturing
  <2>3. Stretch(no, to - no) \subseteq cap2
    <3>1. CASE to = no BY <3>1 DEF Stretch
    <3>2. CASE to # no
      <4>1. to = off + n /\ off <= no BY <3>2 DEF Advance
      <4>2. Stretch(no, to - no) \subseteq Stretch(off, n) BY <1>0, <1>1, <4>1 DEF Stretch
      <4> QED BY <2>2, <4>2
    <3> QED BY <3>1, <3>2
  <2>4. Placed(u, i, f, to, k, cap2)
    <3>1. Placed(t, i, f, no, k, cap) BY DEF Sound
    <3> QED BY <1>1, <1>3, <2>2, <2>3, <3>1, PlacedAdvance
  <2>5. Readable(u) /\ ~u.keep_payload BY <1>2, <1>5, <2>2 DEF Readable, SameControl
  <2>6. Counted(u, rd, dr)
    <3>1. Counted(t, rd, FALSE) BY <1>5 DEF Sound
    <3> QED BY <2>2, <3>1 DEF Counted
  <2> QED BY <2>4, <2>5, <2>6 DEF Sound
<1> QED BY <1>4, <1>5

(* One turn of drain's loop.                                               *)
LEMMA DrainSound ==
    ASSUME NEW t \in Structs, NEW i \in Int, NEW f \in Nat, NEW no \in Nat, NEW k \in Nat,
           NEW rd \in Seq(Nat), NEW cap, NEW lo \in Nat, Accounted(t, lo),
           Sound(t, i, f, no, k, rd, cap, lo, TRUE), DrainContinues(t, lo),
           NEW u, u = DrainStep(t, lo)
    PROVE  \E to \in Nat : /\ Sound(u, i, f, to, k, rd, cap, lo + 1, TRUE)
                           /\ to = no \/ (no < to /\ to <= StreamLen /\ to - no <= Reach)
<1>1. t.next_seq = Num(i, no) /\ Readable(t) BY DEF Sound, Placed, Standing
<1>2. t.keep_payload BY DEF Sound, Counted
<1>3. Buffer(t.out_of_order, i, lo, no, cap, TRUE) BY <1>2 DEF Sound, Kept
<1>4. PICK to \in Nat :
           /\ Appended(u, t, i, no, to) /\ u.out_of_order = t.out_of_order
           /\ Buffer(t.out_of_order, i, lo + 1, to, cap, TRUE)
           /\ Stretch(no, to - no) \subseteq cap
           /\ to = no \/ (no < to /\ to <= StreamLen /\ to - no <= Reach)
  BY <1>1, <1>3, DrainStepView
<1>5. Buffer(u.out_of_order, i, lo + 1, to, cap, TRUE) BY <1>4
<1>6. Sound(u, i, f, to, k, rd, cap, lo + 1, TRUE)
  <2> DEFINE lo2 == lo + 1
  <2>1. Buffer(u.out_of_order, i, lo2, to, cap, TRUE) BY <1>5
  <2> HIDE DEF lo2
  <2>2. Sound(u, i, f, to, k, rd, cap, lo2, TRUE) BY <1>2, <1>4, <2>1, SoundAdvance
  <2> QED BY <2>2 DEF lo2
<1> QED BY <1>4, <1>6

(* The erase after the loop.                                               *)
LEMMA EraseSound ==
    ASSUME NEW t \in Structs, NEW i \in Int, NEW f \in Nat, NEW no \in Nat, NEW k \in Nat,
           NEW rd \in Seq(Nat), NEW cap, NEW lo \in 0 .. Len(t.out_of_order),
           Sound(t, i, f, no, k, rd, cap, lo, TRUE), ~DrainContinues(t, lo),
           NEW u, u = DrainErase(t, lo)
    PROVE  Sound(u, i, f, no, k, rd, cap, 0, FALSE)
<1>1. t.next_seq = Num(i, no) /\ Readable(t) BY DEF Sound, Placed, Standing
<1>2. t.keep_payload BY DEF Sound, Counted
<1>3. Buffer(t.out_of_order, i, lo, no, cap, TRUE) BY <1>2 DEF Sound, Kept
<1>4. BufferOnly(u, t) /\ Buffer(u.out_of_order, i, 0, no, cap, FALSE)
  BY <1>1, <1>3, DrainEraseView
<1>5. Appended(u, t, i, no, no)
  <2>1. SameControl(u, t) /\ u.next_seq = t.next_seq /\ u.assembled = t.assembled /\ u.read_pos = t.read_pos
    BY <1>4 DEF BufferOnly, SameControl
  <2> QED BY <1>1, <2>1, AppendedNone
<1>6. Stretch(no, no - no) \subseteq cap BY DEF Stretch
<1> QED BY <1>2, <1>4, <1>5, <1>6, SoundAdvance

(* u differs from t in the state only.                                     *)
StateOnly(u, t) ==
    /\ u.next_seq = t.next_seq /\ u.out_of_order = t.out_of_order
    /\ u.assembled = t.assembled /\ u.read_pos = t.read_pos
    /\ u.fin_seen = t.fin_seen /\ u.fin_seq = t.fin_seq
    /\ u.seeded = t.seeded /\ u.keep_payload = t.keep_payload

(* A change of state that does not announce the end of the stream.         *)
LEMMA StateSound ==
    ASSUME NEW t, NEW u, NEW i, NEW f, NEW no, NEW k, NEW rd, NEW cap, NEW lo, NEW draining,
           Sound(t, i, f, no, k, rd, cap, lo, draining), StateOnly(u, t),
           u.state \in FinStates => t.state \in FinStates
    PROVE  Sound(u, i, f, no, k, rd, cap, lo, draining)
<1>1. Placed(u, i, f, no, k, cap)
  BY DEF Sound, Placed, Standing, FinKnown, Ended, StateOnly
<1>2. Peek(u) = Peek(t) BY DEF Peek, StateOnly
<1> QED BY <1>1, <1>2 DEF Sound, Readable, Kept, Counted, StateOnly

(* The reader takes n bytes.                                               *)
LEMMA ConsumeSound ==
    ASSUME NEW t \in Structs, NEW i, NEW f, NEW no, NEW k, NEW rd \in Seq(Nat), NEW cap, NEW lo,
           NEW draining, Sound(t, i, f, no, k, rd, cap, lo, draining),
           NEW n \in 1 .. Available(t), NEW u, u = Consume(t, n),
           NEW rd2, rd2 = rd \o SubSeq(Peek(t), 1, n)
    PROVE  /\ Sound(u, i, f, no, k, rd2, cap, lo, draining)
           /\ rd2 \o Peek(u) = rd \o Peek(t) /\ Len(rd2) = Len(rd) + n
<1> DEFINE front == SubSeq(Peek(t), 1, n)
<1>1. Readable(t) BY DEF Sound
<1>2. /\ Readable(u) /\ SameControl(u, t) /\ u.out_of_order = t.out_of_order
      /\ u.next_seq = t.next_seq
      /\ front \in Seq(Nat) /\ Peek(u) \in Seq(Nat) /\ Len(front) = n
      /\ front \o Peek(u) = Peek(t)
  BY <1>1, ConsumeView
<1>3. rd2 = rd \o front OBVIOUS
<1> HIDE DEF front
<1>4. rd2 \o Peek(u) = rd \o Peek(t)
  <2> DEFINE p == Peek(u)
  <2>1. p \in Seq(Nat) /\ front \in Seq(Nat) BY <1>2
  <2> HIDE DEF p
  <2>2. (rd \o front) \o p = rd \o (front \o p) BY <2>1, ConcatBytes
  <2> QED BY <1>2, <1>3, <2>2 DEF p
<1>5. Len(rd2) = Len(rd) + n BY <1>2, <1>3, ConcatProperties
<1>6. t.keep_payload
  <2>1. SUFFICES ASSUME ~t.keep_payload PROVE FALSE OBVIOUS
  <2>2. t.assembled = <<>> BY <2>1 DEF Sound, Counted
  <2>3. t.read_pos \in Nat BY DEF Structs
  <2>4. n <= 0 - t.read_pos /\ 1 <= n /\ n \in Int BY <2>2, <2>3 DEF Available
  <2> QED BY <2>3, <2>4
<1>7. u.keep_payload BY <1>2, <1>6 DEF SameControl
<1>8. Placed(u, i, f, no, k, cap)
  BY <1>2 DEF Sound, Placed, Standing, FinKnown, Ended, SameControl
<1>9. Kept(u, i, f, no, k, rd2, cap, lo, draining)
  <2>1. Kept(t, i, f, no, k, rd, cap, lo, draining) BY <1>6 DEF Sound
  <2> QED BY <1>2, <1>4, <2>1 DEF Kept, Shows
<1> QED BY <1>2, <1>4, <1>5, <1>7, <1>8, <1>9 DEF Sound

(* Nothing is buffered when next_seq stands at the end of the stream, and  *)
(* so nothing when it stands one further.                                  *)
LEMMA BufferAtEnd ==
    ASSUME NEW ooo, Len(ooo) \in Nat, NEW i, NEW no \in Nat, StreamLen <= no, NEW cap,
           Buffer(ooo, i, 0, no, cap, FALSE), NEW to, to = no + 1
    PROVE  Buffer(ooo, i, 0, to, cap, FALSE)
<1>0. StreamLen \in Nat BY ReachFits
<1> DEFINE m == Len(ooo)
<1>1. PICK offs \in [1 .. m -> 0 .. StreamLen], size \in [1 .. m -> 0 .. MaxSegment] :
         Pieces(ooo, i, offs, size) /\ Chain(m, offs, size, 0, no, cap, FALSE)
  BY DEF Buffer
<1>2. m = 0
  <2>1. SUFFICES ASSUME m # 0 PROVE FALSE OBVIOUS
  <2>2. 1 \in 1 .. m BY <2>1
  <2>3. no < offs[1] BY <1>1, <2>2 DEF Chain, Ahead
  <2>4. offs[1] \in 0 .. StreamLen BY <2>2
  <2> QED BY <1>0, <2>3, <2>4
<1>3. Ahead(m, offs, 0, to, FALSE) BY <1>2 DEF Ahead
<1>4. Holds(m, offs, size, 0, to, cap)
  <2>1. /\ cap \subseteq Nat
        /\ \A k \in 1 .. m : Stretch(offs[k], size[k]) \subseteq cap
        /\ \A b \in cap : b >= no => \E k \in 0 + 1 .. m : b \in Stretch(offs[k], size[k])
    BY <1>1 DEF Chain, Holds
  <2>2. \A b \in cap : b >= to => b >= no BY <2>1
  <2> QED BY <2>1, <2>2 DEF Holds
<1>5. Chain(m, offs, size, 0, to, cap, FALSE) BY <1>1, <1>3, <1>4 DEF Chain
<1> QED BY <1>1, <1>5 DEF Buffer

(* onData's end: the FIN of the segment, or one remembered, is acted on    *)
(* when the stream is complete and remembered when it is not.              *)
LEMMA FinSound ==
    ASSUME NEW t \in Structs, NEW i \in Int, NEW f \in Nat, NEW no \in Nat, NEW k \in Nat,
           NEW rd, NEW cap, Sound(t, i, f, no, k, rd, cap, 0, FALSE),
           NEW fin \in BOOLEAN, NEW fin_at,
           fin => fin_at = Num(i, StreamLen) /\ StreamLen - no <= Reach /\ no - StreamLen <= Reach,
           NEW u, u = OnDataFin(t, fin, fin_at)
    PROVE  \/ Sound(u, i, f, no, k, rd, cap, 0, FALSE) /\ u.next_seq = t.next_seq
           \/ Sound(u, i, f, no + 1, k + 1, rd, cap, 0, FALSE)
<1> DEFINE seen == t.fin_seen \/ fin
           at   == IF fin THEN fin_at ELSE t.fin_seq
           act  == seen /\ SeqDiff(t.next_seq, at) >= 0
           v    == [t EXCEPT !.fin_seen = FALSE, !.fin_seq = at, !.next_seq = U32(@ + 1),
                             !.state = IF @ = "CloseWait" THEN "LastAck" ELSE "FinWait1"]
           w    == [t EXCEPT !.fin_seen = seen, !.fin_seq = at]
<1>0. StreamLen \in Nat /\ Reach \in Nat BY ReachFits
<1>1. u = IF act THEN v ELSE w BY DEF OnDataFin
<1>2. Readable(t) /\ Placed(t, i, f, no, k, cap) BY DEF Sound
<1>3. /\ t.next_seq = Num(i, no) /\ f <= no - k /\ no - k <= StreamLen
      /\ (k > 0 => no - k = StreamLen)
  BY <1>2 DEF Placed, Standing
<1>4. t.fin_seen => k = 0 /\ t.fin_seq = Num(i, StreamLen) /\ StreamLen - no <= Reach
  BY <1>2 DEF Placed, FinKnown
<1>5. seen => at = Num(i, StreamLen) /\ SeqDiff(t.next_seq, at) = no - StreamLen /\ StreamLen - no <= Reach
  <2>1. HAVE seen
  <2>2. at = Num(i, StreamLen) BY <1>4, <2>1
  <2>3. StreamLen - no <= Reach /\ no - StreamLen <= Reach
    <3>1. CASE fin BY <3>1
    <3>2. CASE ~fin BY <3>2, <2>1, <1>0, <1>3, <1>4
    <3> QED BY <3>1, <3>2
  <2>4. no - StreamLen < SeqSpace \div 2 /\ StreamLen - no <= SeqSpace \div 2
    BY <2>3, ReachFits
  <2>5. SeqDiff(Num(i, no), Num(i, StreamLen)) = no - StreamLen
    <3>1. no \in Int /\ StreamLen \in Int BY <1>0
    <3> QED BY <2>4, <3>1, NumDiff
  <2> QED BY <1>3, <2>2, <2>3, <2>5
<1>6. CASE act
  <2>1. StreamLen <= no /\ no - k = StreamLen
    <3>1. no - StreamLen >= 0 BY <1>5, <1>6
    <3> QED BY <1>0, <1>3, <3>1
  <2>2. u = v BY <1>1, <1>6
  <2>3. U32(t.next_seq + 1) = Num(i, no + 1) BY <1>3, NumShift
  <2>4. /\ u.fin_seen = FALSE /\ u.next_seq = Num(i, no + 1) /\ u.out_of_order = t.out_of_order
        /\ u.assembled = t.assembled /\ u.read_pos = t.read_pos /\ u.keep_payload = t.keep_payload
    <3> HIDE DEF at
    <3> QED BY <2>2, <2>3 DEF Structs
  <2> HIDE DEF v, w
  <2> DEFINE to == no + 1
             k2 == k + 1
  <2>5. to - k2 = no - k /\ to - k2 = StreamLen /\ k2 > 0 BY <2>1
  <2>6. u.next_seq = Num(i, to) BY <2>4
  <2>7. Buffer(t.out_of_order, i, 0, no, cap, FALSE) => Buffer(u.out_of_order, i, 0, to, cap, FALSE)
    <3>1. Len(t.out_of_order) \in Nat BY DataLen
    <3>2. to = no + 1 OBVIOUS
    <3> HIDE DEF to
    <3> QED BY <2>1, <2>4, <3>1, <3>2, BufferAtEnd
  <2>8. Placed(u, i, f, to, k2, cap)
    <3>1. f .. no - k - 1 \subseteq cap BY <1>2 DEF Placed
    <3>2. f .. to - k2 - 1 \subseteq cap BY <2>5, <3>1
    <3>3. f <= to - k2 /\ to - k2 <= StreamLen BY <1>0, <1>3, <2>5
    <3> HIDE DEF to, k2
    <3>4. Standing(u, i, f, to, k2) BY <2>5, <2>6, <3>3 DEF Standing
    <3> QED BY <2>4, <2>5, <3>2, <3>4 DEF Placed, FinKnown, Ended
  <2>9. Sound(u, i, f, to, k2, rd, cap, 0, FALSE)
    <3>1. Readable(u) /\ Peek(u) = Peek(t) BY <1>2, <2>4 DEF Readable, Peek
    <3> HIDE DEF to, k2
    <3>2. CASE t.keep_payload
      <4>1. Kept(t, i, f, no, k, rd, cap, 0, FALSE) BY <3>2 DEF Sound
      <4>2. Kept(u, i, f, to, k2, rd, cap, 0, FALSE) BY <2>5, <2>7, <3>1, <4>1 DEF Kept
      <4> QED BY <2>4, <2>8, <3>1, <3>2, <4>2 DEF Sound
    <3>3. CASE ~t.keep_payload
      <4>1. Counted(t, rd, FALSE) BY <3>3 DEF Sound
      <4>2. Counted(u, rd, FALSE) BY <2>4, <4>1 DEF Counted
      <4> QED BY <2>4, <2>8, <3>1, <3>3, <4>2 DEF Sound
    <3> QED BY <3>2, <3>3
  <2> QED BY <2>9
<1>7. CASE ~act
  <2>1. u = w BY <1>1, <1>7
  <2>2. /\ u.fin_seen = seen /\ u.fin_seq = at /\ u.next_seq = t.next_seq
        /\ u.out_of_order = t.out_of_order /\ u.state = t.state
        /\ u.assembled = t.assembled /\ u.read_pos = t.read_pos /\ u.keep_payload = t.keep_payload
    <3> HIDE DEF at, seen
    <3> QED BY <2>1 DEF Structs
  <2>3. FinKnown(u, i, no, k)
    <3>1. SUFFICES ASSUME seen
                   PROVE  k = 0 /\ at = Num(i, StreamLen) /\ StreamLen - no <= Reach
      BY <2>2 DEF FinKnown
    <3>2. ~(no - StreamLen >= 0) BY <1>5, <1>7, <3>1
    <3>3. k = 0 BY <1>0, <1>3, <3>2
    <3> QED BY <1>5, <3>1, <3>3
  <2> HIDE DEF v, w, seen, at
  <2>4. Placed(u, i, f, no, k, cap) BY <1>2, <2>2, <2>3 DEF Placed, Standing, Ended
  <2>5. Readable(u) /\ Peek(u) = Peek(t) BY <1>2, <2>2 DEF Readable, Peek
  <2>6. Sound(u, i, f, no, k, rd, cap, 0, FALSE)
    BY <2>2, <2>4, <2>5 DEF Sound, Kept, Counted
  <2> QED BY <2>2, <2>6
<1> QED BY <1>6, <1>7

-----------------------------------------------------------------------------
(* onSent before it hands the payload on                                   *)

(* u is t with next_seq taken from the first segment.                      *)
Seeds(u, t, seq) ==
    /\ u.next_seq = seq /\ u.seeded /\ u.state \notin FinStates
    /\ u.out_of_order = t.out_of_order
    /\ u.assembled = t.assembled /\ u.read_pos = t.read_pos
    /\ u.fin_seen = t.fin_seen /\ u.fin_seq = t.fin_seq /\ u.keep_payload = t.keep_payload

(* A segment with data or FIN, or none.                                    *)
LEMMA DataOnSent ==
    ASSUME NEW t \in Structs, NEW h \in Headers, ~h.rst, ~h.syn, h.ack,
           NEW out, out = OnSent(t, h)
    PROVE  \/ out.call = "none" /\ out.tcp = t
           \/ /\ out.call = "onData" /\ out.seq = h.seq_number /\ t.seeded
              /\ StateOnly(out.tcp, t) /\ out.tcp.state \notin FinStates
           \/ /\ out.call = "onData" /\ out.seq = h.seq_number /\ ~t.seeded
              /\ Seeds(out.tcp, t, h.seq_number)
<1>1. CASE ~t.seeded
  <2> DEFINE s == IF t.state = "CloseWait" THEN t.state ELSE "Established"
             u == [t EXCEPT !.next_seq = h.seq_number, !.seeded = TRUE, !.state = s]
  <2>1. out = [tcp |-> u, call |-> "onData", seq |-> h.seq_number]
    BY <1>1 DEF OnSent
  <2>2. s \notin FinStates BY DEF FinStates
  <2> HIDE DEF s
  <2>3. Seeds(u, t, h.seq_number) BY <2>2 DEF Seeds, Structs
  <2> HIDE DEF u
  <2> QED BY <1>1, <2>1, <2>3
<1>2. CASE t.seeded /\ t.state = "SynSent"
  <2> DEFINE u == [t EXCEPT !.state = "Established"]
  <2>1. out = [tcp |-> u, call |-> "onData", seq |-> h.seq_number]
    BY <1>2 DEF OnSent
  <2>2. StateOnly(u, t) /\ u.state \notin FinStates BY DEF StateOnly, Structs, FinStates
  <2> HIDE DEF u
  <2> QED BY <1>2, <2>1, <2>2
<1>3. CASE t.seeded /\ t.state \in {"Established", "CloseWait"}
  <2>1. out = [tcp |-> t, call |-> "onData", seq |-> h.seq_number]
    BY <1>3 DEF OnSent
  <2>2. StateOnly(t, t) /\ t.state \notin FinStates BY <1>3 DEF StateOnly, FinStates
  <2> QED BY <1>3, <2>1, <2>2
<1>4. CASE t.seeded /\ t.state \notin {"SynSent", "Established", "CloseWait"}
  <2>1. out = [tcp |-> t, call |-> "none", seq |-> 0] BY <1>4 DEF OnSent
  <2> QED BY <2>1
<1> QED BY <1>1, <1>2, <1>3, <1>4

(* A SYN: it sets the struct up, and is data like any other later on.      *)
LEMMA SynOnSent ==
    ASSUME NEW t \in Structs, NEW h \in Headers, ~h.rst, h.syn, NEW out, out = OnSent(t, h)
    PROVE  \/ out.call = "none" /\ out.tcp = t
           \/ out.call = "onData" /\ out.seq = h.seq_number /\ t.seeded /\ out.tcp = t
           \/ /\ out.call = "ingest" /\ out.seq = U32(h.seq_number + 1) /\ ~t.seeded
              /\ Seeds(out.tcp, t, U32(h.seq_number + 1))
<1>1. CASE ~t.seeded
  <2> DEFINE s == IF h.ack THEN "SynReceived" ELSE "SynSent"
             seq == U32(h.seq_number + 1)
             u == [t EXCEPT !.next_seq = seq, !.state = s, !.seeded = TRUE]
  <2>1. out = [tcp |-> u, call |-> "ingest", seq |-> seq]
    BY <1>1 DEF OnSent
  <2>2. s \notin FinStates BY DEF FinStates
  <2> HIDE DEF s, seq
  <2>3. Seeds(u, t, seq) BY <2>2 DEF Seeds, Structs
  <2> HIDE DEF u
  <2> QED BY <1>1, <2>1, <2>3 DEF seq
<1>2. CASE t.seeded /\ t.state \in {"Established", "CloseWait"}
  <2>1. out = [tcp |-> t, call |-> "onData", seq |-> h.seq_number]
    BY <1>2 DEF OnSent
  <2> QED BY <1>2, <2>1
<1>3. CASE t.seeded /\ t.state \notin {"Established", "CloseWait"}
  <2>1. out = [tcp |-> t, call |-> "none", seq |-> 0] BY <1>3 DEF OnSent
  <2> QED BY <2>1
<1> QED BY <1>1, <1>2, <1>3

(* An empty buffer.                                                        *)
LEMMA BufferEmpty ==
    ASSUME NEW i, NEW no, NEW draining
    PROVE  Buffer(<<>>, i, 0, no, {}, draining)
<1> DEFINE e == [k \in 1 .. 0 |-> 0]
<1>1. Len(<<>>) = 0 OBVIOUS
<1>2. e \in [1 .. 0 -> 0 .. StreamLen] /\ e \in [1 .. 0 -> 0 .. MaxSegment] OBVIOUS
<1>3. Chain(0, e, e, 0, no, {}, draining) BY <1>2 DEF Chain, Ascending, Ahead, Holds
<1>4. Pieces(<<>>, i, e, e) BY <1>1 DEF Pieces
<1> QED BY <1>1, <1>2, <1>3, <1>4 DEF Buffer

(* The struct after the first segment, whose payload starts at byte off.   *)
LEMMA SeedSound ==
    ASSUME NEW t \in Structs, Readable(t), t.out_of_order = <<>>, t.assembled = <<>>, ~t.fin_seen,
           NEW i, NEW off \in 0 .. StreamLen, NEW u, Seeds(u, t, Num(i, off))
    PROVE  Sound(u, i, off, off, 0, <<>>, {}, 0, FALSE)
<1>0. off \in Nat /\ StreamLen \in Nat /\ off <= StreamLen BY ReachFits
<1>1. /\ u.next_seq = Num(i, off) /\ u.state \notin FinStates /\ u.out_of_order = <<>>
      /\ u.assembled = <<>> /\ u.read_pos = t.read_pos /\ ~u.fin_seen
      /\ u.keep_payload = t.keep_payload
  BY DEF Seeds
<1>2. Placed(u, i, off, off, 0, {})
  BY <1>0, <1>1 DEF Placed, Standing, FinKnown, Ended
<1>3. Readable(u) BY <1>1 DEF Readable
<1>4. Peek(u) = <<>>
  <2>1. t.read_pos \in Nat /\ t.read_pos <= 0 BY DEF Structs, Readable
  <2>2. t.read_pos = 0 BY <2>1
  <2>3. Peek(u) = SubSeq(<<>>, 1, 0)
    <3>1. 0 + 1 = 1 /\ Len(<<>>) = 0 OBVIOUS
    <3> QED BY <1>1, <2>2, <3>1 DEF Peek
  <2> QED BY <2>3
<1>5. Shows(<<>>, Peek(u), off, off - 0 - off)
  <2>1. off - 0 - off = 0 /\ Slice(off, 0) = <<>> BY <1>0, SliceNone
  <2>2. <<>> \o <<>> = <<>> OBVIOUS
  <2> QED BY <1>4, <2>1, <2>2 DEF Shows
<1>6. Buffer(u.out_of_order, i, 0, off, {}, FALSE) BY <1>1, BufferEmpty
<1>7. Kept(u, i, off, off, 0, <<>>, {}, 0, FALSE) BY <1>5, <1>6 DEF Kept
<1>8. Counted(u, <<>>, FALSE) BY <1>1 DEF Counted
<1> QED BY <1>2, <1>3, <1>7, <1>8 DEF Sound

-----------------------------------------------------------------------------
(* The inductive invariant                                                 *)

(* A FIN in the call in progress is the sender's.                          *)
FinCarried ==
    cur.fin => /\ cur.fin_at = Num(isn, StreamLen)
               /\ StreamLen - next_off <= Reach /\ next_off - StreamLen <= Reach

(* What the state can be before the sender's first segment.                *)
Early == {"Unknown", "Closed", "Listen", "Established", "CloseWait"}

(* Until the first segment of the sender nothing has happened but for the  *)
(* other side's segments and resets.                                       *)
Untouched ==
    /\ Readable(tcp) /\ tcp.out_of_order = <<>> /\ tcp.assembled = <<>> /\ ~tcp.fin_seen
    /\ tcp.state \in Early
    /\ read = <<>> /\ captured = {} /\ next_off = 0 /\ fins = 0
    /\ pc = "idle" /\ ~cur.fin

(* Each of the properties needs the others: bytes are appended in the      *)
(* right place because next_seq stands where the offsets say, the drain    *)
(* stops in the right place because the buffer is in order, and the FIN    *)
(* leaves the buffer in order because it comes last.                       *)
SInv == IF tcp.seeded
        THEN /\ Sound(tcp, isn, first, next_off, fins, read, captured, len, pc = "drain")
             /\ FinCarried
        ELSE Untouched

(* The types that the steps need.                                          *)
LEMMA Types ==
    ASSUME IInv
    PROVE  /\ tcp \in Structs /\ isn \in SeqNumbers /\ isn \in Int /\ next_off \in Nat /\ fins \in Nat
           /\ read \in Seq(Nat) /\ len \in Nat /\ len \in 0 .. Len(tcp.out_of_order)
           /\ first \in Nat /\ first \in 0 .. StreamLen /\ Accounted(tcp, len)
           /\ cur.fin \in BOOLEAN /\ (pc # "drain" => len = 0)
<1>1. Len(tcp.out_of_order) \in Nat BY DataLen DEF IInv, TypeOK
<1> QED BY <1>1, ReachFits, SeqSpaceAssumption DEF IInv, TypeOK, OooAccounting, SeqNumbers

(* A new struct.                                                           *)
LEMMA InitSound == Init => SInv
<1> SUFFICES ASSUME Init PROVE SInv
  OBVIOUS
<1> PICK keep \in KeepPayload : tcp = Fresh(keep)
  BY DEF Init
<1>1. /\ ~tcp.seeded /\ tcp.out_of_order = <<>> /\ tcp.assembled = <<>> /\ tcp.read_pos = 0
      /\ ~tcp.fin_seen /\ tcp.state \in Early
  BY DEF Fresh, Early
<1>2. Readable(tcp) BY <1>1 DEF Readable
<1> QED BY <1>1, <1>2 DEF Init, SInv, Untouched, Idle

(* next_seq and its offset move together.                                  *)
LEMMA OffsetMoves ==
    ASSUME NEW i \in Int, NEW no \in Nat, NEW to \in Nat, no <= to, to - no < SeqSpace,
           NEW a, a = Num(i, no), NEW b, b = Num(i, to)
    PROVE  U32(b - a) = to - no
<1>1. to \in Int /\ no \in Int /\ -SeqSpace <= to - no /\ to >= no BY SeqSpaceAssumption
<1>2. U32(Num(i, to) - Num(i, no)) = IF to >= no THEN to - no ELSE to - no + SeqSpace
  BY <1>1, NumDistance
<1> QED BY <1>1, <1>2

(* The reassembler's part of a step that ends a call at once, or changes   *)
(* the state only.                                                         *)
LEMMA QuietStep ==
    ASSUME SInv, StateOnly(tcp', tcp), UNCHANGED <<pc, len, cur, isn, first, next_off, fins, read, captured>>,
           tcp'.state \in FinStates => tcp.state \in FinStates,
           tcp.seeded \/ tcp'.state \in Early
    PROVE  SInv'
<1>1. CASE tcp.seeded
  <2>1. Sound(tcp, isn, first, next_off, fins, read, captured, len, pc = "drain") /\ FinCarried
    BY <1>1 DEF SInv
  <2>2. Sound(tcp', isn, first, next_off, fins, read, captured, len, pc = "drain")
    BY <2>1, StateSound
  <2>3. tcp'.seeded BY <1>1 DEF StateOnly
  <2> QED BY <2>1, <2>2, <2>3 DEF SInv, FinCarried
<1>2. CASE ~tcp.seeded
  <2>1. Untouched /\ ~tcp'.seeded BY <1>2 DEF SInv, StateOnly
  <2>2. Untouched' BY <1>2, <2>1 DEF Untouched, StateOnly, Readable
  <2> QED BY <2>1, <2>2 DEF SInv
<1> QED BY <1>1, <1>2

(* A reset of the sender.                                                  *)
LEMMA ResetSound == IInv /\ SInv /\ SendReset => SInv'
<1> SUFFICES ASSUME IInv, SInv, SendReset PROVE SInv'
  OBVIOUS
<1>1. tcp \in Structs BY Types
<1>2. ResetHeader.rst BY DEF ResetHeader
<1>3. OnSent(tcp, ResetHeader) = [tcp |-> [tcp EXCEPT !.state = "Closed"], call |-> "none", seq |-> 0]
  BY <1>2 DEF OnSent
<1>4. /\ tcp' = [tcp EXCEPT !.state = "Closed"]
      /\ UNCHANGED <<pc, len, cur, isn, first, next_off, fins, read, captured>>
  BY <1>3 DEF SendReset, Send
<1>5. StateOnly(tcp', tcp) /\ tcp'.state = "Closed" BY <1>1, <1>4 DEF StateOnly, Structs
<1> QED BY <1>4, <1>5, QuietStep DEF FinStates, Early

(* onReceived sets the state, and never announces the end of the stream.   *)
LEMMA ReceivedState ==
    ASSUME NEW t \in Structs, NEW h, NEW u, u = OnReceived(t, h)
    PROVE  /\ StateOnly(u, t)
           /\ u.state \in FinStates => t.state \in FinStates
           /\ t.state \in Early => u.state \in Early
<1>1. StateOnly(u, t) BY DEF OnReceived, StateOnly, Structs
<1>2. CASE h.rst
  <2>1. u.state = "Closed" BY <1>2 DEF OnReceived, Structs
  <2> QED BY <1>1, <2>1 DEF FinStates, Early
<1>3. CASE ~h.rst /\ t.state \in {"Unknown", "Closed", "Listen"}
  <2>1. u.state \in {"Listen", "CloseWait", "Established", t.state}
    BY <1>3 DEF OnReceived, Structs
  <2> QED BY <1>1, <1>3, <2>1 DEF FinStates, Early
<1>4. CASE ~h.rst /\ t.state = "SynSent"
  <2>1. u.state \in {"SynReceived", "SynSent"} BY <1>4 DEF OnReceived, Structs
  <2> QED BY <1>1, <1>4, <2>1 DEF FinStates, Early
<1>5. CASE ~h.rst /\ t.state = "SynReceived"
  <2>1. u.state \in {"CloseWait", "Established", "SynReceived"} BY <1>5 DEF OnReceived, Structs
  <2> QED BY <1>1, <1>5, <2>1 DEF FinStates, Early
<1>6. CASE ~h.rst /\ t.state = "Established"
  <2>1. u.state \in {"CloseWait", "Established"} BY <1>6 DEF OnReceived, Structs
  <2> QED BY <1>1, <1>6, <2>1 DEF FinStates, Early
<1>7. CASE t.state \in FinStates BY <1>1, <1>7 DEF FinStates, Early
<1>8. CASE ~h.rst /\ t.state = "CloseWait"
  <2>1. u.state = "CloseWait" BY <1>8 DEF OnReceived, Structs
  <2> QED BY <1>1, <2>1 DEF FinStates, Early
<1>9. t.state \in TcpStates BY DEF Structs
<1> QED BY <1>2, <1>3, <1>4, <1>5, <1>6, <1>7, <1>8, <1>9 DEF TcpStates, FinStates

(* The other side's segments.                                              *)
LEMMA ReceiveSound == IInv /\ SInv /\ Receive => SInv'
<1> SUFFICES ASSUME IInv, SInv, Receive PROVE SInv'
  OBVIOUS
<1>1. tcp \in Structs BY Types
<1>2. PICK h : tcp' = OnReceived(tcp, h) BY DEF Receive, ReceiveSegment
<1>3. UNCHANGED <<pc, len, cur, isn, first, next_off, fins, read, captured>>
  BY DEF Receive, ReceiveSegment
<1>4. /\ StateOnly(tcp', tcp)
      /\ tcp'.state \in FinStates => tcp.state \in FinStates
      /\ tcp.state \in Early => tcp'.state \in Early
  BY <1>1, <1>2, ReceivedState
<1>5. tcp.seeded \/ tcp.state \in Early BY DEF SInv, Untouched
<1>6. tcp.seeded \/ tcp'.state \in Early BY <1>4, <1>5
<1> QED BY <1>3, <1>4, <1>6, QuietStep

(* The reader.                                                             *)
LEMMA ReadSound == IInv /\ SInv /\ Read => SInv'
<1> SUFFICES ASSUME IInv, SInv, Read PROVE SInv'
  OBVIOUS
<1>1. tcp \in Structs /\ read \in Seq(Nat) BY Types
<1>2. PICK n \in 1 .. Available(tcp) :
         read' = read \o SubSeq(Peek(tcp), 1, n) /\ tcp' = Consume(tcp, n)
  BY DEF Read
<1>3. UNCHANGED <<pc, len, cur, isn, first, next_off, fins, captured>> BY DEF Read
<1>4. CASE tcp.seeded
  <2>1. Sound(tcp, isn, first, next_off, fins, read, captured, len, pc = "drain") /\ FinCarried
    BY <1>4 DEF SInv
  <2>2. Sound(tcp', isn, first, next_off, fins, read', captured, len, pc = "drain")
    <3> DEFINE dr == pc = "drain"
    <3>1. Sound(tcp, isn, first, next_off, fins, read, captured, len, dr) BY <2>1
    <3> HIDE DEF dr
    <3>2. Sound(tcp', isn, first, next_off, fins, read', captured, len, dr)
      BY <1>1, <1>2, <3>1, ConsumeSound
    <3> QED BY <3>2 DEF dr
  <2>3. tcp'.seeded BY <1>1, <1>2, <1>4 DEF Consume, Structs
  <2> QED BY <1>3, <2>1, <2>2, <2>3 DEF SInv, FinCarried
<1>5. CASE ~tcp.seeded
  <2>1. tcp.assembled = <<>> BY <1>5 DEF SInv, Untouched
  <2>2. tcp.read_pos \in Nat BY <1>1 DEF Structs
  <2>3. n <= 0 - tcp.read_pos /\ 1 <= n /\ n \in Int BY <2>1, <2>2 DEF Available
  <2> QED BY <2>2, <2>3
<1> QED BY <1>4, <1>5

(* One turn of drain's loop.                                               *)
LEMMA DrainStepSound == IInv /\ SInv /\ Drain => SInv'
<1> SUFFICES ASSUME IInv, SInv, Drain PROVE SInv'
  OBVIOUS
<1>1. /\ tcp \in Structs /\ isn \in Int /\ next_off \in Nat /\ fins \in Nat /\ read \in Seq(Nat)
      /\ len \in Nat /\ first \in Nat /\ Accounted(tcp, len)
  BY Types
<1>2. /\ pc = "drain" /\ DrainContinues(tcp, len) /\ tcp' = DrainStep(tcp, len) /\ len' = len + 1
      /\ next_off' = next_off + U32(tcp'.next_seq - tcp.next_seq)
      /\ UNCHANGED <<pc, cur, isn, first, fins, read, captured>>
  BY DEF Drain
<1>3. tcp.seeded BY <1>2 DEF SInv, Untouched
<1>4. Sound(tcp, isn, first, next_off, fins, read, captured, len, TRUE) /\ FinCarried
  BY <1>2, <1>3 DEF SInv
<1>5. PICK to \in Nat :
         /\ Sound(tcp', isn, first, to, fins, read, captured, len + 1, TRUE)
         /\ to = next_off \/ (next_off < to /\ to <= StreamLen /\ to - next_off <= Reach)
  BY <1>1, <1>2, <1>4, DrainSound
<1>6. next_off' = to
  <2>1. tcp.next_seq = Num(isn, next_off) /\ tcp'.next_seq = Num(isn, to)
    BY <1>4, <1>5 DEF Sound, Placed, Standing
  <2>2. next_off <= to /\ to - next_off < SeqSpace BY <1>1, <1>5, ReachFits
  <2>3. U32(tcp'.next_seq - tcp.next_seq) = to - next_off BY <1>1, <2>1, <2>2, OffsetMoves
  <2> QED BY <1>1, <1>2, <2>3
<1>7. tcp'.seeded BY <1>1, <1>2, <1>3 DEF DrainStep, Assemble, Structs
<1>8. FinCarried'
  <2>1. cur.fin => to = next_off \/ (to <= StreamLen /\ next_off < to) BY <1>5
  <2> QED BY <1>1, <1>2, <1>4, <1>6, <2>1, ReachFits DEF FinCarried
<1>9. Sound(tcp', isn', first', next_off', fins', read', captured', len', pc' = "drain")
  BY <1>2, <1>5, <1>6
<1> QED BY <1>7, <1>8, <1>9 DEF SInv

(* The erase that ends drain.                                              *)
LEMMA DrainReturnSound == IInv /\ SInv /\ DrainReturn => SInv'
<1> SUFFICES ASSUME IInv, SInv, DrainReturn PROVE SInv'
  OBVIOUS
<1>1. /\ tcp \in Structs /\ isn \in Int /\ next_off \in Nat /\ fins \in Nat /\ read \in Seq(Nat)
      /\ len \in 0 .. Len(tcp.out_of_order) /\ first \in Nat
  BY Types
<1>2. /\ pc = "drain" /\ ~DrainContinues(tcp, len) /\ tcp' = DrainErase(tcp, len) /\ len' = 0
      /\ pc' # "drain" /\ (cur' = Idle \/ cur' = cur)
      /\ UNCHANGED <<isn, first, next_off, fins, read, captured>>
  BY DEF DrainReturn, AfterIngest
<1>3. tcp.seeded BY <1>2 DEF SInv, Untouched
<1>4. Sound(tcp, isn, first, next_off, fins, read, captured, len, TRUE) /\ FinCarried
  BY <1>2, <1>3 DEF SInv
<1>5. Sound(tcp', isn, first, next_off, fins, read, captured, 0, FALSE)
  BY <1>1, <1>2, <1>4, EraseSound
<1>6. tcp'.seeded BY <1>1, <1>2, <1>3 DEF DrainErase, Structs
<1>7. FinCarried' BY <1>2, <1>4 DEF FinCarried, Idle
<1>8. Sound(tcp', isn', first', next_off', fins', read', captured', len', pc' = "drain")
  <2>1. (pc' = "drain") = FALSE BY <1>2
  <2> QED BY <1>2, <1>5, <2>1
<1> QED BY <1>6, <1>7, <1>8 DEF SInv

(* onData's end.                                                           *)
LEMMA FinStepSound == IInv /\ SInv /\ OnDataReturn => SInv'
<1> SUFFICES ASSUME IInv, SInv, OnDataReturn PROVE SInv'
  OBVIOUS
<1> DEFINE d == U32(tcp'.next_seq - tcp.next_seq)
<1>1. /\ tcp \in Structs /\ isn \in Int /\ next_off \in Nat /\ fins \in Nat /\ read \in Seq(Nat)
      /\ first \in Nat /\ cur.fin \in BOOLEAN
  BY Types
<1>2. /\ pc = "onData" /\ tcp' = OnDataFin(tcp, cur.fin, cur.fin_at) /\ pc' = "idle" /\ cur' = Idle
      /\ next_off' = next_off + d /\ fins' = fins + d
      /\ UNCHANGED <<len, isn, first, read, captured>>
  BY DEF OnDataReturn
<1>3. tcp.seeded /\ len = 0 /\ (pc = "drain") = FALSE BY <1>2, Types DEF SInv, Untouched
<1>4. Sound(tcp, isn, first, next_off, fins, read, captured, 0, FALSE) /\ FinCarried
  BY <1>3 DEF SInv
<1>5. \/ Sound(tcp', isn, first, next_off, fins, read, captured, 0, FALSE) /\ tcp'.next_seq = tcp.next_seq
      \/ Sound(tcp', isn, first, next_off + 1, fins + 1, read, captured, 0, FALSE)
  BY <1>1, <1>2, <1>4, FinSound DEF FinCarried
<1>6. tcp'.seeded BY <1>1, <1>2, <1>3 DEF OnDataFin, Structs
<1>7. FinCarried' BY <1>2 DEF FinCarried, Idle
<1>8. tcp.next_seq = Num(isn, next_off) BY <1>4 DEF Sound, Placed, Standing
<1>9. Sound(tcp', isn', first', next_off', fins', read', captured', len', pc' = "drain")
  <2>0. (pc' = "drain") = FALSE BY <1>2
  <2>1. CASE Sound(tcp', isn, first, next_off, fins, read, captured, 0, FALSE) /\ tcp'.next_seq = tcp.next_seq
    <3>1. d = next_off - next_off
      <4>1. tcp'.next_seq = Num(isn, next_off) BY <1>8, <2>1
      <4>2. next_off <= next_off /\ next_off - next_off < SeqSpace BY <1>1, ReachFits
      <4> QED BY <1>1, <1>8, <4>1, <4>2, OffsetMoves
    <3> HIDE DEF d
    <3>2. next_off' = next_off /\ fins' = fins BY <1>1, <1>2, <3>1
    <3> QED BY <1>2, <1>3, <2>0, <2>1, <3>2
  <2>2. CASE Sound(tcp', isn, first, next_off + 1, fins + 1, read, captured, 0, FALSE)
    <3> DEFINE to == next_off + 1
    <3>1. d = to - next_off
      <4>1. tcp'.next_seq = Num(isn, to) BY <2>2 DEF Sound, Placed, Standing
      <4>2. next_off <= to /\ to - next_off < SeqSpace /\ to \in Nat BY <1>1, ReachFits
      <4> HIDE DEF to
      <4> QED BY <1>1, <1>8, <4>1, <4>2, OffsetMoves
    <3> HIDE DEF d
    <3>2. next_off' = next_off + 1 /\ fins' = fins + 1 BY <1>1, <1>2, <3>1
    <3> QED BY <1>2, <1>3, <2>0, <2>2, <3>2
  <2> QED BY <1>5, <2>1, <2>2
<1> QED BY <1>6, <1>7, <1>9 DEF SInv

(* ingest leaves alone whether the struct is set up and keeps payload.     *)
LEMMA IngestControl ==
    ASSUME NEW t \in Structs, NEW seq, NEW span, NEW u, u = Ingest(t, seq, span)
    PROVE  u.seeded = t.seeded /\ u.keep_payload = t.keep_payload
<1>1. ASSUME NEW skip PROVE LET v == Assemble(t, span, skip)
                            IN  v.seeded = t.seeded /\ v.keep_payload = t.keep_payload
  BY DEF Assemble, Structs
<1>2. LET v == BufferAhead(t, seq, span)
      IN  v.seeded = t.seeded /\ v.keep_payload = t.keep_payload
  BY DEF BufferAhead, Structs
<1>3. LET v == CountOnly(t, seq, span)
      IN  v.seeded = t.seeded /\ v.keep_payload = t.keep_payload
  BY DEF CountOnly, Structs
<1> QED BY <1>1, <1>2, <1>3 DEF Ingest

(* How far one segment moves next_seq.                                     *)
LEMMA AdvanceBounds ==
    ASSUME NEW no \in Nat, NEW off \in Nat, NEW n \in 0 .. MaxSegment, off + n <= StreamLen,
           no - off <= Reach, off + n - no <= Reach, NEW to, to = Advance(no, off, n)
    PROVE  /\ to \in Nat /\ no <= to /\ to - no < SeqSpace
           /\ off + n = StreamLen => StreamLen - to <= Reach /\ to - StreamLen <= Reach
<1>1. n \in Nat /\ n <= MaxSegment /\ StreamLen \in Nat /\ Reach \in Nat /\ Reach < SeqSpace
      /\ SeqSpace \in Nat /\ MaxSegment \in Nat /\ MaxSegment <= Reach
  BY ReachFits
<1>2. to = no \/ (to = off + n /\ off <= no /\ no < off + n) BY DEF Advance
<1> QED BY <1>1, <1>2

(* The rest of onSent up to drain, once it has left the struct t, with the *)
(* bookkeeping of first and next_off standing at f and no.                 *)
Ingests(t, f, no, off, n, call) ==
    /\ tcp' = Ingest(t, Num(isn, off), Slice(off, n)) /\ len' = 0 /\ first' = f
    /\ UNCHANGED <<isn, fins, read>>
    /\ pc' = IF Drains(t, Num(isn, off), Slice(off, n)) THEN "drain" ELSE AfterIngest(call)
    /\ next_off' = no + U32(tcp'.next_seq - t.next_seq)
    /\ captured' = IF PastLimit(t, Num(isn, off), n) THEN captured ELSE captured \cup Stretch(off, n)
    /\ cur'.fin => off + n = StreamLen /\ cur'.fin_at = Num(isn, StreamLen)

(* Such a step on a segment of the stream preserves the invariant.         *)
LEMMA IngestStep ==
    ASSUME IInv, NEW t \in Structs, t.seeded, NEW f \in Nat, NEW no \in Nat,
           Sound(t, isn, f, no, fins, read, captured, 0, FALSE),
           NEW off \in Nat, NEW n \in 0 .. MaxSegment, off + n <= StreamLen,
           no - off <= Reach, off + n - no <= Reach,
           NEW call, Ingests(t, f, no, off, n, call)
    PROVE  SInv'
<1> DEFINE seq == Num(isn, off)
           span == Slice(off, n)
<1>0. /\ tcp' = Ingest(t, seq, span) /\ len' = 0 /\ first' = f
      /\ UNCHANGED <<isn, fins, read>>
      /\ pc' = IF Drains(t, seq, span) THEN "drain" ELSE AfterIngest(call)
      /\ next_off' = no + U32(tcp'.next_seq - t.next_seq)
      /\ captured' = IF PastLimit(t, seq, n) THEN captured ELSE captured \cup Stretch(off, n)
      /\ cur'.fin => off + n = StreamLen /\ cur'.fin_at = Num(isn, StreamLen)
  BY DEF Ingests
<1>1. isn \in Int /\ fins \in Nat /\ read \in Seq(Nat) BY Types
<1> DEFINE to   == Advance(no, off, n)
           cap2 == Capturing(t, isn, off, n, captured)
           dr   == Drains(t, seq, span)
<1>3. Sound(tcp', isn, first', to, fins, read, cap2, 0, dr)
  <2> HIDE DEF to, cap2, dr
  <2>1. to = Advance(no, off, n) /\ cap2 = Capturing(t, isn, off, n, captured) /\ dr = Drains(t, seq, span)
    BY DEF to, cap2, dr
  <2>2. seq = Num(isn, off) /\ span = Slice(off, n) OBVIOUS
  <2> HIDE DEF seq, span
  <2>3. Sound(tcp', isn, f, to, fins, read, cap2, 0, dr) BY <1>0, <1>1, <2>1, <2>2, IngestSound
  <2> QED BY <1>0, <2>3
<1>4. captured' = cap2 BY <1>0 DEF Capturing
<1> HIDE DEF seq, span
<1> HIDE DEF cap2
<1>5. to = Advance(no, off, n) OBVIOUS
<1> HIDE DEF to
<1>2. /\ to \in Nat /\ no <= to /\ to - no < SeqSpace
      /\ off + n = StreamLen => StreamLen - to <= Reach /\ to - StreamLen <= Reach
  BY <1>5, AdvanceBounds
<1>6. next_off' = to
  <2>1. t.next_seq = Num(isn, no) /\ tcp'.next_seq = Num(isn, to)
    BY <1>3 DEF Sound, Placed, Standing
  <2>2. U32(tcp'.next_seq - t.next_seq) = to - no BY <1>1, <1>2, <2>1, OffsetMoves
  <2> QED BY <1>0, <1>2, <2>2
<1>7. dr = (pc' = "drain")
  <2>1. CASE dr
    <3>1. dr = TRUE BY <2>1 DEF Drains
    <3> QED BY <1>0, <2>1, <3>1
  <2>2. CASE ~dr
    <3>1. dr = FALSE BY <2>2 DEF Drains
    <3>2. pc' # "drain" BY <1>0, <2>2 DEF AfterIngest
    <3> QED BY <3>1, <3>2
  <2> QED BY <2>1, <2>2
<1>8. tcp'.seeded BY <1>0, IngestControl
<1>9. FinCarried'
  <2>1. SUFFICES ASSUME cur'.fin PROVE StreamLen - to <= Reach /\ to - StreamLen <= Reach
    BY <1>0, <1>6 DEF FinCarried
  <2>2. off + n = StreamLen BY <1>0, <2>1
  <2> QED BY <1>2, <2>2
<1>10. Sound(tcp', isn', first', next_off', fins', read', captured', len', pc' = "drain")
  <2> HIDE DEF dr
  <2> QED BY <1>0, <1>3, <1>4, <1>6, <1>7
<1> QED BY <1>8, <1>9, <1>10 DEF SInv

(* What Send says when onSent hands the payload on.                        *)
LEMMA SendHandsOn ==
    ASSUME NEW h, NEW off, NEW n, Send(h, off, n), NEW out, out = OnSent(tcp, h), out.call # "none",
           NEW span, span = Slice(off, n)
    PROVE  /\ pc = "idle" /\ Near(off, n) /\ tcp' = Ingest(out.tcp, out.seq, span) /\ len' = 0
           /\ pc' = IF Drains(out.tcp, out.seq, span) THEN "drain" ELSE AfterIngest(out.call)
           /\ cur' = IF pc' = "idle" THEN Idle
                     ELSE [call |-> out.call, fin |-> h.fin, fin_at |-> U32(h.seq_number + n)]
           /\ first' = IF tcp.seeded THEN first ELSE off
           /\ next_off' = (IF tcp.seeded THEN next_off ELSE off) + U32(tcp'.next_seq - out.tcp.next_seq)
           /\ captured' = IF PastLimit(out.tcp, out.seq, n) THEN captured
                          ELSE captured \cup (off .. off + n - 1)
           /\ UNCHANGED <<isn, fins, read>>
BY DEF Send

(* A segment with data or FIN, or none.                                    *)
LEMMA DataStepSound == IInv /\ SInv /\ SendData => SInv'
<1> SUFFICES ASSUME IInv, SInv, SendData PROVE SInv'
  OBVIOUS
<1>1. PICK off \in 0 .. StreamLen, n \in 0 .. MaxSegment, fin \in BOOLEAN :
         /\ off + n <= StreamLen
         /\ fin => off + n = StreamLen
         /\ Send(DataHeader(off, fin), off, n)
  BY DEF SendData
<1>2. /\ tcp \in Structs /\ isn \in Int /\ isn \in SeqNumbers /\ next_off \in Nat /\ fins \in Nat
      /\ read \in Seq(Nat) /\ first \in Nat /\ (pc # "drain" => len = 0)
  BY Types
<1>3. off \in Nat /\ n \in Nat /\ n <= MaxSegment /\ MaxSegment <= Reach BY ReachFits
<1> DEFINE h == DataHeader(off, fin)
           out == OnSent(tcp, h)
           span == Slice(off, n)
<1>4. /\ h \in Headers /\ ~h.rst /\ ~h.syn /\ h.ack /\ h.fin = fin /\ h.seq_number = Num(isn, off)
  <2>1. h \in Headers BY <1>3, HeaderTypes DEF IInv
  <2> QED BY <2>1 DEF DataHeader, SeqNumber, Num
<1>5. \/ out.call = "none" /\ out.tcp = tcp
      \/ /\ out.call = "onData" /\ out.seq = Num(isn, off) /\ tcp.seeded
         /\ StateOnly(out.tcp, tcp) /\ out.tcp.state \notin FinStates
      \/ /\ out.call = "onData" /\ out.seq = Num(isn, off) /\ ~tcp.seeded
         /\ Seeds(out.tcp, tcp, Num(isn, off))
  <2> HIDE DEF h
  <2> QED BY <1>2, <1>4, DataOnSent
<1>6. out.tcp \in Structs
  <2> HIDE DEF h
  <2> QED BY <1>2, <1>4, OnSentOK
<1>7. Send(h, off, n) BY <1>1
<1> HIDE DEF h, out, span
<1>8. CASE out.call = "none"
  <2>1. tcp' = tcp /\ UNCHANGED <<pc, len, cur, isn, first, next_off, fins, read, captured>>
    BY <1>5, <1>7, <1>8 DEF Send, out
  <2> QED BY <2>1 DEF SInv, FinCarried, Untouched
<1>9. CASE out.call # "none"
  <2>1. /\ pc = "idle" /\ Near(off, n) /\ tcp' = Ingest(out.tcp, out.seq, span) /\ len' = 0
        /\ pc' = IF Drains(out.tcp, out.seq, span) THEN "drain" ELSE AfterIngest(out.call)
        /\ cur' = IF pc' = "idle" THEN Idle
                  ELSE [call |-> out.call, fin |-> h.fin, fin_at |-> U32(h.seq_number + n)]
        /\ first' = IF tcp.seeded THEN first ELSE off
        /\ next_off' = (IF tcp.seeded THEN next_off ELSE off) + U32(tcp'.next_seq - out.tcp.next_seq)
        /\ captured' = IF PastLimit(out.tcp, out.seq, n) THEN captured
                       ELSE captured \cup (off .. off + n - 1)
        /\ UNCHANGED <<isn, fins, read>>
    BY <1>7, <1>9, SendHandsOn DEF out, span
  <2>2. cur'.fin => off + n = StreamLen /\ cur'.fin_at = Num(isn, StreamLen)
    <3>1. U32(Num(isn, off) + n) = Num(isn, off + n)
      <4>1. off \in Int /\ n \in Int BY <1>3
      <4> QED BY <1>2, <4>1, NumShift
    <3>2. cur'.fin => fin /\ cur'.fin_at = U32(Num(isn, off) + n) BY <1>4, <2>1 DEF Idle
    <3> QED BY <1>1, <3>1, <3>2
  <2>3. out.seq = Num(isn, off) BY <1>5, <1>9
  <2>4. span = Slice(off, n) BY DEF span
  <2>5. CASE tcp.seeded
    <3>1. StateOnly(out.tcp, tcp) /\ out.tcp.state \notin FinStates BY <1>5, <1>9, <2>5
    <3>2. Sound(tcp, isn, first, next_off, fins, read, captured, 0, FALSE)
      <4>1. len = 0 /\ (pc = "drain") = FALSE BY <1>2, <2>1
      <4> QED BY <2>5, <4>1 DEF SInv
    <3>3. Sound(out.tcp, isn, first, next_off, fins, read, captured, 0, FALSE)
      BY <3>1, <3>2, StateSound
    <3>4. out.tcp.seeded BY <2>5, <3>1 DEF StateOnly
    <3>5. next_off - off <= Reach /\ off + n - next_off <= Reach BY <2>1, <2>5 DEF Near
    <3>6. first' = first /\ next_off' = next_off + U32(tcp'.next_seq - out.tcp.next_seq)
      BY <2>1, <2>5
    <3>7. Ingests(out.tcp, first, next_off, off, n, out.call)
      BY <2>1, <2>2, <2>3, <2>4, <3>6 DEF Ingests, Stretch
    <3> QED BY <1>1, <1>2, <1>3, <1>6, <3>3, <3>4, <3>5, <3>7, IngestStep
  <2>6. CASE ~tcp.seeded
    <3>1. Seeds(out.tcp, tcp, Num(isn, off)) BY <1>5, <1>9, <2>6
    <3>2. /\ Readable(tcp) /\ tcp.out_of_order = <<>> /\ tcp.assembled = <<>> /\ ~tcp.fin_seen
          /\ read = <<>> /\ captured = {} /\ fins = 0
      BY <2>6 DEF SInv, Untouched
    <3>3. Sound(out.tcp, isn, off, off, 0, <<>>, {}, 0, FALSE)
      BY <1>2, <3>1, <3>2, SeedSound
    <3> DEFINE no == off
    <3>4. Sound(out.tcp, isn, no, no, fins, read, captured, 0, FALSE) BY <3>2, <3>3
    <3>5. out.tcp.seeded BY <3>1 DEF Seeds
    <3>6. no - off <= Reach /\ off + n - no <= Reach /\ no \in Nat BY <1>3, ReachFits
    <3>7. first' = no /\ next_off' = no + U32(tcp'.next_seq - out.tcp.next_seq)
      BY <2>1, <2>6
    <3> HIDE DEF no
    <3>8. Ingests(out.tcp, no, no, off, n, out.call)
      BY <2>1, <2>2, <2>3, <2>4, <3>7 DEF Ingests, Stretch
    <3> QED BY <1>1, <1>2, <1>3, <1>6, <3>4, <3>5, <3>6, <3>8, IngestStep
  <2> QED BY <2>5, <2>6
<1> QED BY <1>8, <1>9

(* SYNs carry no data.  The number of a repeated SYN is that of the byte   *)
(* before the stream, and onSent hands its payload to ingest under that    *)
(* number: with data in it every byte would be taken for the one before.   *)
PlainSyns == SynPayloads \subseteq {0}

(* A SYN, the first or a repeated one.                                     *)
LEMMA SynStepSound == PlainSyns /\ IInv /\ SInv /\ SendSyn => SInv'
<1> SUFFICES ASSUME PlainSyns, IInv, SInv, SendSyn PROVE SInv'
  OBVIOUS
<1>1. PICK ack \in BOOLEAN : Send(SynHeader(ack), 0, 0)
  BY DEF SendSyn, PlainSyns
<1>2. /\ tcp \in Structs /\ isn \in Int /\ isn \in SeqNumbers /\ next_off \in Nat /\ fins \in Nat
      /\ read \in Seq(Nat) /\ first \in Nat /\ (pc # "drain" => len = 0)
  BY Types
<1> DEFINE h == SynHeader(ack)
           out == OnSent(tcp, h)
           span == Slice(0, 0)
<1>3. h \in Headers /\ ~h.rst /\ h.syn /\ ~h.fin /\ h.seq_number = isn
  <2>1. h \in Headers BY HeaderTypes DEF IInv
  <2> QED BY <2>1 DEF SynHeader
<1>4. Num(isn, 0) = U32(isn + 1)
  <2>1. isn + 1 + 0 = isn + 1 BY <1>2
  <2> QED BY <2>1 DEF Num
<1>5. \/ out.call = "none" /\ out.tcp = tcp
      \/ out.call = "onData" /\ out.seq = isn /\ tcp.seeded /\ out.tcp = tcp
      \/ /\ out.call = "ingest" /\ out.seq = Num(isn, 0) /\ ~tcp.seeded
         /\ Seeds(out.tcp, tcp, Num(isn, 0))
  <2> HIDE DEF h
  <2> QED BY <1>2, <1>3, <1>4, SynOnSent
<1>6. out.tcp \in Structs
  <2> HIDE DEF h
  <2> QED BY <1>2, <1>3, OnSentOK
<1>7. Send(h, 0, 0) BY <1>1
<1> HIDE DEF h, out, span
<1>8. CASE out.call = "none"
  <2>1. tcp' = tcp /\ UNCHANGED <<pc, len, cur, isn, first, next_off, fins, read, captured>>
    BY <1>5, <1>7, <1>8 DEF Send, out
  <2> QED BY <2>1 DEF SInv, FinCarried, Untouched
<1>9. CASE out.call # "none"
  <2>1. /\ pc = "idle" /\ Near(0, 0) /\ tcp' = Ingest(out.tcp, out.seq, span) /\ len' = 0
        /\ pc' = IF Drains(out.tcp, out.seq, span) THEN "drain" ELSE AfterIngest(out.call)
        /\ cur' = IF pc' = "idle" THEN Idle
                  ELSE [call |-> out.call, fin |-> h.fin, fin_at |-> U32(h.seq_number + 0)]
        /\ first' = IF tcp.seeded THEN first ELSE 0
        /\ next_off' = (IF tcp.seeded THEN next_off ELSE 0) + U32(tcp'.next_seq - out.tcp.next_seq)
        /\ captured' = IF PastLimit(out.tcp, out.seq, 0) THEN captured
                       ELSE captured \cup (0 .. 0 + 0 - 1)
        /\ UNCHANGED <<isn, fins, read>>
    BY <1>7, <1>9, SendHandsOn DEF out, span
  <2>2. ~cur'.fin BY <1>3, <2>1 DEF Idle
  <2>3. CASE tcp.seeded
    <3>1. out.seq = isn /\ out.tcp = tcp /\ out.call = "onData" BY <1>5, <1>9, <2>3
    <3>2. Sound(tcp, isn, first, next_off, fins, read, captured, 0, FALSE)
      <4>1. len = 0 /\ (pc = "drain") = FALSE BY <1>2, <2>1
      <4> QED BY <2>3, <4>1 DEF SInv
    <3>3. tcp.next_seq = Num(isn, next_off) BY <3>2 DEF Sound, Placed, Standing
    <3>4. Ignored(tcp, isn, span, 0)
      <4> DEFINE off == -1
      <4>1. isn = Num(isn, off)
        <5>1. isn + 1 + off = isn /\ isn = SeqSpace * 0 + isn BY <1>2, SeqSpaceAssumption
        <5>2. U32(isn) = isn BY <1>2, <5>1, ModUnique
        <5> QED BY <5>1, <5>2 DEF Num
      <4>2. /\ next_off \in Int /\ off \in Int /\ 0 \in Nat
            /\ next_off - off <= Reach + 1 /\ off < next_off /\ off + 0 <= next_off
        <5>1. next_off - 0 <= Reach BY <2>1, <2>3 DEF Near
        <5> QED BY <1>2, <5>1, ReachFits
      <4>3. Len(span) = 0 BY SliceType DEF span
      <4> HIDE DEF off
      <4> QED BY <1>2, <3>3, <4>1, <4>2, <4>3, IngestBehind
    <3>5. tcp' = tcp /\ ~Drains(tcp, isn, span) /\ ~PastLimit(tcp, isn, 0)
      BY <2>1, <3>1, <3>4 DEF Ignored
    <3>6. next_off' = next_off
      <4>1. next_off <= next_off /\ next_off - next_off < SeqSpace BY <1>2, SeqSpaceAssumption
      <4>2. U32(tcp.next_seq - tcp.next_seq) = next_off - next_off BY <1>2, <3>3, <4>1, OffsetMoves
      <4>3. next_off' = next_off + U32(tcp.next_seq - tcp.next_seq) BY <2>1, <2>3, <3>1, <3>5
      <4> QED BY <1>2, <4>2, <4>3
    <3>7. captured' = captured
      <4>1. 0 .. 0 + 0 - 1 = {} OBVIOUS
      <4> QED BY <2>1, <4>1
    <3>8. (pc' = "drain") = FALSE BY <2>1, <3>1, <3>5 DEF AfterIngest
    <3>9. Sound(tcp', isn', first', next_off', fins', read', captured', len', pc' = "drain")
      BY <2>1, <2>3, <3>2, <3>5, <3>6, <3>7, <3>8
    <3> QED BY <2>2, <2>3, <3>5, <3>9 DEF SInv, FinCarried
  <2>4. CASE ~tcp.seeded
    <3>1. out.seq = Num(isn, 0) /\ Seeds(out.tcp, tcp, Num(isn, 0)) BY <1>5, <1>9, <2>4
    <3>2. /\ Readable(tcp) /\ tcp.out_of_order = <<>> /\ tcp.assembled = <<>> /\ ~tcp.fin_seen
          /\ read = <<>> /\ captured = {} /\ fins = 0
      BY <2>4 DEF SInv, Untouched
    <3>3. 0 \in 0 .. StreamLen /\ 0 \in Nat /\ 0 \in 0 .. MaxSegment /\ 0 + 0 <= StreamLen
          /\ 0 - 0 <= Reach /\ 0 + 0 - 0 <= Reach
      BY ReachFits
    <3>4. Sound(out.tcp, isn, 0, 0, 0, <<>>, {}, 0, FALSE)
      BY <1>2, <3>1, <3>2, <3>3, SeedSound
    <3> DEFINE z == 0
    <3>5. Sound(out.tcp, isn, z, z, fins, read, captured, 0, FALSE) BY <3>2, <3>4
    <3>6. out.tcp.seeded BY <3>1 DEF Seeds
    <3>7. Ingests(out.tcp, z, z, z, z, out.call)
      BY <2>1, <2>2, <2>4, <3>1 DEF Ingests, Stretch, span
    <3>8. z \in Nat /\ z \in 0 .. MaxSegment /\ z + z <= StreamLen /\ z - z <= Reach /\ z + z - z <= Reach
      BY <3>3
    <3> HIDE DEF z
    <3> QED BY <1>6, <3>5, <3>6, <3>7, <3>8, IngestStep
  <2> QED BY <2>3, <2>4
<1> QED BY <1>8, <1>9

(* Every step preserves the invariant.                                     *)
LEMMA NextSound == PlainSyns /\ IInv /\ SInv /\ [Next]_vars => SInv'
<1>1. SInv /\ UNCHANGED vars => SInv'
  BY DEF vars, SInv, Untouched, FinCarried
<1> QED BY <1>1, SynStepSound, DataStepSound, ResetSound, DrainStepSound, DrainReturnSound,
           FinStepSound, ReceiveSound, ReadSound DEF Next

(* The invariant holds throughout.                                         *)
LEMMA AlwaysSound == ASSUME PlainSyns PROVE Spec => [](IInv /\ SInv)
<1>1. Init => IInv /\ SInv BY InitOK, InitSound
<1>2. (IInv /\ SInv) /\ [Next]_vars => (IInv /\ SInv)' BY NextOK, NextSound
<1> QED BY <1>1, <1>2, PTL DEF Spec

-----------------------------------------------------------------------------
(* What the invariant implies                                              *)

(* A buffer between calls is in order and ahead of next_seq.               *)
LEMMA BufferSorted ==
    ASSUME NEW t \in Structs, NEW i \in Int, NEW no \in Nat, NEW cap, t.next_seq = Num(i, no),
           Buffer(t.out_of_order, i, 0, no, cap, FALSE), NEW k \in 1 .. Len(t.out_of_order)
    PROVE  /\ SeqDiff(t.out_of_order[k].seq, t.next_seq) > 0
           /\ \A j \in 1 .. k - 1 : U32(t.out_of_order[j].seq - t.next_seq)
                                      < U32(t.out_of_order[k].seq - t.next_seq)
<1> DEFINE m == Len(t.out_of_order)
<1>0. m \in Nat BY DataLen
<1>1. PICK offs \in [1 .. m -> 0 .. StreamLen], size \in [1 .. m -> 0 .. MaxSegment] :
         Pieces(t.out_of_order, i, offs, size) /\ Chain(m, offs, size, 0, no, cap, FALSE)
  BY DEF Buffer
<1>2. ASSUME NEW j \in 1 .. m
      PROVE  /\ offs[j] \in Nat /\ t.out_of_order[j].seq = Num(i, offs[j])
             /\ no < offs[j] /\ offs[j] - no <= Reach
  <2>1. offs[j] \in Nat /\ size[j] \in Nat
    <3>1. offs[j] \in 0 .. StreamLen /\ size[j] \in 0 .. MaxSegment OBVIOUS
    <3> QED BY <3>1, ReachFits
  <2>2. t.out_of_order[j] = Piece(i, offs[j], size[j]) BY <1>1 DEF Pieces
  <2>3. t.out_of_order[j].seq = Num(i, offs[j]) BY <2>1, <2>2, PieceFields
  <2> QED BY <1>1, <2>1, <2>3 DEF Chain, Ahead
<1>3. ASSUME NEW j \in 1 .. m PROVE U32(t.out_of_order[j].seq - t.next_seq) = offs[j] - no
  <2>1. offs[j] \in Nat /\ no <= offs[j] /\ offs[j] - no < SeqSpace
        /\ t.out_of_order[j].seq = Num(i, offs[j])
    BY <1>2, ReachFits
  <2> QED BY <2>1, OffsetMoves
<1>4. SeqDiff(t.out_of_order[k].seq, t.next_seq) > 0
  <2> DEFINE o == offs[k]
  <2>1. /\ o \in Nat /\ t.out_of_order[k].seq = Num(i, o) /\ no < o /\ o - no <= Reach BY <1>2
  <2> HIDE DEF o
  <2>2. o - no < SeqSpace \div 2 /\ no - o <= SeqSpace \div 2 /\ o \in Int /\ no \in Int BY <2>1, ReachFits
  <2>3. SeqDiff(Num(i, o), Num(i, no)) = o - no BY <2>2, NumDiff
  <2> QED BY <2>1, <2>3
<1>5. ASSUME NEW j \in 1 .. k - 1
      PROVE  U32(t.out_of_order[j].seq - t.next_seq) < U32(t.out_of_order[k].seq - t.next_seq)
  <2>1. j \in 1 .. m /\ j < k BY <1>0
  <2>2. offs[j] < offs[k] BY <1>1, <2>1 DEF Chain, Ascending
  <2>3. offs[j] \in Int /\ offs[k] \in Int BY <1>2, <2>1
  <2> QED BY <1>3, <2>1, <2>2, <2>3
<1> QED BY <1>4, <1>5

(* The byte it waits for is not among the captured ones.                   *)
LEMMA BufferWaits ==
    ASSUME NEW ooo, NEW i, NEW no \in Nat, NEW cap, Buffer(ooo, i, 0, no, cap, FALSE)
    PROVE  no \notin cap
<1> DEFINE m == Len(ooo)
<1>1. PICK offs \in [1 .. m -> 0 .. StreamLen], size \in [1 .. m -> 0 .. MaxSegment] :
         Chain(m, offs, size, 0, no, cap, FALSE)
  BY DEF Buffer
<1>2. SUFFICES ASSUME no \in cap PROVE FALSE OBVIOUS
<1>3. PICK k \in 1 .. m : no \in Stretch(offs[k], size[k]) BY <1>1, <1>2 DEF Chain, Holds
<1>4. no < offs[k] BY <1>1 DEF Chain, Ahead
<1>5. offs[k] \in Int BY ReachFits
<1> QED BY <1>3, <1>4, <1>5 DEF Stretch

(* The invariant says what the properties say.                             *)
LEMMA SoundImplies ==
    ASSUME IInv, SInv
    PROVE  OooSorted /\ StreamExact /\ NextSeqCovered /\ NoCapturedByteMissed /\ FinAfterAllBytes
<1>1. tcp \in Structs /\ isn \in Int /\ next_off \in Nat /\ (pc # "drain" => len = 0) BY Types
<1>2. CASE ~tcp.seeded
  <2>1. Untouched BY <1>2 DEF SInv
  <2>2. Len(tcp.out_of_order) = 0 BY <2>1 DEF Untouched
  <2>3. OooSorted BY <2>2 DEF OooSorted
  <2>4. FinAfterAllBytes BY <2>1 DEF FinAfterAllBytes, Untouched, Early
  <2> QED BY <1>2, <2>3, <2>4 DEF StreamExact, NextSeqCovered, NoCapturedByteMissed
<1>3. CASE tcp.seeded
  <2>1. Sound(tcp, isn, first, next_off, fins, read, captured, len, pc = "drain")
    BY <1>3 DEF SInv
  <2>2. NextSeqCovered BY <2>1 DEF Sound, Placed, NextSeqCovered
  <2>3. FinAfterAllBytes BY <2>1 DEF Sound, Placed, Ended, FinStates, FinAfterAllBytes
  <2>4. StreamExact BY <2>1 DEF Sound, Kept, Shows, StreamExact
  <2>5. tcp.next_seq = Num(isn, next_off) BY <2>1 DEF Sound, Placed, Standing
  <2>6. tcp.keep_payload /\ pc = "idle" => Buffer(tcp.out_of_order, isn, 0, next_off, captured, FALSE)
    <3>1. HAVE tcp.keep_payload /\ pc = "idle"
    <3>2. len = 0 /\ (pc = "drain") = FALSE BY <1>1, <3>1
    <3> QED BY <2>1, <3>1, <3>2 DEF Sound, Kept
  <2>7. OooSorted
    <3>1. CASE tcp.keep_payload
      BY <1>1, <2>5, <2>6, <3>1, BufferSorted DEF OooSorted
    <3>2. CASE ~tcp.keep_payload
      <4>1. Len(tcp.out_of_order) = 0 BY <2>1, <3>2 DEF Sound, Counted
      <4> QED BY <4>1 DEF OooSorted
    <3> QED BY <3>1, <3>2
  <2>8. NoCapturedByteMissed BY <1>1, <2>6, BufferWaits DEF NoCapturedByteMissed
  <2> QED BY <2>2, <2>3, <2>4, <2>7, <2>8
<1> QED BY <1>2, <1>3

-----------------------------------------------------------------------------
(* The refinement of ByteStream                                            *)

(* Every byte presented to the reader, taken or not: the view of Promise.  *)
View == read \o Peek(tcp)

(* The view, by where the struct stands in the stream.                     *)
ViewSpan ==
    /\ tcp.seeded /\ tcp.keep_payload => View = Slice(first, (next_off - fins) - first)
    /\ ~(tcp.seeded /\ tcp.keep_payload) => View = <<>>

(* What is presented is the stream from first up to next_off, less the     *)
(* numbers a FIN has taken, or nothing before there is anything to keep.   *)
LEMMA ViewIs == IInv /\ SInv => ViewSpan
<1> SUFFICES ASSUME IInv, SInv PROVE ViewSpan
  OBVIOUS
<1>1. CASE tcp.seeded /\ tcp.keep_payload
  BY <1>1 DEF SInv, Sound, Kept, Shows, View, ViewSpan
<1>2. CASE ~(tcp.seeded /\ tcp.keep_payload)
  <2>1. tcp.assembled = <<>> /\ read = <<>> /\ Readable(tcp)
    BY <1>2 DEF SInv, Sound, Counted, Untouched
  <2>2. tcp.read_pos \in Nat /\ tcp.read_pos <= 0 BY <2>1, Types DEF Readable, Structs
  <2>3. tcp.read_pos = 0 BY <2>2
  <2>4. Peek(tcp) = SubSeq(<<>>, 1, 0)
    <3>1. 0 + 1 = 1 /\ Len(<<>>) = 0 OBVIOUS
    <3> QED BY <2>1, <2>3, <3>1 DEF Peek
  <2>5. Peek(tcp) = <<>> BY <2>4
  <2>6. <<>> \o <<>> = <<>> OBVIOUS
  <2> QED BY <1>2, <2>1, <2>5, <2>6 DEF View, ViewSpan
<1> QED BY <1>1, <1>2

(* w is v, or v and the bytes that come next.                              *)
Follows(v, w) ==
    \/ w = v
    \/ \E from \in 0 .. StreamLen, n \in 1 .. StreamLen :
          /\ from + n <= StreamLen
          /\ v # <<>> => from = v[Len(v)] + 1
          /\ w = v \o Slice(from, n)

(* A longer run from the same byte follows a shorter one.                  *)
LEMMA SliceFollows ==
    ASSUME NEW f \in Nat, NEW a \in Nat, NEW b \in Nat, a <= b, f + b <= StreamLen,
           NEW v, v = Slice(f, a), NEW w, w = Slice(f, b)
    PROVE  Follows(v, w)
<1>0. StreamLen \in Nat BY ReachFits
<1>1. CASE a = b BY <1>1 DEF Follows
<1>2. CASE a # b
  <2> DEFINE from == f + a
             n == b - a
  <2>1. from \in 0 .. StreamLen /\ n \in 1 .. StreamLen /\ n \in Nat /\ from + n <= StreamLen /\ a + n = b
    BY <1>0, <1>2
  <2>2. Slice(f, a) \o Slice(f + a, n) = Slice(f, a + n)
    <3> HIDE DEF n
    <3> QED BY <2>1, SliceJoin
  <2>3. w = v \o Slice(from, n) BY <2>1, <2>2
  <2>4. v # <<>> => from = v[Len(v)] + 1
    <3>1. HAVE v # <<>>
    <3>2. a # 0 BY <3>1, SliceNone
    <3>3. Len(v) = a BY SliceType
    <3>4. a \in 1 .. a BY <3>2
    <3>5. v[a] = f + a - 1 BY <3>4 DEF Slice
    <3> QED BY <3>3, <3>5
  <2> HIDE DEF from, n
  <2> QED BY <2>1, <2>3, <2>4 DEF Follows
<1> QED BY <1>1, <1>2

(* The same for runs given by where they end.                              *)
LEMMA EndsFollow ==
    ASSUME NEW f \in Nat, NEW e \in Int, NEW g \in Int, f <= e, e <= g, g <= StreamLen,
           NEW v, v = Slice(f, e - f), NEW w, w = Slice(f, g - f)
    PROVE  Follows(v, w)
<1> DEFINE a == e - f
           b == g - f
<1>1. a \in Nat /\ b \in Nat /\ a <= b /\ f + b <= StreamLen BY ReachFits
<1>2. v = Slice(f, a) /\ w = Slice(f, b) OBVIOUS
<1> HIDE DEF a, b
<1> QED BY <1>1, <1>2, SliceFollows

(* The first bytes presented follow nothing.                               *)
LEMMA StartFollows ==
    ASSUME NEW f \in Nat, NEW g \in Int, f <= g, g <= StreamLen, NEW w, w = Slice(f, g - f)
    PROVE  Follows(<<>>, w)
<1> DEFINE e == f
           z == e - f
           v == Slice(f, z)
<1>1. e \in Int /\ f <= e /\ e <= g /\ z = 0 OBVIOUS
<1>2. v = <<>> BY <1>1, SliceNone
<1>3. Slice(f, e - f) = v OBVIOUS
<1> HIDE DEF e, z, v
<1>4. Follows(v, w) BY <1>1, <1>3, EndsFollow
<1> QED BY <1>2, <1>4

(* What every step but the reader's leaves alone.                          *)
Onward ==
    /\ read' = read /\ tcp'.keep_payload = tcp.keep_payload
    /\ tcp.seeded => /\ tcp'.seeded /\ first' = first
                     /\ next_off - fins <= next_off' - fins'

(* onSent before ingest.                                                   *)
LEMMA OnSentControl ==
    ASSUME NEW t \in Structs, NEW h \in Headers, NEW out, out = OnSent(t, h)
    PROVE  out.tcp.keep_payload = t.keep_payload /\ (t.seeded => out.tcp.seeded)
BY DEF OnSent, Structs, Headers

(* A segment of the sender, with what ingest does with its payload.        *)
LEMMA SendOnward ==
    ASSUME IInv, IInv', NEW h \in Headers, NEW off \in Nat, NEW n \in Nat, Send(h, off, n)
    PROVE  Onward
<1> DEFINE out == OnSent(tcp, h)
           span == Slice(off, n)
<1>1. tcp \in Structs /\ next_off \in Nat /\ fins \in Nat BY Types
<1>2. out.tcp \in Structs /\ out.tcp.keep_payload = tcp.keep_payload /\ (tcp.seeded => out.tcp.seeded)
  BY <1>1, OnSentOK, OnSentControl
<1>3. tcp' \in Structs BY DEF IInv, TypeOK
<1> HIDE DEF out, span
<1>4. CASE out.call = "none"
  <2>1. tcp' = out.tcp /\ UNCHANGED <<first, next_off, fins, read>> BY <1>4 DEF Send, out
  <2> QED BY <1>1, <1>2, <2>1 DEF Onward
<1>5. CASE out.call # "none"
  <2>1. /\ tcp' = Ingest(out.tcp, out.seq, span) /\ UNCHANGED <<fins, read>>
        /\ first' = IF tcp.seeded THEN first ELSE off
        /\ next_off' = (IF tcp.seeded THEN next_off ELSE off) + U32(tcp'.next_seq - out.tcp.next_seq)
    BY <1>5, SendHandsOn DEF out, span
  <2>2. tcp'.keep_payload = tcp.keep_payload /\ (tcp.seeded => tcp'.seeded)
    BY <1>2, <2>1, IngestControl
  <2>3. U32(tcp'.next_seq - out.tcp.next_seq) \in Nat
    <3>1. tcp'.next_seq \in Int /\ out.tcp.next_seq \in Int
      BY <1>2, <1>3, SeqSpaceAssumption DEF Structs, SeqNumbers
    <3> QED BY <3>1, DistanceNat
  <2> QED BY <1>1, <2>1, <2>2, <2>3 DEF Onward
<1> QED BY <1>4, <1>5

(* A step of the call, of the sender or of the other side.                 *)
LEMMA StepOnward ==
    ASSUME IInv, IInv', Next
    PROVE  Onward \/ Read
<1>1. /\ tcp \in Structs /\ tcp' \in Structs /\ next_off \in Nat /\ fins \in Nat
      /\ len \in 0 .. Len(tcp.out_of_order)
  BY DEF IInv, TypeOK
<1>2. U32(tcp'.next_seq - tcp.next_seq) \in Nat
  <2>1. tcp'.next_seq \in Int /\ tcp.next_seq \in Int
    BY <1>1, SeqSpaceAssumption DEF Structs, SeqNumbers
  <2> QED BY <2>1, DistanceNat
<1>3. CASE SendSyn
  <2>1. PICK ack \in BOOLEAN, n \in SynPayloads : Send(SynHeader(ack), 0, n) BY <1>3 DEF SendSyn
  <2>2. n \in Nat /\ 0 \in Nat BY StreamAssumption
  <2>3. SynHeader(ack) \in Headers BY HeaderTypes DEF IInv
  <2> QED BY <2>1, <2>2, <2>3, SendOnward
<1>4. CASE SendData
  <2>1. PICK off \in 0 .. StreamLen, n \in 0 .. MaxSegment, fin \in BOOLEAN :
           Send(DataHeader(off, fin), off, n)
    BY <1>4 DEF SendData
  <2>2. off \in Nat /\ n \in Nat BY StreamAssumption
  <2>3. DataHeader(off, fin) \in Headers BY <2>2, HeaderTypes DEF IInv
  <2> QED BY <2>1, <2>2, <2>3, SendOnward
<1>5. CASE SendReset
  <2>1. Send(ResetHeader, next_off, 0) BY <1>5 DEF SendReset
  <2>2. ResetHeader \in Headers BY HeaderTypes DEF IInv
  <2>3. 0 \in Nat OBVIOUS
  <2> QED BY <1>1, <2>1, <2>2, <2>3, SendOnward
<1>6. CASE Drain
  <2>1. tcp'.keep_payload = tcp.keep_payload /\ tcp'.seeded = tcp.seeded
    BY <1>1, <1>6 DEF Drain, DrainStep, Assemble, Structs
  <2>2. /\ next_off' = next_off + U32(tcp'.next_seq - tcp.next_seq)
        /\ UNCHANGED <<first, fins, read>>
    BY <1>6 DEF Drain
  <2> QED BY <1>1, <1>2, <2>1, <2>2 DEF Onward
<1>7. CASE DrainReturn
  <2>1. tcp'.keep_payload = tcp.keep_payload /\ tcp'.seeded = tcp.seeded
    BY <1>1, <1>7 DEF DrainReturn, DrainErase, Structs
  <2>2. UNCHANGED <<first, next_off, fins, read>> BY <1>7 DEF DrainReturn
  <2> QED BY <1>1, <2>1, <2>2 DEF Onward
<1>8. CASE OnDataReturn
  <2>1. tcp'.keep_payload = tcp.keep_payload /\ tcp'.seeded = tcp.seeded
    BY <1>1, <1>8 DEF OnDataReturn, OnDataFin, Structs
  <2>2. /\ next_off' = next_off + U32(tcp'.next_seq - tcp.next_seq)
        /\ fins' = fins + U32(tcp'.next_seq - tcp.next_seq)
        /\ UNCHANGED <<first, read>>
    BY <1>8 DEF OnDataReturn
  <2> QED BY <1>1, <1>2, <2>1, <2>2 DEF Onward
<1>9. CASE Receive
  <2>1. PICK h : tcp' = OnReceived(tcp, h) BY <1>9 DEF Receive, ReceiveSegment
  <2>2. StateOnly(tcp', tcp) BY <1>1, <2>1, ReceivedState
  <2>3. UNCHANGED <<first, next_off, fins, read>> BY <1>9 DEF Receive, ReceiveSegment
  <2> QED BY <1>1, <2>2, <2>3 DEF Onward, StateOnly
<1> QED BY <1>3, <1>4, <1>5, <1>6, <1>7, <1>8, <1>9 DEF Next

(* Such a step presents the bytes that come next, or none.                 *)
LEMMA OnwardFollows ==
    ASSUME IInv, SInv, IInv', SInv', Onward
    PROVE  Follows(View, View') /\ Len(read') = Len(read)
<1>0. Len(read') = Len(read) BY DEF Onward
<1>1. ViewSpan BY ViewIs
<1>2. ViewSpan' BY ViewIs, PTL
<1>3. /\ first' \in Nat /\ next_off' \in Nat /\ fins' \in Nat
      /\ first \in Nat /\ next_off \in Nat /\ fins \in Nat
  BY ReachFits DEF IInv, TypeOK
<1>4. CASE tcp'.seeded /\ tcp'.keep_payload
  <2> DEFINE f == first'
             g == next_off' - fins'
             w == View'
  <2>1. f <= g /\ g <= StreamLen
    BY <1>4 DEF SInv, Sound, Placed, Standing
  <2>2. w = Slice(f, g - f) BY <1>2, <1>4 DEF ViewSpan
  <2>3. f \in Nat /\ g \in Int BY <1>3
  <2>4. CASE tcp.seeded
    <3> DEFINE e == next_off - fins
               v == View
    <3>1. first' = first /\ e <= g /\ tcp.keep_payload BY <1>4, <2>4 DEF Onward
    <3>2. f <= e BY <2>4, <3>1 DEF SInv, Sound, Placed, Standing
    <3>3. v = Slice(f, e - f) BY <1>1, <2>4, <3>1 DEF ViewSpan
    <3>4. e \in Int BY <1>3
    <3> HIDE DEF e, f, g, v, w
    <3>5. Follows(v, w) BY <2>1, <2>2, <2>3, <3>1, <3>2, <3>3, <3>4, EndsFollow
    <3> QED BY <1>0, <3>5 DEF v, w
  <2>5. CASE ~tcp.seeded
    <3>1. View = <<>> BY <1>1, <2>5 DEF ViewSpan
    <3> HIDE DEF f, g, w
    <3>2. Follows(<<>>, w) BY <2>1, <2>2, <2>3, StartFollows
    <3> QED BY <1>0, <3>1, <3>2 DEF w
  <2> QED BY <2>4, <2>5
<1>5. CASE ~(tcp'.seeded /\ tcp'.keep_payload)
  <2>1. ~(tcp.seeded /\ tcp.keep_payload) BY <1>5 DEF Onward
  <2>2. View' = View BY <1>1, <1>2, <1>5, <2>1 DEF ViewSpan
  <2> QED BY <1>0, <2>2 DEF Follows
<1> QED BY <1>4, <1>5

(* The reader takes bytes that were presented.                             *)
LEMMA ReadTakes ==
    ASSUME IInv, SInv, Read
    PROVE  \E n \in 1 .. Len(View) - Len(read) : Len(read') = Len(read) + n /\ View' = View
<1>1. tcp \in Structs /\ read \in Seq(Nat) BY Types
<1>2. PICK n \in 1 .. Available(tcp) :
         read' = read \o SubSeq(Peek(tcp), 1, n) /\ tcp' = Consume(tcp, n)
  BY DEF Read
<1>3. Readable(tcp) BY DEF SInv, Sound, Untouched
<1> DEFINE front == SubSeq(Peek(tcp), 1, n)
           p == Peek(tcp)
           q == Peek(tcp')
<1>4. front \in Seq(Nat) /\ q \in Seq(Nat) /\ Len(front) = n /\ front \o q = p
  BY <1>1, <1>2, <1>3, ConsumeView
<1>5. p \in Seq(Nat) BY <1>1, PeekType
<1>6. read' = read \o front BY <1>2
<1>7. View = read \o p /\ View' = read' \o q BY DEF View
<1> HIDE DEF front, p, q
<1>8. View' = View
  <2>1. (read \o front) \o q = read \o (front \o q) BY <1>1, <1>4, ConcatBytes
  <2> QED BY <1>4, <1>6, <1>7, <2>1
<1>9. Len(read') = Len(read) + n /\ Len(read) \in Nat BY <1>1, <1>4, <1>6, ConcatProperties, LenProperties
<1>10. n <= Len(p) /\ Len(p) \in Nat
  <2>1. Len(front \o q) = Len(front) + Len(q) /\ Len(q) \in Nat BY <1>4, ConcatProperties, LenProperties
  <2>2. n \in Int OBVIOUS
  <2> QED BY <1>4, <2>1, <2>2
<1>11. Len(View) = Len(read) + Len(p) BY <1>1, <1>5, <1>7, ConcatProperties
<1>12. n \in 1 .. Len(View) - Len(read) BY <1>9, <1>10, <1>11
<1> QED BY <1>8, <1>9, <1>12


(* One step of the reassembler is one step of the promise or none.         *)
LEMMA StepPromised ==
    IInv /\ SInv /\ IInv' /\ SInv' /\ [Next]_vars
       => [Promise!Arrive \/ Promise!Take]_<<read \o Peek(tcp), Len(read)>>
<1> SUFFICES ASSUME IInv, SInv, IInv', SInv', [Next]_vars
             PROVE  [Promise!Arrive \/ Promise!Take]_<<View, Len(read)>>
  BY DEF View
<1>1. CASE UNCHANGED vars
  <2>1. View' = View /\ Len(read') = Len(read) BY <1>1 DEF vars, View
  <2> QED BY <2>1
<1>2. CASE Onward
  <2>1. Follows(View, View') /\ Len(read') = Len(read) BY <1>2, OnwardFollows
  <2>2. CASE View' = View BY <2>1, <2>2
  <2>3. CASE View' # View
    <3>1. \E from \in 0 .. StreamLen, n \in 1 .. StreamLen :
             /\ from + n <= StreamLen
             /\ View # <<>> => from = View[Len(View)] + 1
             /\ View' = View \o Slice(from, n)
      BY <2>1, <2>3 DEF Follows
    <3>2. Promise!Arrive BY <2>1, <3>1 DEF Promise!Arrive, Promise!Run, Slice, View
    <3> QED BY <3>2
  <2> QED BY <2>2, <2>3
<1>3. CASE Read
  <2>1. \E n \in 1 .. Len(View) - Len(read) : Len(read') = Len(read) + n /\ View' = View
    BY <1>3, ReadTakes
  <2>2. Promise!Take BY <2>1 DEF Promise!Take, View
  <2> QED BY <2>2
<1> QED BY <1>1, <1>2, <1>3, StepOnward

(* Nothing is presented at the start.                                      *)
LEMMA InitPromised == Init => Promise!Init
<1> SUFFICES ASSUME Init PROVE Promise!Init
  OBVIOUS
<1>1. read = <<>> /\ ~tcp.seeded BY DEF Init, Fresh
<1>2. ViewSpan BY InitOK, InitSound, ViewIs
<1>3. View = <<>> BY <1>1, <1>2 DEF ViewSpan
<1>4. Len(read) = 0 BY <1>1
<1> QED BY <1>3, <1>4 DEF Promise!Init, View
-----------------------------------------------------------------------------
(* Theorems                                                                *)

(* What the reader has taken and can still take is the sender's stream     *)
(* from the first byte on, no byte lost, repeated or moved, whatever the   *)
(* order in which segments are captured, repeated and cut, across the wrap *)
(* of sequence numbers, the limit of the buffer and compaction.            *)
THEOREM StreamIsExact == ASSUME PlainSyns PROVE Spec => []StreamExact
<1>1. IInv /\ SInv => StreamExact BY SoundImplies
<1> QED BY <1>1, AlwaysSound, PTL

(* Between calls the buffered segments lie ahead of next_seq in increasing *)
(* order: the range that ingest's std::lower_bound searches is one it may  *)
(* be asked to search, and drain may stop at the first segment ahead.      *)
THEOREM BufferIsSorted == ASSUME PlainSyns PROVE Spec => []OooSorted
<1>1. IInv /\ SInv => OooSorted BY SoundImplies
<1> QED BY <1>1, AlwaysSound, PTL

(* next_seq never runs ahead of what was captured, with or without payload *)
(* kept.                                                                   *)
THEOREM NextSeqIsCovered == ASSUME PlainSyns PROVE Spec => []NextSeqCovered
<1>1. IInv /\ SInv => NextSeqCovered BY SoundImplies
<1> QED BY <1>1, AlwaysSound, PTL

(* Between calls the byte that next_seq waits for has not been captured:   *)
(* neither replacement in the buffer nor drain forgets one.                *)
THEOREM NothingIsMissed == ASSUME PlainSyns PROVE Spec => []NoCapturedByteMissed
<1>1. IInv /\ SInv => NoCapturedByteMissed BY SoundImplies
<1> QED BY <1>1, AlwaysSound, PTL

(* The state shows the direction closed only when its stream was assembled *)
(* to the end: onData lets a FIN that comes early wait.                    *)
THEOREM FinIsLast == ASSUME PlainSyns PROVE Spec => []FinAfterAllBytes
<1>1. IInv /\ SInv => FinAfterAllBytes BY SoundImplies
<1> QED BY <1>1, AlwaysSound, PTL


(* The reassembler implements ByteStream: what has been read and can be    *)
(* read is one view of the sender's stream that only grows at its end, by  *)
(* the bytes that come next, and nothing in it is ever taken back.         *)
THEOREM ByteStreamImplemented == ASSUME PlainSyns PROVE Spec => ImplementsByteStream
<1>1. Spec => [](IInv /\ SInv) BY AlwaysSound
<1> QED BY <1>1, InitPromised, StepPromised, PTL DEF Spec, ImplementsByteStream, Promise!Spec
=============================================================================
