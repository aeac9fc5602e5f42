-------------------------- MODULE TcpStream_proofs --------------------------
(***************************************************************************)
(* What holds of TcpStream for every sequence space, limit, stream length, *)
(* reach and set of peer flags: the types, and the bookkeeping of the      *)
(* out-of-order buffer.                                                    *)
(***************************************************************************)
EXTENDS TcpStream, SequenceTheorems, WellFoundedInduction, TLAPS

-----------------------------------------------------------------------------
(* Arithmetic and sequences                                                *)

(* Reducing an integer modulo 2^32 gives a sequence number.                *)
LEMMA U32Type == \A x \in Int : U32(x) \in SeqNumbers
BY SeqSpaceAssumption DEF U32, SeqNumbers

(* The distance between two sequence numbers is a natural number.          *)
LEMMA DistanceNat == \A a, b \in Int : U32(a - b) \in Nat
<1>1. \A a, b \in Int : a - b \in Int OBVIOUS
<1>2. \A a, b \in Int : U32(a - b) \in SeqNumbers BY <1>1, U32Type
<1>3. \A x \in SeqNumbers : x \in Nat BY SeqSpaceAssumption DEF SeqNumbers
<1> QED BY <1>2, <1>3, Zenon

(* A non-empty set of natural numbers has a least element, and Min is it.  *)
LEMMA MinOfNats ==
    ASSUME NEW S \in SUBSET Nat, S # {}
    PROVE  Min(S) \in S /\ \A y \in S : Min(S) <= y
<1>1. PICK x \in S : \A y \in S : ~(<<y, x>> \in OpToRel(<, Nat))
  BY NatLessThanWellFounded, WFMin, Zenon
<1>2. \A a, b \in Nat : a < b => <<a, b>> \in OpToRel(<, Nat)
  BY DEF OpToRel
<1>3. \A y \in S : ~(y < x)
  BY <1>1, <1>2, Zenon
<1>4. \A y \in S : x <= y
  BY <1>3
<1> QED BY <1>4 DEF Min

(* std::lower_bound returns a position of the buffer or the one past it.   *)
LEMMA LowerBoundType ==
    ASSUME NEW t, t.out_of_order \in Seq(Segments), NEW seq
    PROVE  LowerBound(t, seq) \in 1 .. Len(t.out_of_order) + 1
<1> DEFINE S == {i \in 1 .. Len(t.out_of_order) :
                    U32(t.out_of_order[i].seq - t.next_seq) >= U32(seq - t.next_seq)}
                \cup {Len(t.out_of_order) + 1}
<1>1. Len(t.out_of_order) \in Nat
  BY LenProperties
<1>2. S \in SUBSET Nat /\ S # {} /\ S \subseteq 1 .. Len(t.out_of_order) + 1
  BY <1>1
<1>3. Min(S) \in S
  <2> HIDE DEF S
  <2> QED BY <1>2, MinOfNats
<1> QED BY <1>2, <1>3 DEF LowerBound

(* new is s with e put in at position i.                                   *)
Inserted(new, s, i, e) ==
    /\ Len(new) = Len(s) + 1
    /\ \A k \in 1 .. Len(s) + 1 :
          new[k] = IF k < i THEN s[k] ELSE IF k = i THEN e ELSE s[k - 1]

(* InsertAt puts it there.                                                 *)
LEMMA InsertAtProperties ==
    ASSUME NEW S, NEW s \in Seq(S), NEW i \in 1 .. Len(s) + 1, NEW e \in S
    PROVE  /\ InsertAt(s, i, e) \in Seq(S)
           /\ Inserted(InsertAt(s, i, e), s, i, e)
<1> DEFINE front == SubSeq(s, 1, i - 1)
           back  == SubSeq(s, i, Len(s))
           mid   == front \o <<e>>
<1>0. Len(s) \in Nat BY LenProperties
<1>1. front \in Seq(S) /\ Len(front) = i - 1 /\ \A k \in 1 .. i - 1 : front[k] = s[k]
  BY <1>0, SubSeqProperties
<1>2. back \in Seq(S) /\ Len(back) = Len(s) - i + 1
      /\ \A k \in 1 .. Len(s) - i + 1 : back[k] = s[i + k - 1]
  BY <1>0, SubSeqProperties
<1>3. mid \in Seq(S) /\ Len(mid) = i /\ mid[i] = e
      /\ \A k \in 1 .. i - 1 : mid[k] = s[k]
  <2>1. <<e>> \in Seq(S) /\ Len(<<e>>) = 1 /\ <<e>>[1] = e OBVIOUS
  <2> HIDE DEF front
  <2> QED BY <1>1, <2>1, <1>0, ConcatProperties
<1>4. InsertAt(s, i, e) = mid \o back BY DEF InsertAt
<1> HIDE DEF mid, back
<1>5. /\ mid \o back \in Seq(S) /\ Len(mid \o back) = Len(s) + 1
      /\ \A k \in 1 .. Len(s) + 1 :
            (mid \o back)[k] = IF k <= i THEN mid[k] ELSE back[k - i]
  BY <1>0, <1>2, <1>3, ConcatProperties
<1> QED BY <1>0, <1>2, <1>3, <1>4, <1>5 DEF Inserted

-----------------------------------------------------------------------------
(* The methods keep the struct's types                                     *)

(* A slice of the stream is a payload.                                     *)
LEMMA SliceType ==
    ASSUME NEW off \in Nat, NEW n \in Nat
    PROVE  Slice(off, n) \in Seq(Nat) /\ Len(Slice(off, n)) = n
<1>1. Slice(off, n) \in [1 .. n -> Nat] BY DEF Slice
<1> QED BY <1>1

(* What is left of a payload is a payload.                                 *)
LEMMA TailType ==
    ASSUME NEW S, NEW s \in Seq(S), NEW k \in Nat
    PROVE  SubSeq(s, k + 1, Len(s)) \in Seq(S)
BY LenProperties, SubSeqProperties

(* Assembling changes assembled and next_seq only.                         *)
LEMMA AssembleType ==
    ASSUME NEW t \in Structs, NEW span \in Seq(Nat), NEW skip \in Nat
    PROVE  /\ Assemble(t, span, skip) \in Structs
           /\ Assemble(t, span, skip).out_of_order = t.out_of_order
           /\ Assemble(t, span, skip).ooo_bytes = t.ooo_bytes
<1>1. SubSeq(span, skip + 1, Len(span)) \in Seq(Nat) BY TailType
<1>2. t.assembled \in Seq(Nat) /\ t.next_seq \in Int
  BY SeqSpaceAssumption DEF Structs, SeqNumbers
<1>3. t.assembled \o SubSeq(span, skip + 1, Len(span)) \in Seq(Nat)
  BY <1>1, <1>2, ConcatProperties
<1>4. U32(t.next_seq + Len(span) - skip) \in SeqNumbers
  BY <1>2, LenProperties, U32Type
<1> QED BY <1>3, <1>4 DEF Assemble, Structs

(* The counting path changes next_seq only.                                *)
LEMMA CountOnlyType ==
    ASSUME NEW t \in Structs, NEW span \in Seq(Nat), NEW seq \in SeqNumbers
    PROVE  /\ CountOnly(t, seq, span) \in Structs
           /\ CountOnly(t, seq, span).out_of_order = t.out_of_order
           /\ CountOnly(t, seq, span).ooo_bytes = t.ooo_bytes
<1>1. t.next_seq \in Int /\ seq \in Int /\ Len(span) \in Int
  BY SeqSpaceAssumption, LenProperties DEF Structs, SeqNumbers
<1>2. U32(t.next_seq - seq) \in Int
  BY <1>1, U32Type, SeqSpaceAssumption DEF SeqNumbers
<1>3. U32(t.next_seq + Len(span) - U32(t.next_seq - seq)) \in SeqNumbers
  BY <1>1, <1>2, U32Type
<1> QED BY <1>3 DEF CountOnly, Structs

-----------------------------------------------------------------------------
(* The methods keep ooo_bytes right                                        *)

(* The length of a buffered segment's payload is a number.                 *)
LEMMA DataLen ==
    ASSUME NEW t \in Structs
    PROVE  /\ Len(t.out_of_order) \in Nat
           /\ \A k \in 1 .. Len(t.out_of_order) :
                 /\ t.out_of_order[k] \in Segments
                 /\ t.out_of_order[k].seq \in Int
                 /\ t.out_of_order[k].data \in Seq(Nat)
                 /\ Len(t.out_of_order[k].data) \in Nat
<1>1. t.out_of_order \in Seq(Segments) BY DEF Structs
<1>2. /\ Len(t.out_of_order) \in Nat
      /\ \A k \in 1 .. Len(t.out_of_order) : t.out_of_order[k] \in Segments
  BY <1>1, LenProperties
<1>3. \A e \in Segments : e.seq \in Int /\ e.data \in Seq(Nat) /\ Len(e.data) \in Nat
  BY LenProperties, SeqSpaceAssumption DEF Segments, SeqNumbers
<1> QED BY <1>2, <1>3

(* rem holds the running totals of n sizes, none past the limit.           *)
IsSums(rem, n, size) ==
    /\ rem \in [0 .. n -> 0 .. MAX_OOO_BYTES]
    /\ rem[n] = 0
    /\ \A k \in 0 .. n - 1 : rem[k] = rem[k + 1] + size[k + 1]
    /\ \A j, k \in 0 .. n : j <= k => rem[k] <= rem[j]

Sizes(t) == [k \in 1 .. Len(t.out_of_order) |-> Len(t.out_of_order[k].data)]

(* The running totals of a struct are those of its segments' lengths.      *)
LEMMA SumsOfSizes ==
    ASSUME NEW t \in Structs
    PROVE  /\ Len(t.out_of_order) \in Nat
           /\ Sizes(t) \in [1 .. Len(t.out_of_order) -> Nat]
           /\ \A rem : rem \in SuffixSums(t) <=> IsSums(rem, Len(t.out_of_order), Sizes(t))
<1>1. Len(t.out_of_order) \in Nat BY DataLen
<1>2. Sizes(t) \in [1 .. Len(t.out_of_order) -> Nat] BY DataLen DEF Sizes
<1>3. \A k \in 0 .. Len(t.out_of_order) - 1 :
         Sizes(t)[k + 1] = Len(t.out_of_order[k + 1].data)
  BY <1>1 DEF Sizes
<1> QED BY <1>1, <1>2, <1>3 DEF SuffixSums, IsSums

(* The same number added on both sides.                                    *)
LEMMA AddBoth == \A a, b, c, d \in Nat :
    a = b + c => a + d = (b + d) + c /\ a + d = b + (c + d)
OBVIOUS

(* Running totals stay within the limit when d more is added to all.       *)
LEMMA SumsRoom ==
    ASSUME NEW n \in Nat, NEW rem, NEW size, IsSums(rem, n, size),
           NEW d \in Nat, rem[0] + d <= MAX_OOO_BYTES
    PROVE  \A k \in 0 .. n : /\ rem[k] \in Nat /\ rem[k] \in 0 .. MAX_OOO_BYTES
                             /\ rem[k] + d \in 0 .. MAX_OOO_BYTES
<1>1. TAKE k \in 0 .. n
<1>2. rem[k] \in 0 .. MAX_OOO_BYTES /\ rem[0] \in 0 .. MAX_OOO_BYTES
  BY DEF IsSums
<1>3. rem[k] <= rem[0] BY DEF IsSums
<1> QED BY <1>2, <1>3, LimitsAssumption

(* A size d is put in at position i.                                       *)
LEMMA SumsInsert ==
    ASSUME NEW n \in Nat, NEW d \in Nat, NEW i \in 1 .. n + 1,
           NEW size \in [1 .. n -> Nat], NEW larger, NEW rem, IsSums(rem, n, size),
           rem[0] + d <= MAX_OOO_BYTES,
           \A k \in 1 .. n + 1 : larger[k] = IF k < i THEN size[k]
                                             ELSE IF k = i THEN d ELSE size[k - 1]
    PROVE  \E more : IsSums(more, n + 1, larger) /\ more[0] = rem[0] + d
<1>1. \A k \in 0 .. n : /\ rem[k] \in Nat /\ rem[k] \in 0 .. MAX_OOO_BYTES
                        /\ rem[k] + d \in 0 .. MAX_OOO_BYTES
  BY SumsRoom
<1>0. /\ rem[n] = 0
      /\ \A k \in 0 .. n - 1 : rem[k] = rem[k + 1] + size[k + 1]
      /\ \A j, k \in 0 .. n : j <= k => rem[k] <= rem[j]
  BY DEF IsSums
<1> DEFINE more == [k \in 0 .. n + 1 |-> IF k < i THEN rem[k] + d ELSE rem[k - 1]]
<1>2. \A k \in 0 .. n + 1 : more[k] \in 0 .. MAX_OOO_BYTES
                            /\ more[k] = IF k < i THEN rem[k] + d ELSE rem[k - 1]
  <2>1. TAKE k \in 0 .. n + 1
  <2>2. CASE k < i
    <3>1. k \in 0 .. n BY <2>2
    <3> QED BY <2>2, <3>1, <1>1
  <2>3. CASE ~(k < i)
    <3>1. k - 1 \in 0 .. n BY <2>3
    <3> QED BY <2>3, <3>1, <1>1
  <2> QED BY <2>2, <2>3
<1>3. more \in [0 .. n + 1 -> 0 .. MAX_OOO_BYTES]
  BY <1>2
<1> HIDE DEF more
<1>4. more[n + 1] = 0 /\ more[0] = rem[0] + d
  BY <1>0, <1>2
<1>5. ASSUME NEW k \in 0 .. n PROVE more[k] = more[k + 1] + larger[k + 1]
  <2>1. CASE k + 1 < i
    <3>1. k \in 0 .. n - 1 /\ k + 1 \in 1 .. n BY <2>1
    <3>2. rem[k] = rem[k + 1] + size[k + 1] BY <3>1, <1>0
    <3>3. more[k] = rem[k] + d /\ more[k + 1] = rem[k + 1] + d BY <2>1, <3>1, <1>2
    <3>4. larger[k + 1] = size[k + 1] /\ size[k + 1] \in Nat BY <2>1, <3>1
    <3>5. rem[k] \in Nat /\ rem[k + 1] \in Nat BY <3>1, <1>1
    <3>6. rem[k] + d = (rem[k + 1] + d) + size[k + 1] BY <3>2, <3>4, <3>5, AddBoth
    <3> QED BY <3>3, <3>4, <3>6
  <2>2. CASE k + 1 = i
    <3>1. k + 1 \in 1 .. n + 1 /\ (k + 1) - 1 = k BY <2>2
    <3>2. more[k] = rem[k] + d /\ more[k + 1] = rem[k] BY <2>2, <3>1, <1>2
    <3>3. larger[k + 1] = d BY <2>2, <3>1
    <3> QED BY <3>2, <3>3
  <2>3. CASE k + 1 > i
    <3>1. k - 1 \in 0 .. n - 1 /\ (k - 1) + 1 = k BY <2>3
    <3>2. rem[k - 1] = rem[k] + size[k] BY <3>1, <1>0
    <3>3. more[k] = rem[k - 1] /\ more[k + 1] = rem[k] /\ larger[k + 1] = size[k]
      BY <2>3, <1>2
    <3> QED BY <3>2, <3>3
  <2> QED BY <2>1, <2>2, <2>3
<1>6. ASSUME NEW j \in 0 .. n + 1, NEW k \in 0 .. n + 1, j <= k
      PROVE  more[k] <= more[j]
  <2>1. CASE k < i
    <3>1. j \in 0 .. n /\ k \in 0 .. n /\ j < i BY <2>1, <1>6
    <3>2. rem[k] <= rem[j] BY <3>1, <1>0, <1>6
    <3> QED BY <2>1, <3>1, <3>2, <1>1, <1>2
  <2>2. CASE j < i /\ ~(k < i)
    <3>1. j \in 0 .. n /\ k - 1 \in 0 .. n /\ j <= k - 1 BY <2>2
    <3>2. rem[k - 1] <= rem[j] BY <3>1, <1>0
    <3> QED BY <2>2, <3>1, <3>2, <1>1, <1>2
  <2>3. CASE ~(j < i)
    <3>1. j - 1 \in 0 .. n /\ k - 1 \in 0 .. n /\ j - 1 <= k - 1 /\ ~(k < i)
      BY <2>3, <1>6
    <3>2. rem[k - 1] <= rem[j - 1] BY <3>1, <1>0
    <3> QED BY <2>3, <3>1, <3>2, <1>2
  <2> QED BY <2>1, <2>2, <2>3
<1>7. (n + 1) - 1 = n OBVIOUS
<1>8. IsSums(more, n + 1, larger)
  BY <1>3, <1>4, <1>5, <1>6, <1>7 DEF IsSums
<1> QED BY <1>4, <1>8

(* larger is size with d more at position i.                               *)
Grown(larger, size, n, i, d) ==
    \A k \in 1 .. n : larger[k] = IF k = i THEN size[k] + d ELSE size[k]

(* The size at position i grows by d.                                      *)
LEMMA SumsGrow ==
    ASSUME NEW n \in Nat, NEW d \in Nat, NEW i \in 1 .. n,
           NEW size \in [1 .. n -> Nat], NEW larger, NEW rem, IsSums(rem, n, size),
           rem[0] + d <= MAX_OOO_BYTES, Grown(larger, size, n, i, d)
    PROVE  \E more : IsSums(more, n, larger) /\ more[0] = rem[0] + d
<1>1. \A k \in 0 .. n : /\ rem[k] \in Nat /\ rem[k] \in 0 .. MAX_OOO_BYTES
                        /\ rem[k] + d \in 0 .. MAX_OOO_BYTES
  BY SumsRoom
<1>0. /\ rem[n] = 0
      /\ \A k \in 0 .. n - 1 : rem[k] = rem[k + 1] + size[k + 1]
      /\ \A j, k \in 0 .. n : j <= k => rem[k] <= rem[j]
  BY DEF IsSums
<1> DEFINE more == [k \in 0 .. n |-> IF k < i THEN rem[k] + d ELSE rem[k]]
<1>2. \A k \in 0 .. n : more[k] \in 0 .. MAX_OOO_BYTES
                        /\ more[k] = IF k < i THEN rem[k] + d ELSE rem[k]
  BY <1>1
<1>3. more \in [0 .. n -> 0 .. MAX_OOO_BYTES]
  BY <1>2
<1> HIDE DEF more
<1>4. more[n] = 0 /\ more[0] = rem[0] + d
  BY <1>0, <1>2
<1>5. ASSUME NEW k \in 0 .. n - 1 PROVE more[k] = more[k + 1] + larger[k + 1]
  <2>1. /\ k \in 0 .. n /\ k + 1 \in 0 .. n /\ k + 1 \in 1 .. n
        /\ rem[k] = rem[k + 1] + size[k + 1] /\ size[k + 1] \in Nat
    BY <1>0
  <2>2. rem[k] \in Nat /\ rem[k + 1] \in Nat BY <2>1, <1>1
  <2>3. larger[k + 1] = IF k + 1 = i THEN size[k + 1] + d ELSE size[k + 1]
    BY <2>1 DEF Grown
  <2>4. /\ more[k] = IF k < i THEN rem[k] + d ELSE rem[k]
        /\ more[k + 1] = IF k + 1 < i THEN rem[k + 1] + d ELSE rem[k + 1]
    BY <2>1, <1>2
  <2>5. rem[k] + d = (rem[k + 1] + d) + size[k + 1] /\ rem[k] + d = rem[k + 1] + (size[k + 1] + d)
    BY <2>1, <2>2, AddBoth
  <2> QED BY <2>1, <2>3, <2>4, <2>5
<1>6. ASSUME NEW j \in 0 .. n, NEW k \in 0 .. n, j <= k PROVE more[k] <= more[j]
  <2>1. rem[k] <= rem[j] /\ rem[k] \in Nat /\ rem[j] \in Nat BY <1>0, <1>1, <1>6
  <2>2. /\ more[k] = IF k < i THEN rem[k] + d ELSE rem[k]
        /\ more[j] = IF j < i THEN rem[j] + d ELSE rem[j]
    BY <1>2
  <2> QED BY <2>1, <2>2, <1>6
<1>8. IsSums(more, n, larger)
  BY <1>3, <1>4, <1>5, <1>6 DEF IsSums
<1> QED BY <1>4, <1>8

(* Buffering a new segment.                                                *)
LEMMA InsertAccounted ==
    ASSUME NEW t \in Structs, NEW u \in Structs, Accounted(t, 0),
           NEW it \in 1 .. Len(t.out_of_order) + 1, NEW e \in Segments,
           t.ooo_bytes + Len(e.data) <= MAX_OOO_BYTES,
           u.out_of_order = InsertAt(t.out_of_order, it, e),
           u.ooo_bytes = t.ooo_bytes + Len(e.data)
    PROVE  Accounted(u, 0)
<1>1. PICK rem : rem \in SuffixSums(t) /\ t.ooo_bytes = rem[0] BY DEF Accounted
<1>2. Len(t.out_of_order) \in Nat /\ Len(e.data) \in Nat
  BY DataLen, LenProperties DEF Segments
<1>3. Inserted(u.out_of_order, t.out_of_order, it, e)
  <2>1. t.out_of_order \in Seq(Segments) BY DEF Structs
  <2> QED BY <2>1, InsertAtProperties
<1>4. Len(u.out_of_order) = Len(t.out_of_order) + 1
  BY <1>3 DEF Inserted
<1>5. \A k \in 1 .. Len(t.out_of_order) + 1 :
         Sizes(u)[k] = IF k < it THEN Sizes(t)[k]
                       ELSE IF k = it THEN Len(e.data) ELSE Sizes(t)[k - 1]
  <2>1. TAKE k \in 1 .. Len(t.out_of_order) + 1
  <2>2. /\ Sizes(u)[k] = Len(u.out_of_order[k].data)
        /\ u.out_of_order[k] = IF k < it THEN t.out_of_order[k]
                               ELSE IF k = it THEN e ELSE t.out_of_order[k - 1]
    BY <1>3, <1>4 DEF Sizes, Inserted
  <2>3. CASE k < it
    <3>1. k \in 1 .. Len(t.out_of_order) BY <2>3, <1>2
    <3>2. Sizes(t)[k] = Len(t.out_of_order[k].data) BY <3>1 DEF Sizes
    <3> QED BY <2>2, <2>3, <3>2
  <2>4. CASE k = it
    BY <2>2, <2>4, <1>2
  <2>5. CASE k > it
    <3>1. k - 1 \in 1 .. Len(t.out_of_order) /\ ~(k < it) /\ k # it BY <2>5, <1>2
    <3>2. Sizes(t)[k - 1] = Len(t.out_of_order[k - 1].data) BY <3>1 DEF Sizes
    <3> QED BY <2>2, <3>1, <3>2
  <2> QED BY <2>3, <2>4, <2>5, <1>2
<1>6. IsSums(rem, Len(t.out_of_order), Sizes(t)) /\ Sizes(t) \in [1 .. Len(t.out_of_order) -> Nat]
  BY <1>1, SumsOfSizes
<1>7. PICK more : /\ IsSums(more, Len(t.out_of_order) + 1, Sizes(u))
                  /\ more[0] = rem[0] + Len(e.data)
  <2>1. rem[0] + Len(e.data) <= MAX_OOO_BYTES BY <1>1
  <2> HIDE DEF Sizes
  <2> QED BY <2>1, <1>2, <1>5, <1>6, SumsInsert, Zenon
<1>8. more \in SuffixSums(u)
  BY <1>4, <1>7, SumsOfSizes
<1> QED BY <1>1, <1>7, <1>8 DEF Accounted

(* A buffered segment's payload becomes a longer one.                      *)
LEMMA GrowAccounted ==
    ASSUME NEW t \in Structs, NEW u \in Structs, Accounted(t, 0),
           NEW it \in 1 .. Len(t.out_of_order), NEW extra \in Nat,
           t.ooo_bytes + extra <= MAX_OOO_BYTES,
           Len(u.out_of_order) = Len(t.out_of_order),
           Grown(Sizes(u), Sizes(t), Len(t.out_of_order), it, extra),
           u.ooo_bytes = t.ooo_bytes + extra
    PROVE  Accounted(u, 0)
<1>1. PICK rem : rem \in SuffixSums(t) /\ t.ooo_bytes = rem[0] BY DEF Accounted
<1>2. /\ Len(t.out_of_order) \in Nat
      /\ IsSums(rem, Len(t.out_of_order), Sizes(t))
      /\ Sizes(t) \in [1 .. Len(t.out_of_order) -> Nat]
  BY <1>1, SumsOfSizes
<1>3. PICK more : /\ IsSums(more, Len(t.out_of_order), Sizes(u))
                  /\ more[0] = rem[0] + extra
  <2>1. rem[0] + extra <= MAX_OOO_BYTES BY <1>1
  <2> QED BY <2>1, <1>2, SumsGrow
<1>4. more \in SuffixSums(u)
  BY <1>3, SumsOfSizes
<1> QED BY <1>1, <1>3, <1>4 DEF Accounted

(* The same, for the EXCEPT that ingest's replacement is.                  *)
LEMMA ReplaceAccounted ==
    ASSUME NEW t \in Structs, NEW u \in Structs, Accounted(t, 0),
           NEW it \in 1 .. Len(t.out_of_order), NEW span \in Seq(Nat),
           NEW extra \in Nat,
           Len(span) = Len(t.out_of_order[it].data) + extra,
           t.ooo_bytes + extra <= MAX_OOO_BYTES,
           u.out_of_order = [t.out_of_order EXCEPT ![it].data = span],
           u.ooo_bytes = t.ooo_bytes + extra
    PROVE  Accounted(u, 0)
<1>1. Len(t.out_of_order) \in Nat BY DataLen
<1>2. /\ Len(u.out_of_order) = Len(t.out_of_order)
      /\ \A k \in 1 .. Len(t.out_of_order) :
            u.out_of_order[k].data = IF k = it THEN span ELSE t.out_of_order[k].data
  <2>1. t.out_of_order \in Seq(Segments) BY DEF Structs
  <2>2. t.out_of_order[it] \in Segments BY DataLen
  <2> QED BY <2>1, <2>2 DEF Segments
<1>3. Grown(Sizes(u), Sizes(t), Len(t.out_of_order), it, extra)
  BY <1>1, <1>2 DEF Sizes, Grown
<1> QED BY <1>2, <1>3, GrowAccounted

(* Buffering a segment keeps the types and the accounting.                 *)
LEMMA BufferAheadOK ==
    ASSUME NEW t \in Structs, Accounted(t, 0),
           NEW seq \in SeqNumbers, NEW span \in Seq(Nat)
    PROVE  BufferAhead(t, seq, span) \in Structs /\ Accounted(BufferAhead(t, seq, span), 0)
<1> DEFINE it    == LowerBound(t, seq)
           extra == Len(span) - Len(t.out_of_order[it].data)
           same  == it <= Len(t.out_of_order) /\ t.out_of_order[it].seq = seq
           e     == [seq |-> seq, data |-> span]
           r     == [t EXCEPT !.ooo_bytes = @ + extra, !.out_of_order[it].data = span]
           u     == [t EXCEPT !.ooo_bytes = @ + Len(span),
                              !.out_of_order = InsertAt(@, it, e)]
<1>1. it \in 1 .. Len(t.out_of_order) + 1 BY LowerBoundType DEF Structs
<1>2. Len(span) \in Nat /\ t.ooo_bytes \in Nat /\ t.out_of_order \in Seq(Segments)
  BY LenProperties DEF Structs
<1>3. e \in Segments BY DEF Segments
<1>4. ASSUME same, extra > 0, t.ooo_bytes + extra <= MAX_OOO_BYTES
      PROVE  r \in Structs /\ Accounted(r, 0)
  <2>1. it \in 1 .. Len(t.out_of_order) BY <1>1, <1>4, DataLen
  <2>2. Len(t.out_of_order[it].data) \in Nat /\ t.out_of_order[it] \in Segments
    BY <2>1, DataLen
  <2> HIDE DEF it
  <2>3. extra \in Nat /\ Len(span) = Len(t.out_of_order[it].data) + extra
    BY <1>2, <1>4, <2>2
  <2> HIDE DEF extra
  <2>4. [t.out_of_order[it] EXCEPT !.data = span] \in Segments
    BY <2>2 DEF Segments
  <2>5. [t.out_of_order EXCEPT ![it].data = span] \in Seq(Segments)
    BY <1>2, <2>1, <2>4, ExceptSeq
  <2>6. /\ r.out_of_order = [t.out_of_order EXCEPT ![it].data = span]
        /\ r.ooo_bytes = t.ooo_bytes + extra
    BY DEF Structs
  <2>7. t.ooo_bytes + extra \in Nat BY <1>2, <2>3
  <2>8. r \in Structs BY <2>5, <2>7 DEF Structs
  <2> HIDE DEF r
  <2> QED BY <1>4, <2>1, <2>3, <2>6, <2>8, ReplaceAccounted
<1>5. ASSUME t.ooo_bytes + Len(span) <= MAX_OOO_BYTES
      PROVE  u \in Structs /\ Accounted(u, 0)
  <2> HIDE DEF it, e
  <2>1. InsertAt(t.out_of_order, it, e) \in Seq(Segments)
    BY <1>1, <1>2, <1>3, InsertAtProperties
  <2>2. u.out_of_order = InsertAt(t.out_of_order, it, e) /\ u.ooo_bytes = t.ooo_bytes + Len(span)
    BY DEF Structs
  <2>3. t.ooo_bytes + Len(span) \in Nat BY <1>2
  <2>4. u \in Structs BY <2>1, <2>3 DEF Structs
  <2>5. e.data = span BY DEF e
  <2> HIDE DEF u
  <2> QED BY <1>1, <1>3, <1>5, <2>2, <2>4, <2>5, InsertAccounted
<1>6. BufferAhead(t, seq, span) =
        IF same THEN IF extra > 0 /\ t.ooo_bytes + extra <= MAX_OOO_BYTES THEN r ELSE t
        ELSE IF t.ooo_bytes + Len(span) <= MAX_OOO_BYTES THEN u ELSE t
  BY DEF BufferAhead
<1> HIDE DEF same, extra, r, u
<1> QED BY <1>4, <1>5, <1>6

(* The accounting is about out_of_order and ooo_bytes alone.               *)
LEMMA SameAccounted ==
    ASSUME NEW t, NEW u, NEW n, Accounted(t, n),
           u.out_of_order = t.out_of_order, u.ooo_bytes = t.ooo_bytes
    PROVE  Accounted(u, n)
BY DEF Accounted, SuffixSums

(* ingest, up to its call of drain, keeps the types and the accounting.    *)
LEMMA IngestOK ==
    ASSUME NEW t \in Structs, Accounted(t, 0),
           NEW seq \in SeqNumbers, NEW span \in Seq(Nat)
    PROVE  Ingest(t, seq, span) \in Structs /\ Accounted(Ingest(t, seq, span), 0)
<1>0. t.next_seq \in Int /\ seq \in Int
  BY SeqSpaceAssumption DEF Structs, SeqNumbers
<1>1. U32(t.next_seq - seq) \in Nat
  BY <1>0, DistanceNat
<1>2. /\ Assemble(t, span, U32(t.next_seq - seq)) \in Structs
      /\ Accounted(Assemble(t, span, U32(t.next_seq - seq)), 0)
  <2> DEFINE skip == U32(t.next_seq - seq)
  <2> HIDE DEF skip
  <2>1. skip \in Nat BY <1>1 DEF skip
  <2>2. /\ Assemble(t, span, skip) \in Structs
        /\ Assemble(t, span, skip).out_of_order = t.out_of_order
        /\ Assemble(t, span, skip).ooo_bytes = t.ooo_bytes
    BY <2>1, AssembleType
  <2>3. Accounted(Assemble(t, span, skip), 0) BY <2>2, SameAccounted
  <2> QED BY <2>2, <2>3 DEF skip
<1>3. CountOnly(t, seq, span) \in Structs /\ Accounted(CountOnly(t, seq, span), 0)
  BY CountOnlyType, SameAccounted
<1>4. BufferAhead(t, seq, span) \in Structs /\ Accounted(BufferAhead(t, seq, span), 0)
  BY BufferAheadOK
<1> QED BY <1>2, <1>3, <1>4 DEF Ingest

(* One turn of drain's loop: the segment's bytes are there to be taken off *)
(* ooo_bytes, and the rest is still accounted for.                         *)
LEMMA DrainStepOK ==
    ASSUME NEW t \in Structs, NEW n \in 0 .. Len(t.out_of_order) - 1, Accounted(t, n)
    PROVE  /\ DrainStep(t, n) \in Structs
           /\ DrainStep(t, n).out_of_order = t.out_of_order
           /\ Accounted(DrainStep(t, n), n + 1)
<1> DEFINE seg     == t.out_of_order[n + 1]
           covered == U32(t.next_seq - seg.seq)
           freed   == [t EXCEPT !.ooo_bytes = @ - Len(seg.data)]
<1>1. Len(t.out_of_order) \in Nat /\ n + 1 \in 1 .. Len(t.out_of_order) /\ n \in Nat
  BY DataLen
<1>2. seg.seq \in Int /\ seg.data \in Seq(Nat) /\ Len(seg.data) \in Nat
  BY <1>1, DataLen
<1>3. PICK rem : rem \in SuffixSums(t) /\ t.ooo_bytes = rem[n]
  BY DEF Accounted
<1>4. /\ rem \in [0 .. Len(t.out_of_order) -> 0 .. MAX_OOO_BYTES]
      /\ rem[n] = rem[n + 1] + Len(seg.data)
  BY <1>3 DEF SuffixSums
<1>5. rem[n] \in Nat /\ rem[n + 1] \in Nat
  BY <1>1, <1>4, LimitsAssumption
<1>6. covered \in Nat
  <2>1. t.next_seq \in Int BY SeqSpaceAssumption DEF Structs, SeqNumbers
  <2> QED BY <1>2, <2>1, DistanceNat
<1> HIDE DEF seg
<1>7. t.ooo_bytes - Len(seg.data) = rem[n + 1]
  BY <1>2, <1>3, <1>4, <1>5
<1>8. /\ freed \in Structs /\ freed.out_of_order = t.out_of_order
      /\ freed.ooo_bytes = rem[n + 1]
  BY <1>5, <1>7 DEF Structs
<1>9. Accounted(freed, n + 1)
  BY <1>3, <1>8 DEF Accounted, SuffixSums
<1>10. DrainStep(t, n) = IF covered < Len(seg.data)
                         THEN Assemble(freed, seg.data, covered) ELSE freed
  BY DEF DrainStep, seg
<1> HIDE DEF freed, covered
<1>11. /\ Assemble(freed, seg.data, covered) \in Structs
       /\ Assemble(freed, seg.data, covered).out_of_order = freed.out_of_order
       /\ Assemble(freed, seg.data, covered).ooo_bytes = freed.ooo_bytes
  BY <1>2, <1>6, <1>8, AssembleType
<1>12. Accounted(Assemble(freed, seg.data, covered), n + 1)
  BY <1>9, <1>11, SameAccounted
<1> QED BY <1>8, <1>9, <1>10, <1>11, <1>12

(* rest is what the first n of m sizes leave.                              *)
Dropped(rest, size, m, n) == \A k \in 1 .. m - n : rest[k] = size[k + n]

(* The first n of the sizes are dropped.                                   *)
LEMMA SumsDrop ==
    ASSUME NEW m \in Nat, NEW n \in 0 .. m, NEW size, NEW rest, NEW rem, IsSums(rem, m, size),
           Dropped(rest, size, m, n)
    PROVE  \E less : IsSums(less, m - n, rest) /\ less[0] = rem[n]
<1>0. /\ rem \in [0 .. m -> 0 .. MAX_OOO_BYTES] /\ rem[m] = 0
      /\ \A k \in 0 .. m - 1 : rem[k] = rem[k + 1] + size[k + 1]
      /\ \A j, k \in 0 .. m : j <= k => rem[k] <= rem[j]
  BY DEF IsSums
<1> DEFINE less == [k \in 0 .. m - n |-> rem[k + n]]
<1>1. \A k \in 0 .. m - n : k + n \in 0 .. m OBVIOUS
<1>2. less \in [0 .. m - n -> 0 .. MAX_OOO_BYTES] /\ \A k \in 0 .. m - n : less[k] = rem[k + n]
  BY <1>0, <1>1
<1> HIDE DEF less
<1>3. less[m - n] = 0 /\ less[0] = rem[n]
  <2>1. (m - n) + n = m /\ 0 + n = n /\ m - n \in 0 .. m - n /\ 0 \in 0 .. m - n OBVIOUS
  <2> QED BY <2>1, <1>0, <1>2
<1>4. ASSUME NEW k \in 0 .. (m - n) - 1 PROVE less[k] = less[k + 1] + rest[k + 1]
  <2>1. /\ k \in 0 .. m - n /\ k + 1 \in 0 .. m - n /\ k + 1 \in 1 .. m - n
        /\ k + n \in 0 .. m - 1 /\ (k + 1) + n = (k + n) + 1
    OBVIOUS
  <2>2. less[k] = rem[k + n] /\ less[k + 1] = rem[(k + n) + 1] BY <2>1, <1>2
  <2>3. rest[k + 1] = size[(k + n) + 1] BY <2>1 DEF Dropped
  <2>4. rem[k + n] = rem[(k + n) + 1] + size[(k + n) + 1] BY <2>1, <1>0
  <2> QED BY <2>2, <2>3, <2>4
<1>5. ASSUME NEW j \in 0 .. m - n, NEW k \in 0 .. m - n, j <= k PROVE less[k] <= less[j]
  <2>1. j + n \in 0 .. m /\ k + n \in 0 .. m /\ j + n <= k + n BY <1>5
  <2> QED BY <2>1, <1>0, <1>2
<1> QED BY <1>2, <1>3, <1>4, <1>5 DEF IsSums

(* The erase at the end of drain.                                          *)
LEMMA DrainEraseOK ==
    ASSUME NEW t \in Structs, NEW n \in 0 .. Len(t.out_of_order), Accounted(t, n)
    PROVE  DrainErase(t, n) \in Structs /\ Accounted(DrainErase(t, n), 0)
<1> DEFINE m == Len(t.out_of_order)
           u == DrainErase(t, n)
<1>1. m \in Nat /\ t.out_of_order \in Seq(Segments) /\ n \in Nat BY DataLen DEF Structs
<1>2. /\ SubSeq(t.out_of_order, n + 1, m) \in Seq(Segments)
      /\ Len(SubSeq(t.out_of_order, n + 1, m)) = m - n
      /\ \A k \in 1 .. m - n : SubSeq(t.out_of_order, n + 1, m)[k] = t.out_of_order[k + n]
  BY <1>1, SubSeqProperties
<1>3. /\ u \in Structs /\ u.ooo_bytes = t.ooo_bytes
      /\ u.out_of_order = SubSeq(t.out_of_order, n + 1, m)
  BY <1>2 DEF DrainErase, Structs
<1>4. PICK rem : IsSums(rem, m, Sizes(t)) /\ t.ooo_bytes = rem[n]
  BY SumsOfSizes DEF Accounted
<1> HIDE DEF u
<1>5. Dropped(Sizes(u), Sizes(t), m, n)
  BY <1>1, <1>2, <1>3 DEF Sizes, Dropped
<1>6. PICK less : IsSums(less, m - n, Sizes(u)) /\ less[0] = rem[n]
  <2>1. n \in 0 .. m OBVIOUS
  <2> HIDE DEF m
  <2> QED BY <2>1, <1>1, <1>4, <1>5, SumsDrop
<1>7. less \in SuffixSums(u)
  BY <1>2, <1>3, <1>6, SumsOfSizes
<1>8. Accounted(u, 0) BY <1>3, <1>4, <1>6, <1>7 DEF Accounted
<1> QED BY <1>3, <1>8 DEF u

-----------------------------------------------------------------------------
(* The rest of the methods do not touch the out-of-order buffer            *)

(* u differs from t at most in fields other than the buffer's.             *)
SameBuffer(u, t) == u.out_of_order = t.out_of_order /\ u.ooo_bytes = t.ooo_bytes

(* onSent before ingest: state, next_seq and seeded.                       *)
LEMMA OnSentOK ==
    ASSUME NEW t \in Structs, NEW h \in Headers
    PROVE  /\ OnSent(t, h).tcp \in Structs /\ SameBuffer(OnSent(t, h).tcp, t)
           /\ OnSent(t, h).call \in {"none", "ingest", "onData"}
           /\ OnSent(t, h).seq \in SeqNumbers
           /\ h.rst => OnSent(t, h).call = "none"
<1>1. h.seq_number \in SeqNumbers /\ 0 \in SeqNumbers /\ U32(h.seq_number + 1) \in SeqNumbers
  BY U32Type, SeqSpaceAssumption DEF Headers, SeqNumbers
<1>2. h.rst \in BOOLEAN /\ h.syn \in BOOLEAN /\ h.ack \in BOOLEAN /\ h.fin \in BOOLEAN
  BY DEF Headers
<1> QED BY <1>1, <1>2 DEF OnSent, Structs, TcpStates, SameBuffer

(* onData after ingest: the FIN's fields, next_seq and state.              *)
LEMMA OnDataFinOK ==
    ASSUME NEW t \in Structs, NEW fin \in BOOLEAN, NEW at \in SeqNumbers
    PROVE  OnDataFin(t, fin, at) \in Structs /\ SameBuffer(OnDataFin(t, fin, at), t)
<1>0. t.next_seq \in Int BY SeqSpaceAssumption DEF Structs, SeqNumbers
<1>1. U32(t.next_seq + 1) \in SeqNumbers BY <1>0, U32Type
<1> QED BY <1>1 DEF OnDataFin, Structs, TcpStates, SameBuffer

(* onReceived: the state only.                                             *)
LEMMA OnReceivedOK ==
    ASSUME NEW t \in Structs, NEW h \in Headers
    PROVE  OnReceived(t, h) \in Structs /\ SameBuffer(OnReceived(t, h), t)
BY DEF OnReceived, Structs, TcpStates, SameBuffer, Headers

(* peek and consume: the reader takes bytes that are there.                *)
LEMMA ConsumeOK ==
    ASSUME NEW t \in Structs, NEW n \in 1 .. Available(t)
    PROVE  /\ Consume(t, n) \in Structs /\ SameBuffer(Consume(t, n), t)
           /\ SubSeq(Peek(t), 1, n) \in Seq(Nat)
<1>1. t.assembled \in Seq(Nat) /\ t.read_pos \in Nat /\ Len(t.assembled) \in Nat
  BY LenProperties DEF Structs
<1>2. Available(t) \in Nat /\ n \in Nat /\ n <= Available(t) /\ 1 <= n
  BY <1>1 DEF Available
<1>3. Min({n, Available(t)}) \in Nat BY <1>2, MinOfNats
<1> DEFINE pos == t.read_pos + Min({n, Available(t)})
<1>4. pos \in Nat BY <1>1, <1>3
<1>5. SubSeq(t.assembled, pos + 1, Len(t.assembled)) \in Seq(Nat)
  BY <1>1, <1>4, TailType
<1>6. Consume(t, n) = IF pos > MIN_COMPACT_BYTES /\ pos > Len(t.assembled) \div 2
        THEN [t EXCEPT !.assembled = SubSeq(@, pos + 1, Len(@)), !.read_pos = 0]
        ELSE [t EXCEPT !.read_pos = pos]
  BY DEF Consume
<1> HIDE DEF pos
<1>7. Consume(t, n) \in Structs /\ SameBuffer(Consume(t, n), t)
  <2> DEFINE rest == SubSeq(t.assembled, pos + 1, Len(t.assembled))
  <2>1. rest \in Seq(Nat) BY <1>5
  <2>2. \/ Consume(t, n) = [t EXCEPT !.assembled = rest, !.read_pos = 0]
        \/ Consume(t, n) = [t EXCEPT !.read_pos = pos]
    BY <1>6
  <2> HIDE DEF rest
  <2> DEFINE c == [t EXCEPT !.assembled = rest, !.read_pos = 0]
             d == [t EXCEPT !.read_pos = pos]
  <2>3. c \in Structs /\ SameBuffer(c, t)
    BY <2>1 DEF Structs, SameBuffer
  <2>4. d \in Structs /\ SameBuffer(d, t)
    BY <1>4 DEF Structs, SameBuffer
  <2> QED BY <2>2, <2>3, <2>4
<1>8. Peek(t) \in Seq(Nat) /\ Len(Peek(t)) = Available(t)
  <2> DEFINE m == t.read_pos + 1
             k == Len(t.assembled)
  <2> DEFINE r == t.read_pos
             a == Available(t)
  <2>3. a = k - r BY DEF Available
  <2>4. r \in Nat /\ k \in Nat /\ a \in Nat /\ 1 <= a /\ m = r + 1
    <3>1. a \in Nat /\ n \in Nat /\ n <= a /\ 1 <= n BY <1>2
    <3> HIDE DEF a
    <3> QED BY <1>1, <3>1
  <2>0. m \in Int /\ k \in Int /\ 1 <= m /\ m <= k /\ a = k - m + 1
    <3> HIDE DEF a, k, r, m
    <3> QED BY <2>3, <2>4
  <2>1. \A i \in m .. k : t.assembled[i] \in Nat
    <3>1. \A i \in 1 .. k : t.assembled[i] \in Nat BY <1>1
    <3> HIDE DEF k, m
    <3> QED BY <2>0, <3>1
  <2>2. Peek(t) = SubSeq(t.assembled, m, k) BY DEF Peek
  <2> HIDE DEF m, k, a
  <2>5. Peek(t) \in Seq(Nat) /\ Len(Peek(t)) = a
    BY <2>0, <2>1, <2>2, SubSeqProperties
  <2> QED BY <2>5 DEF a
<1> QED BY <1>2, <1>7, <1>8, SubSeqProperties

-----------------------------------------------------------------------------
(* The inductive invariant                                                 *)

(* The accounting needs the types, and drain's local is 0 whenever no      *)
(* drain is running.                                                       *)
IInv == TypeOK /\ OooAccounting /\ (pc # "drain" => len = 0)

(* A call of onSent, up to the point where ingest returns or starts drain. *)
LEMMA SendOK ==
    ASSUME IInv, NEW h \in Headers, NEW off \in Nat, NEW n \in Nat,
           Send(h, off, n), off + n <= StreamLen \/ h.rst
    PROVE  IInv'
<1> DEFINE span == Slice(off, n)
           out  == OnSent(tcp, h)
           into == Ingest(out.tcp, out.seq, span)
<1>1. tcp \in Structs /\ len = 0 /\ Accounted(tcp, 0)
  BY DEF IInv, TypeOK, OooAccounting, Send
<1>2. span \in Seq(Nat) BY SliceType
<1>3. /\ out.tcp \in Structs /\ SameBuffer(out.tcp, tcp)
      /\ out.call \in {"none", "ingest", "onData"} /\ out.seq \in SeqNumbers
      /\ h.rst => out.call = "none"
  BY <1>1, OnSentOK
<1> HIDE DEF span, out
<1>4. Accounted(out.tcp, 0)
  BY <1>1, <1>3, SameAccounted DEF SameBuffer
<1>5. into \in Structs /\ Accounted(into, 0)
  BY <1>2, <1>3, <1>4, IngestOK
<1> HIDE DEF into
<1>6. CASE out.call = "none"
  <2>1. tcp' = out.tcp /\ UNCHANGED <<pc, len, cur, isn, first, next_off, fins, read, captured>>
    BY <1>6 DEF Send, out
  <2>2. Accounted(tcp, len)' BY <2>1, <1>4, <1>1
  <2>3. Len(tcp'.out_of_order) = Len(tcp.out_of_order) BY <2>1, <1>3 DEF SameBuffer
  <2> QED BY <2>1, <2>2, <2>3, <1>3 DEF IInv, TypeOK, OooAccounting
<1>7. CASE out.call # "none"
  <2>1. /\ tcp' = into /\ len' = 0
        /\ pc' \in {"idle", "drain", "onData"}
        /\ cur' \in [call : {"none", "ingest", "onData"}, fin : BOOLEAN, fin_at : SeqNumbers]
    <3>1. U32(h.seq_number + n) \in SeqNumbers /\ h.fin \in BOOLEAN
      BY U32Type, SeqSpaceAssumption DEF Headers, SeqNumbers
    <3>2. 0 \in SeqNumbers BY SeqSpaceAssumption DEF SeqNumbers
    <3>3. /\ tcp' = into /\ len' = 0
          /\ pc' = IF Drains(out.tcp, out.seq, span) THEN "drain" ELSE AfterIngest(out.call)
          /\ cur' = IF pc' = "idle" THEN Idle
                    ELSE [call |-> out.call, fin |-> h.fin, fin_at |-> U32(h.seq_number + n)]
      BY <1>7 DEF Send, out, into, span
    <3> QED BY <3>1, <3>2, <3>3, <1>3 DEF AfterIngest, Idle
  <2>2. first' \in 0 .. StreamLen /\ captured' \subseteq 0 .. StreamLen
    <3>1. /\ first' = IF tcp.seeded THEN first ELSE off
          /\ captured' = IF PastLimit(out.tcp, out.seq, n) THEN captured
                         ELSE captured \cup (off .. off + n - 1)
      BY <1>7 DEF Send, out
    <3>2. off + n <= StreamLen BY <1>3, <1>7
    <3>3. off \in 0 .. StreamLen /\ off .. off + n - 1 \subseteq 0 .. StreamLen
      BY <3>2, StreamAssumption
    <3>4. first \in 0 .. StreamLen /\ captured \subseteq 0 .. StreamLen BY DEF IInv, TypeOK
    <3> QED BY <3>1, <3>3, <3>4
  <2>3. next_off' \in Nat
    <3>1. next_off' = (IF tcp.seeded THEN next_off ELSE off) + U32(into.next_seq - out.tcp.next_seq)
      BY <1>7 DEF Send, out, into, span
    <3>2. into.next_seq \in Int /\ out.tcp.next_seq \in Int
      BY <1>3, <1>5, SeqSpaceAssumption DEF Structs, SeqNumbers
    <3>3. U32(into.next_seq - out.tcp.next_seq) \in Nat BY <3>2, DistanceNat
    <3>4. next_off \in Nat BY DEF IInv, TypeOK
    <3> QED BY <3>1, <3>3, <3>4
  <2>4. UNCHANGED <<isn, fins, read>> BY DEF Send
  <2>5. len' \in 0 .. Len(tcp'.out_of_order) BY <2>1, <1>5, DataLen
  <2>6. TypeOK' BY <1>5, <2>1, <2>2, <2>3, <2>4, <2>5 DEF IInv, TypeOK
  <2>7. Accounted(tcp, len)' BY <1>5, <2>1
  <2> QED BY <2>1, <2>6, <2>7 DEF IInv, OooAccounting
<1> QED BY <1>6, <1>7

(* The segments of the model are headers.                                  *)
LEMMA HeaderTypes ==
    ASSUME TypeOK
    PROVE  /\ \A off \in Nat : SeqNumber(off) \in SeqNumbers
           /\ \A ack \in BOOLEAN : SynHeader(ack) \in Headers
           /\ \A off \in Nat, fin \in BOOLEAN : DataHeader(off, fin) \in Headers
           /\ ResetHeader \in Headers /\ ResetHeader.rst
<1>1. isn \in SeqNumbers /\ isn \in Int /\ 0 \in SeqNumbers
  BY SeqSpaceAssumption DEF TypeOK, SeqNumbers
<1>2. \A off \in Nat : SeqNumber(off) \in SeqNumbers
  BY <1>1, U32Type DEF SeqNumber
<1> QED BY <1>1, <1>2 DEF SynHeader, DataHeader, ResetHeader, Headers

(* The sender's segments.                                                  *)
LEMMA SendersOK == IInv /\ (SendSyn \/ SendData \/ SendReset) => IInv'
<1> SUFFICES ASSUME IInv, SendSyn \/ SendData \/ SendReset PROVE IInv'
  OBVIOUS
<1>1. TypeOK /\ next_off \in Nat BY DEF IInv, TypeOK
<1>2. CASE SendSyn
  <2>1. PICK ack \in BOOLEAN, n \in SynPayloads : n <= StreamLen /\ Send(SynHeader(ack), 0, n)
    BY <1>2 DEF SendSyn
  <2>2. n \in Nat /\ 0 \in Nat /\ 0 + n <= StreamLen BY <2>1, StreamAssumption
  <2>3. SynHeader(ack) \in Headers BY <1>1, HeaderTypes
  <2> QED BY <2>1, <2>2, <2>3, SendOK
<1>3. CASE SendData
  <2>1. PICK off \in 0 .. StreamLen, n \in 0 .. MaxSegment, fin \in BOOLEAN :
           off + n <= StreamLen /\ Send(DataHeader(off, fin), off, n)
    BY <1>3 DEF SendData
  <2>2. off \in Nat /\ n \in Nat BY StreamAssumption
  <2>3. DataHeader(off, fin) \in Headers BY <1>1, <2>2, HeaderTypes
  <2> QED BY <2>1, <2>2, <2>3, SendOK
<1>4. CASE SendReset
  <2>1. Send(ResetHeader, next_off, 0) BY <1>4 DEF SendReset
  <2>2. ResetHeader \in Headers /\ ResetHeader.rst BY <1>1, HeaderTypes
  <2> QED BY <1>1, <2>1, <2>2, SendOK
<1> QED BY <1>2, <1>3, <1>4

(* One turn of drain's loop.                                               *)
LEMMA DrainOK == IInv /\ Drain => IInv'
<1> SUFFICES ASSUME IInv, Drain PROVE IInv'
  OBVIOUS
<1>1. tcp \in Structs /\ len \in 0 .. Len(tcp.out_of_order) /\ Accounted(tcp, len)
  BY DEF IInv, TypeOK, OooAccounting
<1>2. len < Len(tcp.out_of_order) /\ tcp' = DrainStep(tcp, len) /\ len' = len + 1
  BY DEF Drain, DrainContinues
<1>3. Len(tcp.out_of_order) \in Nat BY <1>1, DataLen
<1>4. len \in 0 .. Len(tcp.out_of_order) - 1 BY <1>1, <1>2, <1>3
<1>5. /\ tcp' \in Structs /\ tcp'.out_of_order = tcp.out_of_order
      /\ Accounted(DrainStep(tcp, len), len + 1)
  BY <1>1, <1>2, <1>4, DrainStepOK
<1>6. OooAccounting' BY <1>2, <1>5 DEF OooAccounting
<1>7. len' \in 0 .. Len(tcp'.out_of_order) BY <1>2, <1>3, <1>4, <1>5
<1>8. next_off' \in Nat
  <2>1. tcp.next_seq \in Int /\ tcp'.next_seq \in Int
    BY <1>1, <1>5, SeqSpaceAssumption DEF Structs, SeqNumbers
  <2>2. U32(tcp'.next_seq - tcp.next_seq) \in Nat BY <2>1, DistanceNat
  <2>3. next_off \in Nat BY DEF IInv, TypeOK
  <2> QED BY <2>2, <2>3 DEF Drain
<1>9. UNCHANGED <<pc, cur, isn, first, fins, read, captured>> /\ pc = "drain" BY DEF Drain
<1> QED BY <1>5, <1>6, <1>7, <1>8, <1>9 DEF IInv, TypeOK

(* The erase that ends drain.                                              *)
LEMMA DrainReturnOK == IInv /\ DrainReturn => IInv'
<1> SUFFICES ASSUME IInv, DrainReturn PROVE IInv'
  OBVIOUS
<1>1. tcp \in Structs /\ len \in 0 .. Len(tcp.out_of_order) /\ Accounted(tcp, len)
  BY DEF IInv, TypeOK, OooAccounting
<1>2. tcp' = DrainErase(tcp, len) /\ len' = 0 BY DEF DrainReturn
<1>3. tcp' \in Structs /\ Accounted(DrainErase(tcp, len), 0)
  BY <1>1, <1>2, DrainEraseOK
<1>4. OooAccounting' BY <1>2, <1>3 DEF OooAccounting
<1>5. len' \in 0 .. Len(tcp'.out_of_order) BY <1>2, <1>3, DataLen
<1>6. /\ pc' \in {"idle", "onData"}
      /\ cur' \in [call : {"none", "ingest", "onData"}, fin : BOOLEAN, fin_at : SeqNumbers]
  <2>1. 0 \in SeqNumbers BY SeqSpaceAssumption DEF SeqNumbers
  <2> QED BY <2>1 DEF DrainReturn, AfterIngest, Idle, IInv, TypeOK
<1>7. UNCHANGED <<isn, first, next_off, fins, read, captured>> BY DEF DrainReturn
<1> QED BY <1>2, <1>3, <1>4, <1>5, <1>6, <1>7 DEF IInv, TypeOK

(* onData's end, the other side and the reader leave the buffer alone.     *)
LEMMA OtherStepsOK == IInv /\ (OnDataReturn \/ Receive \/ Read) => IInv'
<1> SUFFICES ASSUME IInv, OnDataReturn \/ Receive \/ Read PROVE IInv'
  OBVIOUS
<1>1. tcp \in Structs /\ Accounted(tcp, len) /\ len \in 0 .. Len(tcp.out_of_order)
  BY DEF IInv, TypeOK, OooAccounting
<1>2. ASSUME tcp' \in Structs, SameBuffer(tcp', tcp), len' = len
      PROVE  OooAccounting' /\ len' \in 0 .. Len(tcp'.out_of_order)
  <2>1. Accounted(tcp', len) BY <1>1, <1>2, SameAccounted DEF SameBuffer
  <2>2. tcp'.out_of_order = tcp.out_of_order BY <1>2 DEF SameBuffer
  <2> QED BY <1>1, <1>2, <2>1, <2>2 DEF OooAccounting
<1>3. CASE OnDataReturn
  <2>1. cur.fin \in BOOLEAN /\ cur.fin_at \in SeqNumbers BY DEF IInv, TypeOK
  <2>2. tcp' \in Structs /\ SameBuffer(tcp', tcp)
    BY <1>1, <1>3, <2>1, OnDataFinOK DEF OnDataReturn
  <2>3. tcp.next_seq \in Int /\ tcp'.next_seq \in Int
    BY <1>1, <2>2, SeqSpaceAssumption DEF Structs, SeqNumbers
  <2>4. U32(tcp'.next_seq - tcp.next_seq) \in Nat BY <2>3, DistanceNat
  <2>5. next_off \in Nat /\ fins \in Nat BY DEF IInv, TypeOK
  <2>6. next_off' \in Nat /\ fins' \in Nat BY <1>3, <2>4, <2>5 DEF OnDataReturn
  <2>7. cur' \in [call : {"none", "ingest", "onData"}, fin : BOOLEAN, fin_at : SeqNumbers]
    BY <1>3, SeqSpaceAssumption DEF OnDataReturn, Idle, SeqNumbers
  <2>8. /\ pc = "onData" /\ pc' = "idle"
        /\ UNCHANGED <<len, isn, first, read, captured>>
    BY <1>3 DEF OnDataReturn
  <2> QED BY <1>2, <2>2, <2>6, <2>7, <2>8 DEF IInv, TypeOK
<1>4. CASE Receive
  <2>1. PICK f \in PeerFlags, k \in 0 .. StreamLen + 1 :
           tcp' = OnReceived(tcp, [syn |-> "syn" \in f, ack |-> "ack" \in f,
                                   fin |-> "fin" \in f, rst |-> "rst" \in f,
                                   seq_number |-> 0, ack_number |-> SeqNumber(k)])
    BY <1>4 DEF Receive, ReceiveSegment
  <2> DEFINE h == [syn |-> "syn" \in f, ack |-> "ack" \in f,
                   fin |-> "fin" \in f, rst |-> "rst" \in f,
                   seq_number |-> 0, ack_number |-> SeqNumber(k)]
  <2>2. SeqNumber(k) \in SeqNumbers /\ 0 \in SeqNumbers
    BY HeaderTypes, StreamAssumption, SeqSpaceAssumption DEF IInv, SeqNumbers
  <2>3. h \in Headers BY <2>2 DEF Headers
  <2> HIDE DEF h
  <2>4. tcp' \in Structs /\ SameBuffer(tcp', tcp)
    BY <1>1, <2>1, <2>3, OnReceivedOK DEF h
  <2>5. UNCHANGED <<pc, len, cur, isn, first, next_off, fins, read, captured>>
    BY <1>4 DEF Receive, ReceiveSegment
  <2> QED BY <1>2, <2>4, <2>5 DEF IInv, TypeOK
<1>5. CASE Read
  <2>1. PICK n \in 1 .. Available(tcp) :
           read' = read \o SubSeq(Peek(tcp), 1, n) /\ tcp' = Consume(tcp, n)
    BY <1>5 DEF Read
  <2>2. tcp' \in Structs /\ SameBuffer(tcp', tcp) /\ SubSeq(Peek(tcp), 1, n) \in Seq(Nat)
    BY <1>1, <2>1, ConsumeOK
  <2>3. read' \in Seq(Nat)
    BY <2>1, <2>2, ConcatProperties DEF IInv, TypeOK
  <2>4. UNCHANGED <<pc, len, cur, isn, first, next_off, fins, captured>>
    BY <1>5 DEF Read
  <2> QED BY <1>2, <2>2, <2>3, <2>4 DEF IInv, TypeOK
<1> QED BY <1>3, <1>4, <1>5

(* A new struct satisfies the invariant.                                   *)
LEMMA InitOK == Init => IInv
<1> SUFFICES ASSUME Init PROVE IInv
  OBVIOUS
<1> PICK keep \in KeepPayload : tcp = Fresh(keep)
  BY DEF Init
<1>1. tcp = Fresh(keep) /\ tcp.out_of_order = <<>> /\ tcp.ooo_bytes = 0
  BY DEF Fresh
<1>2. 0 \in SeqNumbers BY SeqSpaceAssumption DEF SeqNumbers
<1>3. tcp \in Structs BY <1>1, <1>2, StreamAssumption DEF Fresh, Structs, TcpStates
<1>4. len \in 0 .. Len(tcp.out_of_order) BY <1>1 DEF Init
<1>5. TypeOK
  BY <1>2, <1>3, <1>4, StreamAssumption DEF Init, TypeOK, Idle
<1>6. Accounted(tcp, 0)
  <2> DEFINE rem == [k \in 0 .. 0 |-> 0]
  <2>1. Len(tcp.out_of_order) = 0 BY <1>1
  <2>2. rem \in SuffixSums(tcp) BY <2>1, LimitsAssumption DEF SuffixSums
  <2> QED BY <1>1, <2>2 DEF Accounted
<1> QED BY <1>5, <1>6 DEF Init, IInv, OooAccounting

(* Every step of the reassembler preserves the invariant.                  *)
LEMMA NextOK == IInv /\ [Next]_vars => IInv'
<1>1. IInv /\ UNCHANGED vars => IInv'
  BY DEF vars, IInv, TypeOK, OooAccounting, Accounted, SuffixSums
<1> QED BY <1>1, SendersOK, DrainOK, DrainReturnOK, OtherStepsOK DEF Next

-----------------------------------------------------------------------------
(* Theorems                                                                *)

(* The struct keeps its types through every sequence of calls: sequence    *)
(* numbers stay below 2^32 and ooo_bytes never underflows in drain.        *)
THEOREM TypeCorrect == Spec => []TypeOK
<1>1. IInv => TypeOK BY DEF IInv
<1> QED BY <1>1, InitOK, NextOK, PTL DEF Spec

(* ooo_bytes is always the payload still held in out_of_order, whatever    *)
(* was buffered, replaced, drained or erased: the counter that the limit   *)
(* of ingest is checked against never drifts from what it counts.          *)
THEOREM AccountingCorrect == Spec => []OooAccounting
<1>1. IInv => OooAccounting BY DEF IInv
<1> QED BY <1>1, InitOK, NextOK, PTL DEF Spec

(* The out-of-order payload of a direction never passes MAX_OOO_BYTES,     *)
(* whatever the capture holds.                                             *)
THEOREM BufferBounded == Spec => []OooBounded
<1>1. IInv => OooBounded
  <2> SUFFICES ASSUME IInv PROVE OooBounded
    OBVIOUS
  <2>1. PICK rem \in SuffixSums(tcp) : tcp.ooo_bytes = rem[len]
    BY DEF IInv, OooAccounting, Accounted
  <2>2. len \in 0 .. Len(tcp.out_of_order) BY DEF IInv, TypeOK
  <2>3. rem[len] \in 0 .. MAX_OOO_BYTES BY <2>2 DEF SuffixSums
  <2> QED BY <2>1, <2>3 DEF OooBounded
<1> QED BY <1>1, InitOK, NextOK, PTL DEF Spec

=============================================================================
