------------------------- MODULE TcpConnection_proofs -------------------------
(***************************************************************************)
(* The state that the two reassemblers track never runs ahead of the two   *)
(* hosts, for every connection and whatever of it the capture shows, in    *)
(* whatever order and however often; and on a capture that shows each      *)
(* segment once they keep up with them: every byte before the peer's FIN   *)
(* is read, and both directions end closed.                                *)
(***************************************************************************)
EXTENDS TcpConnection, SequenceTheorems, WellFoundedInduction, TLAPS

-----------------------------------------------------------------------------
(* Numbers                                                                 *)

(* A set of numbers has a least one.                                       *)
LEMMA LeastOf ==
    ASSUME NEW T \in SUBSET Nat, T # {}
    PROVE  \E t \in T : \A y \in T : t <= y
<1>1. PICK t \in T : \A y \in T : ~(<<y, t>> \in OpToRel(<, Nat))
  BY NatLessThanWellFounded, WFMin, Zenon
<1>2. \A a, b \in Nat : a < b => <<a, b>> \in OpToRel(<, Nat) BY DEF OpToRel
<1>3. \A y \in T : ~(y < t) BY <1>1, <1>2
<1>4. \A y \in T : t <= y BY <1>3
<1> QED BY <1>4

(* Half the sequence space.                                                *)
LEMMA Half == /\ SeqSpace \div 2 \in Nat /\ SeqSpace = 2 * (SeqSpace \div 2)
              /\ SeqSpace \in Nat /\ SeqSpace > 1
BY SeqSpaceAssumption

(* Numbers within half the space of each other are compared as they are.   *)
LEMMA SeqDiffIs ==
    ASSUME NEW a \in Nat, NEW b \in Nat, a < SeqSpace \div 2, b <= SeqSpace \div 2
    PROVE  SeqDiff(a, b) = a - b
<1> DEFINE half == SeqSpace \div 2
<1>1. half \in Nat /\ SeqSpace = 2 * half /\ a < half /\ b <= half /\ half > 0 BY Half
<1> HIDE DEF half
<1>2. CASE a >= b
  <2>1. a - b \in 0 .. SeqSpace - 1 BY <1>1, <1>2
  <2>2. U32(a - b) = a - b
    <3>1. \A x \in 0 .. SeqSpace - 1 : x % SeqSpace = x BY SeqSpaceAssumption
    <3> QED BY <2>1, <3>1 DEF U32
  <2>3. a - b < half BY <1>1, <1>2
  <2> QED BY <2>2, <2>3 DEF SeqDiff, half
<1>3. CASE a < b
  <2>1. a - b + SeqSpace \in 0 .. SeqSpace - 1 /\ ~(a - b + SeqSpace < half) BY <1>1, <1>3
  <2>2. U32(a - b) = a - b + SeqSpace
    <3>1. \A x \in Int : x + SeqSpace \in 0 .. SeqSpace - 1 => x % SeqSpace = x + SeqSpace
      BY SeqSpaceAssumption
    <3> QED BY <2>1, <3>1 DEF U32
  <2>3. SeqDiff(a, b) = (a - b + SeqSpace) - SeqSpace BY <2>1, <2>2 DEF SeqDiff, half
  <2> QED BY <2>3, SeqSpaceAssumption
<1> QED BY <1>2, <1>3

(* Small numbers do not wrap.                                              *)
LEMMA U32Small == \A x \in 0 .. SeqSpace - 1 : U32(x) = x
BY SeqSpaceAssumption DEF U32

(* The greater of two.                                                     *)
LEMMA MaxOfTwo ==
    ASSUME NEW a \in Nat, NEW b \in Nat
    PROVE  Max({a, b}) \in {a, b} /\ Max({a, b}) \in Nat /\ Max({a, b}) >= a /\ Max({a, b}) >= b
<1>1. CASE a >= b
  <2>1. a \in {a, b} /\ \A y \in {a, b} : a >= y BY <1>1
  <2>2. Max({a, b}) \in {a, b} /\ \A y \in {a, b} : Max({a, b}) >= y BY <2>1 DEF Max
  <2> QED BY <2>2
<1>2. CASE b >= a
  <2>1. b \in {a, b} /\ \A y \in {a, b} : b >= y BY <1>2
  <2>2. Max({a, b}) \in {a, b} /\ \A y \in {a, b} : Max({a, b}) >= y BY <2>1 DEF Max
  <2> QED BY <2>2
<1> QED BY <1>1, <1>2

(* The smaller of two.                                                     *)
LEMMA MinOfTwo ==
    ASSUME NEW a \in Int, NEW b \in Int
    PROVE  Min({a, b}) \in {a, b} /\ Min({a, b}) \in Int /\ Min({a, b}) <= a /\ Min({a, b}) <= b
<1>1. CASE a <= b
  <2>1. a \in {a, b} /\ \A y \in {a, b} : a <= y BY <1>1
  <2>2. Min({a, b}) \in {a, b} /\ \A y \in {a, b} : Min({a, b}) <= y BY <2>1 DEF Min
  <2> QED BY <2>2
<1>2. CASE b <= a
  <2>1. b \in {a, b} /\ \A y \in {a, b} : b <= y BY <1>2
  <2>2. Min({a, b}) \in {a, b} /\ \A y \in {a, b} : Min({a, b}) <= y BY <2>1 DEF Min
  <2> QED BY <2>2
<1> QED BY <1>1, <1>2

(* Min of numbers is one of them.                                          *)
LEMMA MinIn == ASSUME NEW T \in SUBSET Nat, T # {} PROVE Min(T) \in T
<1>1. \E t \in T : \A y \in T : t <= y BY LeastOf
<1> QED BY <1>1 DEF Min

(* InsertAt gives a sequence of the same elements and the new one.         *)
LEMMA InsertAtType ==
    ASSUME NEW S, NEW s \in Seq(S), NEW i \in 1 .. Len(s) + 1, NEW e \in S
    PROVE  InsertAt(s, i, e) \in Seq(S)
<1> DEFINE front == SubSeq(s, 1, i - 1)
           back  == SubSeq(s, i, Len(s))
<1>1. Len(s) \in Nat BY LenProperties
<1>2. front \in Seq(S) /\ back \in Seq(S) BY <1>1, SubSeqProperties
<1>3. <<e>> \in Seq(S) OBVIOUS
<1> HIDE DEF front, back
<1>4. (front \o <<e>>) \o back \in Seq(S) BY <1>2, <1>3, ConcatProperties
<1> QED BY <1>4 DEF InsertAt, front, back

-----------------------------------------------------------------------------
(* A reassembler that has not closed                                       *)

TcpFields == {"state", "next_seq", "ooo_bytes", "out_of_order", "assembled", "read_pos",
              "fin_seen", "fin_seq", "seeded", "keep_payload"}

(* Buffered segments of a host that has all units.                         *)
Segs(all) == {s \in [seq : Nat, data : Seq(Nat)] : s.seq + Len(s.data) <= all}

(* A struct whose bytes are those of the host.                             *)
Core(t, all) ==
    /\ DOMAIN t = TcpFields /\ t.keep_payload = TRUE
    /\ t.next_seq \in Nat /\ t.next_seq <= all
    /\ t.out_of_order \in Seq(Segs(all))

(* What ingest and drain leave alone.                                      *)
SameRest(u, t) == /\ u.state = t.state /\ u.seeded = t.seeded
                  /\ u.fin_seen = t.fin_seen /\ u.fin_seq = t.fin_seq

(* The number of units of a host, within half the space with its FIN.      *)
InSpace(all) == all \in Nat /\ all >= 2 /\ all < SeqSpace \div 2

(* A buffered segment.                                                     *)
LEMMA SegOf ==
    ASSUME NEW all, NEW t, Core(t, all), NEW i \in 1 .. Len(t.out_of_order)
    PROVE  /\ t.out_of_order[i] \in Segs(all) /\ t.out_of_order[i].seq \in Nat
           /\ t.out_of_order[i].data \in Seq(Nat) /\ Len(t.out_of_order[i].data) \in Nat
           /\ t.out_of_order[i].seq + Len(t.out_of_order[i].data) <= all
<1>1. t.out_of_order \in Seq(Segs(all)) BY DEF Core
<1>2. t.out_of_order[i] \in Segs(all) BY <1>1, ElementOfSeq
<1> DEFINE e == t.out_of_order[i]
<1> HIDE DEF e
<1>3. e \in Segs(all) BY <1>2 DEF e
<1>4. e.seq \in Nat /\ e.data \in Seq(Nat) /\ e.seq + Len(e.data) <= all BY <1>3 DEF Segs
<1>5. Len(e.data) \in Nat BY <1>4, LenProperties
<1> QED BY <1>3, <1>4, <1>5 DEF e

(* Bytes appended from number seq on, of which skip are there already.     *)
LEMMA AssembleCore ==
    ASSUME NEW all, InSpace(all), NEW t, Core(t, all), NEW seq \in Nat, NEW span \in Seq(Nat),
           seq + Len(span) <= all, seq <= t.next_seq,
           NEW u, u = Assemble(t, span, t.next_seq - seq)
    PROVE  Core(u, all) /\ SameRest(u, t) /\ u.out_of_order = t.out_of_order
<1> DEFINE next == seq + Len(span)
           bytes == t.assembled \o SubSeq(span, t.next_seq - seq + 1, Len(span))
           mid == [t EXCEPT !.assembled = bytes]
<1>1. Len(span) \in Nat /\ t.next_seq \in Nat BY LenProperties DEF Core
<1>2. next \in Nat /\ next <= all /\ all < SeqSpace BY <1>1, Half DEF InSpace
<1>3. U32(t.next_seq + Len(span) - (t.next_seq - seq)) = next
  <2>1. t.next_seq + Len(span) - (t.next_seq - seq) = next BY <1>1
  <2>2. next \in 0 .. SeqSpace - 1 BY <1>2, Half DEF InSpace
  <2> HIDE DEF next
  <2> QED BY <2>1, <2>2, U32Small
<1>4. u = [mid EXCEPT !.next_seq = next]
  <2>1. u = [t EXCEPT !.assembled = bytes, !.next_seq = U32(t.next_seq + Len(span) - (t.next_seq - seq))]
    BY DEF Assemble
  <2>2. u = [t EXCEPT !.assembled = bytes, !.next_seq = next] BY <1>3, <2>1
  <2> HIDE DEF bytes, next
  <2> QED BY <2>2 DEF Core, TcpFields
<1> HIDE DEF bytes, next
<1>5. Core(mid, all) /\ SameRest(mid, t) /\ mid.out_of_order = t.out_of_order
  BY DEF Core, SameRest, TcpFields
<1> HIDE DEF mid
<1>6. Core(u, all) /\ SameRest(u, mid) /\ u.out_of_order = mid.out_of_order
  BY <1>2, <1>4, <1>5 DEF Core, SameRest, TcpFields
<1> QED BY <1>5, <1>6 DEF SameRest

(* One iteration of drain's loop.                                          *)
LEMMA DrainStepCore ==
    ASSUME NEW all, InSpace(all), NEW t, Core(t, all), NEW len \in Nat, DrainContinues(t, len),
           NEW u, u = DrainStep(t, len)
    PROVE  Core(u, all) /\ SameRest(u, t) /\ u.out_of_order = t.out_of_order
<1> DEFINE seg == t.out_of_order[len + 1]
           freed == [t EXCEPT !.ooo_bytes = @ - Len(seg.data)]
<1>1. Len(t.out_of_order) \in Nat /\ t.next_seq \in Nat /\ t.next_seq <= all
  BY LenProperties DEF Core
<1>2. len + 1 \in 1 .. Len(t.out_of_order)
  <2>1. len < Len(t.out_of_order) BY DEF DrainContinues
  <2> QED BY <1>1, <2>1
<1>3. seg.seq \in Nat /\ seg.data \in Seq(Nat) /\ Len(seg.data) \in Nat
      /\ seg.seq + Len(seg.data) <= all BY <1>2, SegOf
<1>4. SeqDiff(seg.seq, t.next_seq) <= 0 BY DEF DrainContinues
<1>5. Core(freed, all) /\ SameRest(freed, t) /\ freed.out_of_order = t.out_of_order
      /\ freed.next_seq = t.next_seq
  <2> HIDE DEF seg
  <2> QED BY DEF Core, SameRest, TcpFields
<1>6. u = IF U32(t.next_seq - seg.seq) < Len(seg.data)
          THEN Assemble(freed, seg.data, U32(t.next_seq - seg.seq)) ELSE freed BY DEF DrainStep
<1> HIDE DEF seg, freed
<1>7. seg.seq < SeqSpace \div 2 /\ t.next_seq < SeqSpace \div 2 /\ SeqSpace \div 2 < SeqSpace
      /\ SeqSpace \div 2 \in Nat /\ all \in Nat BY <1>1, <1>3, Half DEF InSpace
<1>8. seg.seq <= t.next_seq
  <2>1. SeqDiff(seg.seq, t.next_seq) = seg.seq - t.next_seq BY <1>1, <1>3, <1>7, SeqDiffIs
  <2> QED BY <1>1, <1>3, <1>4, <2>1
<1>9. U32(t.next_seq - seg.seq) = t.next_seq - seg.seq
  <2>1. t.next_seq - seg.seq \in 0 .. SeqSpace - 1 BY <1>1, <1>3, <1>7, <1>8, Half
  <2> QED BY <2>1, U32Small
<1>10. CASE U32(t.next_seq - seg.seq) < Len(seg.data)
  <2>1. u = Assemble(freed, seg.data, freed.next_seq - seg.seq) BY <1>5, <1>6, <1>9, <1>10
  <2> DEFINE at == seg.seq
             data == seg.data
  <2>3. at \in Nat /\ data \in Seq(Nat) /\ at + Len(data) <= all /\ at <= freed.next_seq
        /\ u = Assemble(freed, data, freed.next_seq - at) /\ Core(freed, all)
    BY <1>3, <1>5, <1>8, <2>1
  <2> HIDE DEF at, data
  <2>2. Core(u, all) /\ SameRest(u, freed) /\ u.out_of_order = freed.out_of_order
    BY <2>3, AssembleCore
  <2> QED BY <1>5, <2>2 DEF SameRest
<1>11. CASE ~(U32(t.next_seq - seg.seq) < Len(seg.data))
  BY <1>5, <1>6, <1>11
<1> QED BY <1>10, <1>11

-----------------------------------------------------------------------------
(* drain, start to end                                                     *)

(* g is the run of drain's loop on t over its first n iterations.          *)
Runs(t, n, g) == g = [k \in 0 .. n |-> IF k = 0 THEN [tcp |-> t, len |-> 0]
                                       ELSE DrainTurn(g[k - 1], k)]

(* There is a run of every length.                                         *)
LEMMA RunExists == ASSUME NEW t, NEW n \in Nat PROVE \E g : Runs(t, n, g)
<1> DEFINE Bad == {m \in Nat : ~\E g : Runs(t, m, g)}
<1>1. SUFFICES ASSUME Bad # {} PROVE FALSE OBVIOUS
<1>2. PICK m \in Bad : \A y \in Bad : m <= y
  <2>1. Bad \in SUBSET Nat OBVIOUS
  <2> HIDE DEF Bad
  <2> QED BY <1>1, <2>1, LeastOf
<1>3. m \in Nat /\ ~\E g : Runs(t, m, g) OBVIOUS
<1>4. CASE m = 0
  <2> DEFINE g == [k \in 0 .. 0 |-> [tcp |-> t, len |-> 0]]
  <2>1. g = [k \in 0 .. 0 |-> IF k = 0 THEN [tcp |-> t, len |-> 0] ELSE DrainTurn(g[k - 1], k)]
    OBVIOUS
  <2>2. Runs(t, 0, g) BY <2>1 DEF Runs
  <2> QED BY <1>3, <1>4, <2>2
<1>5. CASE m # 0
  <2>1. m - 1 \in Nat /\ m - 1 < m BY <1>3, <1>5
  <2>2. m - 1 \notin Bad
    <3> HIDE DEF Bad
    <3> QED BY <1>2, <1>3, <2>1
  <2>3. PICK g : Runs(t, m - 1, g) BY <2>1, <2>2
  <2> DEFINE h == [k \in 0 .. m |-> IF k = m THEN DrainTurn(g[m - 1], m) ELSE g[k]]
  <2>4. \A k \in 0 .. m : h[k] = IF k = 0 THEN [tcp |-> t, len |-> 0] ELSE DrainTurn(h[k - 1], k)
    <3> TAKE k \in 0 .. m
    <3>1. CASE k = m
      <4>1. k - 1 \in 0 .. m /\ k - 1 # m /\ k # 0 BY <1>3, <1>5, <2>1, <3>1
      <4>2. h[k] = DrainTurn(g[m - 1], m) /\ h[k - 1] = g[m - 1] BY <3>1, <4>1
      <4> QED BY <3>1, <4>1, <4>2
    <3>2. CASE k # m /\ k # 0
      <4>1. k \in 0 .. m - 1 /\ k - 1 \in 0 .. m /\ k - 1 # m BY <1>3, <2>1, <3>2
      <4>2. h[k] = g[k] /\ h[k - 1] = g[k - 1] BY <3>2, <4>1
      <4>3. g[k] = DrainTurn(g[k - 1], k)
        <5> HIDE DEF h, Bad
        <5> QED BY <2>3, <3>2, <4>1 DEF Runs
      <4> QED BY <3>2, <4>2, <4>3
    <3>3. CASE k # m /\ k = 0
      <4>1. 0 \in 0 .. m - 1 BY <1>3, <2>1
      <4>2. h[k] = g[0] BY <3>3
      <4>3. g[0] = [tcp |-> t, len |-> 0]
        <5> HIDE DEF h, Bad
        <5> QED BY <2>3, <4>1 DEF Runs
      <4> QED BY <3>3, <4>2, <4>3
    <3> QED BY <3>1, <3>2, <3>3
  <2>5. h = [k \in 0 .. m |-> h[k]] OBVIOUS
  <2> HIDE DEF h, Bad
  <2>6. h = [k \in 0 .. m |-> IF k = 0 THEN [tcp |-> t, len |-> 0] ELSE DrainTurn(h[k - 1], k)]
    BY <2>4, <2>5
  <2>7. Runs(t, m, h) BY <2>6 DEF Runs
  <2> QED BY <1>3, <2>7
<1> QED BY <1>4, <1>5

(* DrainRun is the run over the whole buffer.                              *)
LEMMA DrainRunIs ==
    ASSUME NEW t, Len(t.out_of_order) \in Nat
    PROVE  Runs(t, Len(t.out_of_order), DrainRun(t))
<1>1. \E g : g = [k \in 0 .. Len(t.out_of_order) |->
                    IF k = 0 THEN [tcp |-> t, len |-> 0] ELSE DrainTurn(g[k - 1], k)]
  BY RunExists DEF Runs
<1> QED BY <1>1 DEF Runs, DrainRun

(* After any number of iterations the bytes are still those of the host.   *)
LEMMA RunCore ==
    ASSUME NEW all, InSpace(all), NEW t, Core(t, all), NEW n \in Nat, NEW g, Runs(t, n, g)
    PROVE  \A k \in 0 .. n : /\ Core(g[k].tcp, all) /\ SameRest(g[k].tcp, t)
                             /\ g[k].len \in Nat
<1> DEFINE Good(k) == Core(g[k].tcp, all) /\ SameRest(g[k].tcp, t) /\ g[k].len \in Nat
           Bad == {k \in 0 .. n : ~Good(k)}
<1>1. SUFFICES ASSUME Bad # {} PROVE FALSE OBVIOUS
<1>2. PICK m \in Bad : \A y \in Bad : m <= y
  <2>1. Bad \in SUBSET Nat OBVIOUS
  <2> HIDE DEF Bad
  <2> QED BY <1>1, <2>1, LeastOf
<1>3. m \in 0 .. n /\ ~Good(m) OBVIOUS
<1>4. g[m] = IF m = 0 THEN [tcp |-> t, len |-> 0] ELSE DrainTurn(g[m - 1], m)
  <2> HIDE DEF Good, Bad
  <2> QED BY <1>3 DEF Runs
<1>5. CASE m = 0
  <2>1. g[m] = [tcp |-> t, len |-> 0] BY <1>4, <1>5
  <2>2. g[m].tcp = t /\ g[m].len = 0 BY <2>1
  <2> QED BY <1>3, <2>2 DEF SameRest
<1>6. CASE m # 0
  <2>1. m - 1 \in 0 .. n /\ m \in Nat /\ m - 1 < m BY <1>3, <1>6
  <2>2. m - 1 \notin Bad
    <3> HIDE DEF Bad, Good
    <3> QED BY <1>2, <1>3, <2>1
  <2>3. Good(m - 1) BY <2>1, <2>2
  <2> DEFINE at == g[m - 1]
  <2>4. Core(at.tcp, all) /\ SameRest(at.tcp, t) /\ at.len \in Nat BY <2>3
  <2>5. g[m] = DrainTurn(at, m) BY <1>4, <1>6
  <2> HIDE DEF at, Bad
  <2>6. CASE at.len = m - 1 /\ DrainContinues(at.tcp, at.len)
    <3> DEFINE u == DrainStep(at.tcp, at.len)
    <3>1. u = DrainStep(at.tcp, at.len) OBVIOUS
    <3>2. g[m] = [tcp |-> u, len |-> m] BY <2>5, <2>6 DEF DrainTurn
    <3> HIDE DEF u
    <3>3. Core(u, all) /\ SameRest(u, at.tcp) BY <2>4, <2>6, <3>1, DrainStepCore
    <3>4. SameRest(u, t) BY <2>4, <3>3 DEF SameRest
    <3>5. g[m].tcp = u /\ g[m].len = m BY <3>2
    <3>6. Good(m) BY <2>1, <3>3, <3>4, <3>5
    <3> QED BY <1>3, <3>6
  <2>7. CASE ~(at.len = m - 1 /\ DrainContinues(at.tcp, at.len))
    <3>1. g[m] = at BY <2>5, <2>7 DEF DrainTurn
    <3>2. Good(m) BY <2>4, <3>1
    <3> QED BY <1>3, <3>2
  <2> QED BY <2>6, <2>7
<1> QED BY <1>5, <1>6

(* drain.                                                                  *)
LEMMA DrainAllCore ==
    ASSUME NEW all, InSpace(all), NEW t, Core(t, all), NEW u, u = DrainAll(t)
    PROVE  Core(u, all) /\ SameRest(u, t)
<1> DEFINE n == Len(t.out_of_order)
           g == DrainRun(t)
           end == g[n].tcp
           len == g[n].len
           rest == SubSeq(end.out_of_order, len + 1, Len(end.out_of_order))
<1>1. n \in Nat BY LenProperties DEF Core
<1>2. Runs(t, n, g) BY <1>1, DrainRunIs
<1>3. u = [end EXCEPT !.out_of_order = rest] BY DEF DrainAll, DrainErase
<1> HIDE DEF g, n
<1>4. Core(end, all) /\ SameRest(end, t) /\ len \in Nat
  <2>1. n \in 0 .. n BY <1>1
  <2> QED BY <1>1, <1>2, <2>1, RunCore
<1> HIDE DEF end, len
<1>5. end.out_of_order \in Seq(Segs(all)) /\ Len(end.out_of_order) \in Nat
  BY <1>4, LenProperties DEF Core
<1>6. rest \in Seq(Segs(all))
  <2>1. \A i \in len + 1 .. Len(end.out_of_order) : end.out_of_order[i] \in Segs(all)
    <3> TAKE i \in len + 1 .. Len(end.out_of_order)
    <3>1. i \in 1 .. Len(end.out_of_order) BY <1>4, <1>5
    <3> QED BY <1>5, <3>1, ElementOfSeq
  <2>2. len + 1 \in Int /\ Len(end.out_of_order) \in Int BY <1>4, <1>5
  <2> HIDE DEF rest
  <2>3. rest = SubSeq(end.out_of_order, len + 1, Len(end.out_of_order)) BY DEF rest
  <2> QED BY <1>4, <1>5, <2>1, <2>2, <2>3, SubSeqProperties
<1> HIDE DEF rest
<1> QED BY <1>3, <1>4, <1>6 DEF Core, SameRest, TcpFields

(* A segment that goes into the buffer.                                    *)
LEMMA BufferAheadCore ==
    ASSUME NEW all, InSpace(all), NEW t, Core(t, all), NEW seq \in Nat, NEW span \in Seq(Nat),
           seq + Len(span) <= all, NEW u, u = BufferAhead(t, seq, span)
    PROVE  Core(u, all) /\ SameRest(u, t)
<1> DEFINE it == LowerBound(t, seq)
           old == t.out_of_order
           T == {i \in 1 .. Len(old) : U32(old[i].seq - t.next_seq) >= U32(seq - t.next_seq)}
                  \cup {Len(old) + 1}
           e == [seq |-> seq, data |-> span]
           ins == InsertAt(old, it, e)
           was == old[it]
           rep == [old EXCEPT ![it].data = span]
           extra == Len(span) - Len(t.out_of_order[it].data)
<1>1. Len(old) \in Nat /\ old \in Seq(Segs(all)) BY LenProperties DEF Core
<1>2. it \in 1 .. Len(old) + 1
  <2>1. T \in SUBSET Nat /\ T # {} /\ T \subseteq 1 .. Len(old) + 1
    <3> HIDE DEF old
    <3> QED BY <1>1
  <2>2. it = Min(T) BY DEF LowerBound
  <2> HIDE DEF T, it, old
  <2> QED BY <2>1, <2>2, MinIn
<1>3. e \in Segs(all) BY DEF Segs
<1>4. CASE it <= Len(old) /\ old[it].seq = seq
  <2>1. it \in 1 .. Len(old) BY <1>1, <1>2, <1>4
  <2>2. old[it] \in Segs(all)
    <3> HIDE DEF it
    <3> QED BY <2>1, SegOf
  <2>3. rep \in Seq(Segs(all))
    <3>1. DOMAIN old = 1 .. Len(old) BY <1>1, LenProperties
    <3>2. rep = [old EXCEPT ![it] = [was EXCEPT !.data = span]] BY <3>1, <2>1
    <3>3. [was EXCEPT !.data = span] = e
      <4>1. was \in [seq : Nat, data : Seq(Nat)] /\ was.seq = seq BY <1>4, <2>2 DEF Segs
      <4>2. \A w \in [seq : Nat, data : Seq(Nat)] :
               [w EXCEPT !.data = span] = [seq |-> w.seq, data |-> span] OBVIOUS
      <4> HIDE DEF was
      <4>3. [was EXCEPT !.data = span] = [seq |-> was.seq, data |-> span] BY <4>1, <4>2
      <4> QED BY <4>1, <4>3
    <3>4. rep = [old EXCEPT ![it] = e] BY <3>2, <3>3
    <3> HIDE DEF e, it, old, rep
    <3> QED BY <1>1, <1>3, <2>1, <3>4, ExceptSeq
  <2>4. u = IF extra > 0 /\ t.ooo_bytes + extra <= MAX_OOO_BYTES
            THEN [t EXCEPT !.ooo_bytes = @ + extra, !.out_of_order = rep]
            ELSE t
    <3> HIDE DEF it
    <3>1. u = IF extra > 0 /\ t.ooo_bytes + extra <= MAX_OOO_BYTES
              THEN [t EXCEPT !.ooo_bytes = @ + extra, !.out_of_order[it].data = span]
              ELSE t BY <1>4 DEF BufferAhead, it
    <3> QED BY <3>1 DEF Core, TcpFields
  <2> HIDE DEF rep, extra, it
  <2> QED BY <2>3, <2>4 DEF Core, SameRest, TcpFields
<1>5. CASE ~(it <= Len(old) /\ old[it].seq = seq)
  <2>1. ins \in Seq(Segs(all))
    <3> HIDE DEF it, e
    <3> QED BY <1>1, <1>2, <1>3, InsertAtType
  <2>2. u = IF t.ooo_bytes + Len(span) <= MAX_OOO_BYTES
            THEN [t EXCEPT !.ooo_bytes = @ + Len(span), !.out_of_order = ins]
            ELSE t BY <1>5 DEF BufferAhead
  <2> HIDE DEF ins
  <2> QED BY <2>1, <2>2 DEF Core, SameRest, TcpFields
<1> QED BY <1>4, <1>5

(* ingest, with drain.                                                     *)
IngestAll(t, seq, span) ==
    IF Drains(t, seq, span) THEN DrainAll(Ingest(t, seq, span)) ELSE Ingest(t, seq, span)

(* Handing over any bytes within the space keeps Core.                     *)
LEMMA IngestCore ==
    ASSUME NEW all, InSpace(all), NEW t, Core(t, all), NEW seq \in Nat, NEW span \in Seq(Nat),
           seq + Len(span) <= all, NEW u, u = IngestAll(t, seq, span)
    PROVE  Core(u, all) /\ SameRest(u, t)
<1>1. /\ t.next_seq \in Nat /\ t.next_seq <= all /\ t.keep_payload = TRUE
      /\ Len(span) \in Nat BY LenProperties DEF Core
<1>2. /\ seq <= all /\ all \in Nat /\ all < SeqSpace \div 2 /\ SeqSpace \div 2 \in Nat
      /\ SeqSpace \div 2 < SeqSpace BY <1>1, Half DEF InSpace
<1>3. seq < SeqSpace \div 2 /\ t.next_seq < SeqSpace \div 2 BY <1>1, <1>2
<1>4. SeqDiff(seq, t.next_seq) = seq - t.next_seq
  <2>1. t.next_seq <= SeqSpace \div 2 BY <1>1, <1>2
  <2> QED BY <1>1, <1>3, <2>1, SeqDiffIs
<1> DEFINE v == Ingest(t, seq, span)
<1>5. CASE Drains(t, seq, span)
  <2>1. seq <= t.next_seq
    <3>1. seq = t.next_seq \/ SeqDiff(seq, t.next_seq) < 0 BY <1>5 DEF Drains
    <3> QED BY <1>1, <1>4, <3>1
  <2>2. U32(t.next_seq - seq) = t.next_seq - seq
    <3>1. t.next_seq - seq \in 0 .. SeqSpace - 1 BY <1>1, <1>2, <1>3, <2>1, Half
    <3> QED BY <3>1, U32Small
  <2>3. v = Assemble(t, span, t.next_seq - seq) BY <1>1, <1>5, <2>2 DEF Ingest
  <2>4. u = DrainAll(v) BY <1>5 DEF IngestAll
  <2> HIDE DEF v
  <2>5. Core(v, all) /\ SameRest(v, t) BY <2>1, <2>3, AssembleCore
  <2>6. Core(u, all) /\ SameRest(u, v) BY <2>4, <2>5, DrainAllCore
  <2> QED BY <2>5, <2>6 DEF SameRest
<1>6. CASE ~Drains(t, seq, span)
  <2>1. u = v BY <1>6 DEF IngestAll
  <2>2. CASE SeqDiff(seq, t.next_seq) > 0
    <3>1. u = BufferAhead(t, seq, span) BY <1>1, <1>6, <2>1, <2>2 DEF Ingest
    <3> QED BY <3>1, BufferAheadCore
  <2>3. CASE ~(SeqDiff(seq, t.next_seq) > 0)
    <3>1. u = t BY <1>1, <1>6, <2>1, <2>3 DEF Ingest
    <3> QED BY <3>1 DEF SameRest
  <2> QED BY <2>2, <2>3
<1> QED BY <1>5, <1>6

-----------------------------------------------------------------------------
(* One direction                                                           *)

Fins == {"FinWait1", "FinWait2", "Closing", "LastAck", "TimeWait"}

(* The struct of a direction that is not known to be closed.  all is the   *)
(* number of units of its host; sf, rf and pf tell whether its host has    *)
(* sent its FIN, whether the peer has it, and whether the peer has sent    *)
(* one.  next_seq never passes the host's last unit before the FIN is acted*)
(* on, and is past the FIN afterwards (by one more when the direction was  *)
(* first seen in a segment after its FIN).                                 *)
Shape(t, all) ==
    /\ DOMAIN t = TcpFields /\ t.keep_payload = TRUE
    /\ t.next_seq \in Nat /\ t.out_of_order \in Seq(Segs(all))

Live(t, all, sf, rf, pf) ==
    /\ Shape(t, all)
    /\ t.state \in TcpStates \ {"Closed"}
    /\ t.state \notin Fins => t.next_seq <= all
    /\ t.state \in Fins => sf /\ t.next_seq \in all .. all + 1
    /\ t.state \in {"FinWait2", "TimeWait"} => rf
    /\ t.state \in {"CloseWait", "Closing", "LastAck", "TimeWait"} => pf
    /\ t.fin_seen => sf /\ t.fin_seq = all - 1

(* A closed direction may be taken for a new one by the segments that      *)
(* follow; what StateSound says of it is then true of the hosts for good.  *)
DirOK(t, all, sf, rf, pf) == (sf /\ rf /\ pf) \/ Live(t, all, sf, rf, pf)

(* The FIN of a segment, once ingest has returned.                         *)
LEMMA FinKeeps ==
    ASSUME NEW all, InSpace(all), NEW sf, NEW rf, NEW pf, NEW t, Core(t, all),
           t.state \in {"Established", "CloseWait"},
           t.state = "CloseWait" => pf, t.fin_seen => sf /\ t.fin_seq = all - 1,
           NEW fin \in BOOLEAN, NEW at, fin => sf /\ at = all - 1,
           NEW u, u = OnDataFin(t, fin, at)
    PROVE  Live(u, all, sf, rf, pf)
<1> DEFINE where == IF fin THEN at ELSE t.fin_seq
           st == IF t.state = "CloseWait" THEN "LastAck" ELSE "FinWait1"
<1>1. t.next_seq \in Nat /\ t.next_seq <= all /\ all \in Nat /\ all >= 2
      /\ all < SeqSpace \div 2 /\ SeqSpace \div 2 \in Nat /\ SeqSpace = 2 * (SeqSpace \div 2)
  BY Half DEF Core, InSpace
<1>2. t.fin_seen \/ fin => sf /\ where = all - 1 OBVIOUS
<1>3. CASE (t.fin_seen \/ fin) /\ SeqDiff(t.next_seq, where) >= 0
  <2>1. where = all - 1 /\ all - 1 \in Nat /\ all - 1 <= SeqSpace \div 2
        /\ t.next_seq < SeqSpace \div 2 BY <1>1, <1>2, <1>3
  <2>2. SeqDiff(t.next_seq, where) = t.next_seq - where BY <1>1, <2>1, SeqDiffIs
  <2>3. t.next_seq + 1 \in all .. all + 1
    <3>1. t.next_seq - where >= 0 BY <1>3, <2>2
    <3> QED BY <1>1, <2>1, <3>1
  <2>4. U32(t.next_seq + 1) = t.next_seq + 1
    <3>1. t.next_seq + 1 \in 0 .. SeqSpace - 1 BY <1>1
    <3> QED BY <3>1, U32Small
  <2>5. u = [t EXCEPT !.fin_seen = FALSE, !.fin_seq = where, !.next_seq = t.next_seq + 1, !.state = st]
    <3>1. u = [t EXCEPT !.fin_seen = FALSE, !.fin_seq = where, !.next_seq = U32(t.next_seq + 1),
                        !.state = st] BY <1>3 DEF OnDataFin
    <3> QED BY <2>4, <3>1
  <2>6. /\ DOMAIN u = TcpFields /\ u.keep_payload = TRUE /\ u.out_of_order = t.out_of_order
        /\ u.fin_seen = FALSE /\ u.next_seq = t.next_seq + 1 /\ u.state = st
    <3> HIDE DEF where, st
    <3> QED BY <2>5 DEF Core, TcpFields
  <2>7. /\ u.state \in {"LastAck", "FinWait1"} /\ (u.state = "LastAck" => pf) /\ sf
        /\ u.next_seq \in Nat /\ u.next_seq \in all .. all + 1
        /\ u.out_of_order \in Seq(Segs(all))
    BY <1>1, <1>2, <1>3, <2>3, <2>6 DEF Core
  <2> QED BY <2>6, <2>7 DEF Live, Shape, TcpStates, Fins
<1>4. CASE ~((t.fin_seen \/ fin) /\ SeqDiff(t.next_seq, where) >= 0)
  <2>1. u = [t EXCEPT !.fin_seen = t.fin_seen \/ fin, !.fin_seq = where] BY <1>4 DEF OnDataFin
  <2>2. /\ DOMAIN u = TcpFields /\ u.keep_payload = TRUE /\ u.out_of_order = t.out_of_order
        /\ u.fin_seen = (t.fin_seen \/ fin) /\ u.fin_seq = where /\ u.next_seq = t.next_seq
        /\ u.state = t.state
    <3> HIDE DEF where
    <3> QED BY <2>1 DEF Core, TcpFields
  <2>3. u.fin_seen => sf /\ u.fin_seq = all - 1 BY <1>2, <2>2
  <2>4. u.state \in {"Established", "CloseWait"} /\ (u.state = "CloseWait" => pf)
        /\ u.next_seq \in Nat /\ u.next_seq <= all /\ u.out_of_order \in Seq(Segs(all))
    BY <1>1, <2>2 DEF Core
  <2> QED BY <2>2, <2>3, <2>4 DEF Live, Shape, TcpStates, Fins
<1> QED BY <1>3, <1>4

(* A segment of a host that has all units: what OnSentAll is called with.  *)
SegmentOf(h, span, all, sf) ==
    /\ h.syn \in BOOLEAN /\ h.ack \in BOOLEAN /\ h.fin \in BOOLEAN /\ h.rst = FALSE
    /\ span \in Seq(Nat) /\ h.seq_number \in Nat /\ h.seq_number + Len(span) <= all
    /\ h.syn => h.seq_number = 0 /\ Len(span) = 0
    /\ h.fin => sf /\ h.seq_number + Len(span) = all - 1

(* onSent, with all it calls, on a live direction.                         *)
LEMMA SentKeeps ==
    ASSUME NEW all, InSpace(all), NEW sf, NEW rf, NEW pf, NEW t, Live(t, all, sf, rf, pf),
           NEW h, NEW span, SegmentOf(h, span, all, sf), NEW u, u = OnSentAll(t, h, span)
    PROVE  Live(u, all, sf, rf, pf)
<1> DEFINE out == OnSent(t, h)
           done == IngestAll(out.tcp, out.seq, span)
           at == U32(h.seq_number + Len(span))
<1>0. /\ h.seq_number \in Nat /\ h.seq_number <= all /\ span \in Seq(Nat) /\ Len(span) \in Nat
      /\ h.seq_number + Len(span) <= all /\ all \in Nat /\ all >= 2 /\ all < SeqSpace
      /\ h.fin \in BOOLEAN
  <2>1. span \in Seq(Nat) /\ h.seq_number \in Nat BY DEF SegmentOf
  <2>2. Len(span) \in Nat BY <2>1, LenProperties
  <2>3. all \in Nat /\ all >= 2 /\ all < SeqSpace BY Half DEF InSpace
  <2> QED BY <2>1, <2>2, <2>3 DEF SegmentOf
<1>1. u = CASE out.call = "none"   -> out.tcp
            [] out.call = "ingest" -> done
            [] out.call = "onData" -> OnDataFin(done, h.fin, at)
  BY DEF OnSentAll, IngestAll
<1>2. h.fin => sf /\ at = all - 1
  <2>1. all - 1 \in 0 .. SeqSpace - 1 BY <1>0, Half
  <2> QED BY <2>1, U32Small DEF SegmentOf
<1>d. done = IngestAll(out.tcp, out.seq, span) OBVIOUS
<1> HIDE DEF at, done
(* What the segment is handed to.                                          *)
<1>3. ASSUME NEW v, out = [tcp |-> v, call |-> "onData", seq |-> h.seq_number], Core(v, all),
             v.state \in {"Established", "CloseWait"}, v.state = "CloseWait" => pf,
             v.fin_seen = t.fin_seen, v.fin_seq = t.fin_seq
      PROVE  Live(u, all, sf, rf, pf)
  <2>1. out.tcp = v /\ out.call = "onData" /\ out.seq = h.seq_number BY <1>3
  <2> HIDE DEF out
  <2>2. done = IngestAll(v, h.seq_number, span) /\ u = OnDataFin(done, h.fin, at) BY <1>1, <1>d, <2>1
  <2>3. Core(done, all) /\ SameRest(done, v) BY <1>0, <1>3, <2>2, IngestCore
  <2>4. /\ done.state \in {"Established", "CloseWait"} /\ (done.state = "CloseWait" => pf)
        /\ (done.fin_seen => sf /\ done.fin_seq = all - 1)
    BY <1>3, <2>3 DEF SameRest, Live
  <2> QED BY <1>0, <1>2, <2>2, <2>3, <2>4, FinKeeps
<1>4. CASE ~t.seeded /\ h.syn
  <2> DEFINE st == IF h.ack THEN "SynReceived" ELSE "SynSent"
             v == [t EXCEPT !.next_seq = 1, !.state = st, !.seeded = TRUE]
  <2>1. U32(h.seq_number + 1) = 1
    <3>1. h.seq_number + 1 = 1 /\ 1 \in 0 .. SeqSpace - 1 BY <1>0, <1>4, Half DEF SegmentOf
    <3> QED BY <3>1, U32Small
  <2>2. out = [tcp |-> [t EXCEPT !.next_seq = U32(h.seq_number + 1), !.state = st, !.seeded = TRUE],
               call |-> "ingest", seq |-> U32(h.seq_number + 1)]
    BY <1>4 DEF OnSent, SegmentOf
  <2>3. out.tcp = v /\ out.call = "ingest" /\ out.seq = 1
    <3> DEFINE w == [t EXCEPT !.next_seq = U32(h.seq_number + 1), !.state = st, !.seeded = TRUE]
    <3>1. w = v BY <2>1
    <3>2. out = [tcp |-> w, call |-> "ingest", seq |-> 1] BY <2>1, <2>2
    <3> HIDE DEF w, v, out
    <3> QED BY <3>1, <3>2
  <2>4. /\ Core(v, all) /\ v.state = st /\ v.fin_seen = t.fin_seen /\ v.fin_seq = t.fin_seq
    <3> HIDE DEF st
    <3>1. 1 \in Nat /\ 1 <= all BY <1>0
    <3> QED BY <3>1 DEF Live, Shape, Core, TcpFields
  <2> HIDE DEF out, v
  <2>5. done = IngestAll(v, 1, span) /\ u = done BY <1>1, <1>d, <2>3
  <2>6. 1 + Len(span) <= all BY <1>0, <1>4 DEF SegmentOf
  <2>7. Core(u, all) /\ SameRest(u, v) BY <1>0, <2>4, <2>5, <2>6, IngestCore
  <2>8. u.state \in {"SynReceived", "SynSent"} /\ (u.fin_seen => sf /\ u.fin_seq = all - 1)
    BY <2>4, <2>7 DEF SameRest, Live
  <2> QED BY <2>7, <2>8 DEF Live, Shape, Core, TcpStates, Fins
<1>5. CASE ~t.seeded /\ ~h.syn /\ h.ack
  <2> DEFINE st == IF t.state = "CloseWait" THEN "CloseWait" ELSE "Established"
             v == [t EXCEPT !.next_seq = h.seq_number, !.seeded = TRUE, !.state = st]
  <2>1. out = [tcp |-> v, call |-> "onData", seq |-> h.seq_number]
    <3>1. out = [tcp |-> [t EXCEPT !.next_seq = h.seq_number, !.seeded = TRUE,
                                   !.state = IF @ = "CloseWait" THEN @ ELSE "Established"],
                 call |-> "onData", seq |-> h.seq_number]
      BY <1>5 DEF OnSent, SegmentOf
    <3>2. [t EXCEPT !.next_seq = h.seq_number, !.seeded = TRUE,
                    !.state = IF @ = "CloseWait" THEN @ ELSE "Established"] = v
      BY DEF Live, Shape, TcpFields
    <3> HIDE DEF v, out
    <3> QED BY <3>1, <3>2
  <2>2. /\ Core(v, all) /\ v.state = st /\ v.fin_seen = t.fin_seen /\ v.fin_seq = t.fin_seq
    <3> HIDE DEF st, out
    <3> QED BY <1>0 DEF Live, Shape, Core, TcpFields
  <2>3. v.state \in {"Established", "CloseWait"} /\ (v.state = "CloseWait" => pf)
    BY <2>2 DEF Live
  <2> HIDE DEF v, out
  <2> QED BY <1>3, <2>1, <2>2, <2>3
<1>6. CASE t.seeded /\ t.state = "SynSent" /\ h.ack /\ ~h.syn
  <2> DEFINE v == [t EXCEPT !.state = "Established"]
  <2>1. out = [tcp |-> v, call |-> "onData", seq |-> h.seq_number]
    BY <1>6 DEF OnSent, SegmentOf
  <2>2. /\ Core(v, all) /\ v.state = "Established" /\ v.fin_seen = t.fin_seen
        /\ v.fin_seq = t.fin_seq
    <3> HIDE DEF out
    <3> QED BY <1>6 DEF Live, Shape, Core, TcpFields, Fins
  <2> HIDE DEF v, out
  <2> QED BY <1>3, <2>1, <2>2
<1>7. CASE t.seeded /\ t.state \in {"Established", "CloseWait"}
  <2>1. out = [tcp |-> t, call |-> "onData", seq |-> h.seq_number]
    BY <1>7 DEF OnSent, SegmentOf
  <2>2. Core(t, all) /\ (t.state = "CloseWait" => pf)
    <3> HIDE DEF out
    <3> QED BY <1>7 DEF Live, Shape, Core, Fins
  <2> HIDE DEF out
  <2> QED BY <1>3, <1>7, <2>1, <2>2
<1>8. CASE ~(\/ ~t.seeded /\ h.syn
             \/ ~t.seeded /\ ~h.syn /\ h.ack
             \/ t.seeded /\ t.state = "SynSent" /\ h.ack /\ ~h.syn
             \/ t.seeded /\ t.state \in {"Established", "CloseWait"})
  <2>1. out = [tcp |-> t, call |-> "none", seq |-> 0]
    <3>1. h.rst = FALSE BY DEF SegmentOf
    <3> QED BY <1>8, <3>1 DEF OnSent
  <2>2. out.tcp = t /\ out.call = "none" BY <2>1
  <2> HIDE DEF out
  <2>3. u = t BY <1>1, <2>2
  <2> QED BY <2>3
<1> QED BY <1>4, <1>5, <1>6, <1>7, <1>8

(* A segment of the peer of a host that has all units: what OnReceived is  *)
(* called with.  It acknowledges no more than the peer has received.       *)
PeerSegment(h, all, rf, pf) ==
    /\ h.syn \in BOOLEAN /\ h.ack \in BOOLEAN /\ h.fin \in BOOLEAN /\ h.rst = FALSE
    /\ h.ack_number \in Nat /\ h.ack_number <= all
    /\ h.ack_number = all => rf
    /\ h.fin => pf

(* onReceived on a live direction.                                         *)
LEMMA ReceivedKeeps ==
    ASSUME NEW all, InSpace(all), NEW sf, NEW rf, NEW pf, NEW t, Live(t, all, sf, rf, pf),
           NEW h, PeerSegment(h, all, rf, pf),
           NEW u, u = OnReceived(t, h)
    PROVE  DirOK(u, all, sf, rf, pf)
<1>0. /\ h.syn \in BOOLEAN /\ h.ack \in BOOLEAN /\ h.fin \in BOOLEAN /\ h.rst = FALSE
      /\ h.ack_number \in Nat /\ h.ack_number <= all
      /\ (h.ack_number = all => rf) /\ (h.fin => pf) BY DEF PeerSegment
<1>1. t.state \in Fins /\ Acked(t, h) => rf
  <2>1. HAVE t.state \in Fins /\ Acked(t, h)
  <2>2. t.next_seq \in all .. all + 1 BY <2>1 DEF Live
  <2>3. all \in Nat /\ all + 1 <= SeqSpace \div 2 /\ SeqSpace \div 2 \in Nat BY Half DEF InSpace
  <2>4. t.next_seq \in Nat /\ t.next_seq <= SeqSpace \div 2 /\ h.ack_number < SeqSpace \div 2
    BY <1>0, <2>2, <2>3
  <2>5. SeqDiff(h.ack_number, t.next_seq) = h.ack_number - t.next_seq BY <1>0, <2>4, SeqDiffIs
  <2>6. h.ack_number - t.next_seq >= 0 BY <2>1, <2>5 DEF Acked
  <2>7. h.ack_number = all BY <1>0, <2>2, <2>3, <2>4, <2>6
  <2> QED BY <1>0, <2>7
<1>2. PICK st : u = [t EXCEPT !.state = st] /\ st = OnReceived(t, h).state
  <2>1. \E st : OnReceived(t, h) = [t EXCEPT !.state = st] BY DEF OnReceived
  <2>2. PICK st : u = [t EXCEPT !.state = st] BY <2>1
  <2>3. u.state = st BY <2>2 DEF Live, Shape, TcpFields
  <2> QED BY <2>2, <2>3
<1>3. \A s : OnReceived(t, h) = [t EXCEPT !.state = s] => OnReceived(t, h).state = s
  BY DEF Live, Shape, TcpFields
<1>4. /\ DOMAIN u = TcpFields /\ u.keep_payload = TRUE /\ u.out_of_order = t.out_of_order
      /\ u.next_seq = t.next_seq /\ u.fin_seen = t.fin_seen /\ u.fin_seq = t.fin_seq
      /\ u.state = st
  BY <1>2 DEF Live, Shape, TcpFields
<1>5. Shape(u, all) BY <1>4 DEF Live, Shape
<1>6. CASE t.state \in {"Unknown", "Listen", "SynSent", "SynReceived", "Established"}
  <2>1. st \in {"Unknown", "Listen", "SynSent", "SynReceived", "Established", "CloseWait"}
        /\ (st = "CloseWait" => h.fin)
    BY <1>0, <1>2, <1>3, <1>6 DEF OnReceived
  <2>2. t.next_seq <= all BY <1>6 DEF Live, Fins
  <2> QED BY <1>0, <1>4, <1>5, <2>1, <2>2 DEF DirOK, Live, TcpStates, Fins
<1>7. CASE t.state \in {"CloseWait", "TimeWait"}
  <2>1. st = t.state BY <1>0, <1>2, <1>3, <1>7 DEF OnReceived
  <2> QED BY <1>4, <1>5, <2>1 DEF DirOK, Live
<1>8. CASE t.state \in {"FinWait1", "FinWait2", "Closing"}
  <2>1. st \in {"FinWait1", "FinWait2", "Closing", "TimeWait"}
    BY <1>0, <1>2, <1>3, <1>8 DEF OnReceived
  <2>2. (st = "FinWait2" => rf) /\ (st = "TimeWait" => rf /\ pf) /\ (st = "Closing" => pf)
    <3>0. t.state \in Fins BY <1>8 DEF Fins
    <3>1. CASE t.state = "FinWait1" BY <1>0, <1>1, <1>2, <1>3, <3>0, <3>1 DEF OnReceived
    <3>2. CASE t.state = "FinWait2"
      <4>1. st = IF h.fin THEN "TimeWait" ELSE t.state BY <1>0, <1>2, <1>3, <3>2 DEF OnReceived
      <4> QED BY <1>0, <3>2, <4>1 DEF Live
    <3>3. CASE t.state = "Closing"
      <4>1. st = IF Acked(t, h) THEN "TimeWait" ELSE t.state BY <1>0, <1>2, <1>3, <3>3 DEF OnReceived
      <4> QED BY <1>1, <3>0, <3>3, <4>1 DEF Live
    <3> QED BY <1>8, <3>1, <3>2, <3>3
  <2>3. sf /\ t.next_seq \in all .. all + 1 BY <1>8 DEF Live, Fins
  <2> QED BY <1>4, <1>5, <2>1, <2>2, <2>3 DEF DirOK, Live, TcpStates, Fins
<1>9. CASE t.state = "LastAck"
  <2>1. st = IF Acked(t, h) THEN "Closed" ELSE t.state BY <1>0, <1>2, <1>3, <1>9 DEF OnReceived
  <2>2. sf /\ pf BY <1>9 DEF Live, Fins
  <2>3. CASE Acked(t, h)
    <3>1. rf BY <1>1, <1>9, <2>3 DEF Fins
    <3> QED BY <2>2, <3>1 DEF DirOK
  <2>4. CASE ~Acked(t, h)
    <3>1. st = t.state BY <2>1, <2>4
    <3> QED BY <1>4, <1>5, <3>1 DEF DirOK, Live
  <2> QED BY <2>3, <2>4
<1> QED BY <1>6, <1>7, <1>8, <1>9 DEF Live, TcpStates

(* The poll of the application decoder leaves all of this alone.           *)
LEMMA ConsumeKeeps ==
    ASSUME NEW all, NEW sf, NEW rf, NEW pf, NEW t, Live(t, all, sf, rf, pf),
           NEW n, NEW u, u = Consume(t, n)
    PROVE  Live(u, all, sf, rf, pf)
<1>1. /\ DOMAIN u = TcpFields /\ u.keep_payload = t.keep_payload
      /\ u.out_of_order = t.out_of_order /\ u.next_seq = t.next_seq
      /\ u.fin_seen = t.fin_seen /\ u.fin_seq = t.fin_seq /\ u.state = t.state
  <2> DEFINE pos == t.read_pos + Min({n, Available(t)})
             cut == SubSeq(t.assembled, pos + 1, Len(t.assembled))
  <2>1. u = IF pos > MIN_COMPACT_BYTES /\ pos > Len(t.assembled) \div 2
            THEN [t EXCEPT !.assembled = cut, !.read_pos = 0]
            ELSE [t EXCEPT !.read_pos = pos] BY DEF Consume
  <2> HIDE DEF pos, cut
  <2> QED BY <2>1 DEF Live, Shape, TcpFields
<1> QED BY <1>1 DEF Live, Shape

-----------------------------------------------------------------------------
(* The two hosts                                                           *)

Units(c, d) == c.bytes[d] + 2

(* A segment on the wire carries what its host has sent, and acknowledges  *)
(* what it has received.                                                   *)
SegmentOK(hst, w) ==
    /\ w.host \in Hosts /\ w.from \in Nat /\ w.to \in Nat /\ w.ack \in Nat
    /\ w.from <= w.to /\ w.to <= hst[w.host].sent /\ w.ack <= hst[w.host].rcvd
    /\ w.from = 0 => w.to = 1

(* Nobody has received what was not sent, nor sees acknowledged what was   *)
(* not received.                                                           *)
HostsOK(c, hst, wr) ==
    /\ hst \in [Hosts -> [sent : Nat, rcvd : Nat, acked : Nat]]
    /\ \A d \in Hosts : /\ hst[d].sent <= Units(c, d)
                        /\ hst[d].rcvd <= hst[Peer(d)].sent
                        /\ hst[d].acked <= hst[Peer(d)].rcvd
    /\ \A w \in wr : SegmentOK(hst, w)

Sent(c, hst, d) == hst[d].sent = Units(c, d)
Got(c, hst, d) == hst[Peer(d)].rcvd = Units(c, d)

DirsOK(c, hst, tc) ==
    /\ DOMAIN tc = Hosts
    /\ \A d \in Hosts : DirOK(tc[d], Units(c, d), Sent(c, hst, d), Got(c, hst, d), Sent(c, hst, Peer(d)))

(* The inductive invariant.                                                *)
CInv == /\ conn \in Connections
        /\ HostsOK(conn, host, wire)
        /\ DirsOK(conn, host, tcp)

(* Each host has one peer.                                                 *)
LEMMA PeerOf == \A d \in Hosts : Peer(d) \in Hosts /\ Peer(d) # d /\ Peer(Peer(d)) = d
BY DEF Hosts, Peer

(* A direction is its bytes with a SYN before and a FIN behind.            *)
LEMMA UnitsOf ==
    ASSUME NEW c \in Connections, NEW d \in Hosts
    PROVE  InSpace(Units(c, d)) /\ c.bytes[d] \in Nat /\ Units(c, d) = c.bytes[d] + 2
<1>1. c.bytes \in [Hosts -> Nat] BY ConnectionAssumption
<1>2. c.bytes[d] \in Nat BY <1>1
<1>3. c.bytes[d] + 2 < SeqSpace \div 2 BY ConnectionAssumption
<1> QED BY <1>2, <1>3, Half DEF InSpace, Units

(* What the hosts have done is done: what was sound stays sound.           *)
LEMMA DirGrows ==
    ASSUME NEW t, NEW all, NEW sf, NEW rf, NEW pf, NEW sf2, NEW rf2, NEW pf2,
           sf => sf2, rf => rf2, pf => pf2, DirOK(t, all, sf, rf, pf)
    PROVE  DirOK(t, all, sf2, rf2, pf2)
<1>1. CASE sf /\ rf /\ pf BY <1>1 DEF DirOK
<1>2. CASE Live(t, all, sf, rf, pf)
  <2>1. Live(t, all, sf2, rf2, pf2) BY <1>2, Zenon DEF Live
  <2> QED BY <2>1 DEF DirOK
<1> QED BY <1>1, <1>2 DEF DirOK

(* What is known of the directions holds on as hosts send and receive      *)
(* more.                                                                   *)
LEMMA DirsGrow ==
    ASSUME NEW c \in Connections, NEW hst, NEW wr, HostsOK(c, hst, wr),
           NEW hst2, NEW wr2, HostsOK(c, hst2, wr2),
           \A d \in Hosts : hst2[d].sent >= hst[d].sent /\ hst2[d].rcvd >= hst[d].rcvd,
           NEW tc, DirsOK(c, hst, tc)
    PROVE  DirsOK(c, hst2, tc)
<1>1. \A d \in Hosts : /\ Sent(c, hst, d) => Sent(c, hst2, d)
                       /\ Got(c, hst, d) => Got(c, hst2, d)
  <2> TAKE d \in Hosts
  <2>0. Peer(d) \in Hosts /\ Peer(Peer(d)) = d BY PeerOf
  <2>1. Units(c, d) \in Nat BY UnitsOf DEF InSpace
  <2>2. /\ hst[d].sent \in Nat /\ hst2[d].sent \in Nat /\ hst2[d].sent <= Units(c, d)
        /\ hst[Peer(d)].rcvd \in Nat /\ hst2[Peer(d)].rcvd \in Nat
        /\ hst2[Peer(d)].rcvd <= hst2[d].sent
    BY <2>0 DEF HostsOK
  <2>3. hst2[d].sent >= hst[d].sent /\ hst2[Peer(d)].rcvd >= hst[Peer(d)].rcvd BY <2>0
  <2> QED BY <2>1, <2>2, <2>3 DEF Sent, Got
<1>2. ASSUME NEW d \in Hosts
      PROVE  DirOK(tc[d], Units(c, d), Sent(c, hst2, d), Got(c, hst2, d), Sent(c, hst2, Peer(d)))
  <2>1. DirOK(tc[d], Units(c, d), Sent(c, hst, d), Got(c, hst, d), Sent(c, hst, Peer(d)))
    BY <1>2 DEF DirsOK
  <2>2. Peer(d) \in Hosts BY PeerOf
  <2> QED BY <1>1, <2>1, <2>2, DirGrows
<1> QED BY <1>2 DEF DirsOK

-----------------------------------------------------------------------------
(* A captured segment                                                      *)

(* The bytes of a segment.                                                 *)
Payload(n, from, to) == SubSeq([k \in 1 .. n |-> k], Max({from, 1}), Min({to - 1, n}))

(* The bytes among the first units of a host that sends n bytes.           *)
Within(n, units) == IF units = 0 THEN 0 ELSE IF units - 1 <= n THEN units - 1 ELSE n

PayloadFits(p, n, from, to) ==
    /\ p \in Seq(Nat) /\ Len(p) \in Nat /\ from + Len(p) <= n + 2
    /\ from = 0 => Len(p) = 0
    /\ from < to /\ to = n + 2 => from + Len(p) = n + 1
    /\ Len(p) = Within(n, to) - Within(n, from)

(* The bytes among the units from .. to - 1.                               *)
LEMMA PayloadIs ==
    ASSUME NEW n \in Nat, NEW from \in Nat, NEW to \in Nat, from <= to, to <= n + 2,
           from = 0 => to = 1, NEW p, p = Payload(n, from, to)
    PROVE  PayloadFits(p, n, from, to)
<1> DEFINE s == [k \in 1 .. n |-> k]
           a == Max({from, 1})
           b == Min({to - 1, n})
<1>1. s \in Seq(Nat) /\ Len(s) = n
  <2>1. s \in [1 .. n -> Nat] OBVIOUS
  <2> QED BY <2>1 DEF s
<1>2. a \in {from, 1} /\ a \in Nat /\ a >= from /\ a >= 1 BY MaxOfTwo
<1>3. b \in {to - 1, n} /\ b \in Int /\ b <= to - 1 /\ b <= n
  <2> DEFINE last == to - 1
  <2>1. last \in Int /\ n \in Int /\ b = Min({last, n}) OBVIOUS
  <2> HIDE DEF last, b
  <2>2. b \in {last, n} /\ b \in Int /\ b <= last /\ b <= n BY <2>1, MinOfTwo
  <2> QED BY <2>2 DEF last
<1>4. p = SubSeq(s, a, b) BY DEF Payload
<1> HIDE DEF s, a, b
<1>5. \A i \in a .. b : s[i] \in Nat
  <2> TAKE i \in a .. b
  <2>1. i \in 1 .. Len(s) BY <1>1, <1>2, <1>3
  <2> QED BY <1>1, <2>1, ElementOfSeq
<1> DEFINE l == Len(p)
<1>6. p \in Seq(Nat) /\ l = IF a <= b THEN b - a + 1 ELSE 0
  <2>1. \A i \in a .. b : s[i] \in Nat BY <1>5
  <2>2. a \in Int /\ b \in Int /\ a >= 1 BY <1>2, <1>3
  <2>3. SubSeq(s, a, b) \in Seq(Nat) /\ Len(SubSeq(s, a, b)) = IF a <= b THEN b - a + 1 ELSE 0
    BY <2>1, <2>2, SubSeqProperties
  <2> QED BY <1>4, <2>3
<1>7. l \in Nat BY <1>6, LenProperties
<1> HIDE DEF l
<1>8. (from = 0 => l = 0) /\ from + l <= n + 2 /\ (from < to /\ to = n + 2 => from + l = n + 1)
  <2>1. CASE from = 0
    <3>1. to = 1 /\ a >= 1 /\ b <= 0 BY <1>2, <1>3, <2>1
    <3>2. ~(a <= b) BY <1>2, <1>3, <3>1
    <3>3. l = 0 BY <1>6, <3>2
    <3> QED BY <2>1, <3>1, <3>3
  <2>2. CASE from # 0
    <3>1. a = from BY <1>2, <2>2
    <3>2. l <= to - from BY <1>3, <1>6, <3>1
    <3>3. from < to /\ to = n + 2 => from + l = n + 1
      <4>1. HAVE from < to /\ to = n + 2
      <4>2. b = n BY <1>3, <4>1
      <4> QED BY <1>6, <3>1, <4>1, <4>2
    <3> QED BY <1>7, <2>2, <3>2, <3>3
  <2> QED BY <2>1, <2>2
<1>9. l = Within(n, to) - Within(n, from)
  <2>1. CASE from = 0
    <3>1. to = 1 /\ l = 0 BY <1>8, <2>1
    <3> QED BY <2>1, <3>1 DEF Within
  <2>2. CASE from # 0
    <3>1. a = from /\ to # 0 BY <1>2, <2>2
    <3>2. CASE to - 1 <= n
      <4>1. b = to - 1 BY <1>3, <3>2
      <4>2. l = to - from BY <1>6, <3>1, <4>1
      <4> QED BY <2>2, <3>1, <3>2, <4>2 DEF Within
    <3>3. CASE ~(to - 1 <= n)
      <4>1. b = n /\ to = n + 2 BY <1>3, <3>3
      <4>2. CASE from = n + 2
        <5>1. l = 0 BY <1>6, <3>1, <4>1, <4>2
        <5>2. Within(n, to) = n /\ Within(n, from) = n BY <2>2, <3>1, <3>3, <4>1, <4>2 DEF Within
        <5> QED BY <5>1, <5>2
      <4>3. CASE from # n + 2
        <5>1. from - 1 <= n /\ l = n - from + 1 BY <1>6, <3>1, <4>1, <4>3
        <5> QED BY <2>2, <3>1, <3>3, <5>1 DEF Within
      <4> QED BY <4>2, <4>3
    <3> QED BY <3>2, <3>3
  <2> QED BY <2>1, <2>2
<1> QED BY <1>6, <1>7, <1>8, <1>9 DEF l, PayloadFits

(* Decode on a segment of the wire keeps both directions sound; hst is what*)
(* the hosts have done once it is sent.                                    *)
LEMMA CapturedKeeps ==
    ASSUME conn \in Connections, NEW hst, NEW wr, HostsOK(conn, hst, wr), NEW w \in wr,
           DirsOK(conn, hst, tcp), Decode(w.host, HeaderOf(w), PayloadOf(w))
    PROVE  DirsOK(conn, hst, tcp')
<1> DEFINE d == w.host
           e == Peer(d)
           h == HeaderOf(w)
           p == PayloadOf(w)
           all == Units(conn, d)
           sent == OnSentAll(tcp[d], h, p)
           read1 == IF HasReadableData(sent) THEN Consume(sent, Available(sent)) ELSE sent
           seen == OnReceived(tcp[e], h)
<1>1. SegmentOK(hst, w) BY DEF HostsOK
<1>2. d \in Hosts /\ e \in Hosts /\ e # d /\ Peer(e) = d BY <1>1, PeerOf DEF SegmentOK
<1>3. /\ InSpace(all) /\ conn.bytes[d] \in Nat /\ all = conn.bytes[d] + 2 /\ all \in Nat
      /\ InSpace(Units(conn, e)) /\ Units(conn, e) \in Nat
  BY <1>2, UnitsOf DEF InSpace
<1>4. /\ w.from \in Nat /\ w.to \in Nat /\ w.ack \in Nat /\ w.from <= w.to
      /\ (w.from = 0 => w.to = 1) /\ w.to <= hst[d].sent /\ w.ack <= hst[d].rcvd
  BY <1>1 DEF SegmentOK
<1>5. /\ hst[d].sent \in Nat /\ hst[d].rcvd \in Nat /\ hst[e].sent \in Nat
      /\ hst[d].sent <= all /\ hst[d].rcvd <= hst[e].sent /\ hst[e].sent <= Units(conn, e)
  BY <1>2 DEF HostsOK
<1>6. w.to <= all BY <1>3, <1>4, <1>5
<1>7. /\ h.syn = (w.from = 0) /\ h.ack = (w.ack > 0) /\ h.rst = FALSE
      /\ h.fin = (w.from < w.to /\ w.to = all)
      /\ h.seq_number = w.from /\ h.ack_number = w.ack
  BY DEF HeaderOf, AllUnits, Bytes, Units
<1>8. /\ p \in Seq(Nat) /\ Len(p) \in Nat /\ w.from + Len(p) <= all
      /\ (w.from = 0 => Len(p) = 0)
      /\ (w.from < w.to /\ w.to = all => w.from + Len(p) = all - 1)
  <2>1. p = Payload(conn.bytes[d], w.from, w.to) BY DEF PayloadOf, Bytes, Payload
  <2> DEFINE n == conn.bytes[d]
             from == w.from
             to == w.to
  <2>2. /\ n \in Nat /\ from \in Nat /\ to \in Nat /\ from <= to /\ to <= n + 2
        /\ (from = 0 => to = 1)
        /\ p = Payload(n, from, to)
        /\ all = n + 2
    BY <1>3, <1>4, <1>6, <2>1
  <2> HIDE DEF n, from, to, p, all
  <2>3. PayloadFits(p, n, from, to) BY <2>2, PayloadIs
  <2>4. n + 1 = all - 1 BY <2>2
  <2>5. /\ p \in Seq(Nat) /\ Len(p) \in Nat /\ from + Len(p) <= all
        /\ (from = 0 => Len(p) = 0) /\ (from < to /\ to = all => from + Len(p) = all - 1)
    BY <2>2, <2>3, <2>4 DEF PayloadFits
  <2> QED BY <2>5 DEF from, to
<1>9. h.fin => Sent(conn, hst, d)
  <2>1. HAVE h.fin
  <2>2. w.to = all BY <1>7, <2>1
  <2> QED BY <1>3, <1>4, <1>5, <2>2 DEF Sent
<1>10. w.ack <= Units(conn, e) /\ (w.ack = Units(conn, e) => Got(conn, hst, e))
  <2>1. w.ack <= Units(conn, e) BY <1>3, <1>4, <1>5
  <2>2. w.ack = Units(conn, e) => hst[d].rcvd = Units(conn, e) BY <1>3, <1>4, <1>5
  <2> QED BY <1>2, <2>1, <2>2 DEF Got
<1>11. /\ tcp' = [tcp EXCEPT ![d] = read1, ![e] = seen] BY DEF Decode
<1>12. DOMAIN tcp = Hosts BY DEF DirsOK
<1>13. sent = OnSentAll(tcp[d], h, p) /\ seen = OnReceived(tcp[e], h)
       /\ read1 = IF HasReadableData(sent) THEN Consume(sent, Available(sent)) ELSE sent OBVIOUS
<1> HIDE DEF d, e, h, p, all, sent, read1, seen
<1>14. DOMAIN tcp' = Hosts /\ tcp'[d] = read1 /\ tcp'[e] = seen BY <1>2, <1>11, <1>12
<1>15. SegmentOf(h, p, all, Sent(conn, hst, d))
  <2>1. h.syn \in BOOLEAN /\ h.ack \in BOOLEAN /\ h.fin \in BOOLEAN BY <1>7
  <2>2. h.syn => h.seq_number = 0 /\ Len(p) = 0 BY <1>7, <1>8
  <2>3. h.fin => Sent(conn, hst, d) /\ h.seq_number + Len(p) = all - 1 BY <1>7, <1>8, <1>9
  <2>4. h.seq_number \in Nat /\ h.seq_number + Len(p) <= all BY <1>4, <1>7, <1>8
  <2> QED BY <1>7, <1>8, <2>1, <2>2, <2>3, <2>4 DEF SegmentOf
<1>16. DirOK(read1, all, Sent(conn, hst, d), Got(conn, hst, d), Sent(conn, hst, e))
  <2>1. DirOK(tcp[d], all, Sent(conn, hst, d), Got(conn, hst, d), Sent(conn, hst, e))
    BY <1>2 DEF DirsOK, all, e
  <2>2. CASE Live(tcp[d], all, Sent(conn, hst, d), Got(conn, hst, d), Sent(conn, hst, e))
    <3>1. Live(sent, all, Sent(conn, hst, d), Got(conn, hst, d), Sent(conn, hst, e))
      BY <1>3, <1>13, <1>15, <2>2, SentKeeps
    <3>2. Live(read1, all, Sent(conn, hst, d), Got(conn, hst, d), Sent(conn, hst, e))
      BY <1>13, <3>1, ConsumeKeeps
    <3> QED BY <3>2 DEF DirOK
  <2> QED BY <2>1, <2>2 DEF DirOK
<1>17. DirOK(seen, Units(conn, e), Sent(conn, hst, e), Got(conn, hst, e), Sent(conn, hst, d))
  <2>1. DirOK(tcp[e], Units(conn, e), Sent(conn, hst, e), Got(conn, hst, e), Sent(conn, hst, d))
    BY <1>2 DEF DirsOK
  <2>2. CASE Live(tcp[e], Units(conn, e), Sent(conn, hst, e), Got(conn, hst, e), Sent(conn, hst, d))
    <3>1. PeerSegment(h, Units(conn, e), Got(conn, hst, e), Sent(conn, hst, d))
      BY <1>4, <1>7, <1>9, <1>10 DEF PeerSegment
    <3> QED BY <1>3, <1>13, <2>2, <3>1, ReceivedKeeps
  <2> QED BY <2>1, <2>2 DEF DirOK
<1>18. \A x \in Hosts : x = d \/ x = e BY <1>2 DEF Hosts
<1>19. ASSUME NEW x \in Hosts
       PROVE  DirOK(tcp'[x], Units(conn, x), Sent(conn, hst, x), Got(conn, hst, x),
                    Sent(conn, hst, Peer(x)))
  <2>1. CASE x = d BY <1>14, <1>16, <2>1 DEF e, all
  <2>2. CASE x = e BY <1>2, <1>14, <1>17, <2>2
  <2> QED BY <1>18, <2>1, <2>2
<1> QED BY <1>14, <1>19 DEF DirsOK

-----------------------------------------------------------------------------
(* The theorem                                                             *)

(* CInv holds before the first segment.                                    *)
LEMMA InitCInv == Init => CInv
<1>1. SUFFICES ASSUME Init PROVE CInv OBVIOUS
<1>2. conn \in Connections BY <1>1 DEF Init
<1>3. HostsOK(conn, host, wire)
  <2>1. /\ host \in [Hosts -> [sent : Nat, rcvd : Nat, acked : Nat]] /\ wire = {}
        /\ \A d \in Hosts : host[d].sent = 0 /\ host[d].rcvd = 0 /\ host[d].acked = 0
    BY <1>1 DEF Init
  <2>2. \A d \in Hosts : Peer(d) \in Hosts BY PeerOf
  <2>3. \A d \in Hosts : Units(conn, d) \in Nat BY <1>2, UnitsOf DEF InSpace
  <2> QED BY <2>1, <2>2, <2>3 DEF HostsOK
<1>4. ASSUME NEW d \in Hosts
      PROVE  DirOK(tcp[d], Units(conn, d), Sent(conn, host, d), Got(conn, host, d),
                   Sent(conn, host, Peer(d)))
  <2>1. tcp[d] = Fresh(TRUE) BY <1>1 DEF Init
  <2>2. Units(conn, d) \in Nat BY <1>2, UnitsOf DEF InSpace
  <2> DEFINE t == tcp[d]
  <2>3. /\ DOMAIN t = TcpFields /\ t.keep_payload = TRUE /\ t.next_seq = 0
        /\ t.out_of_order = <<>> /\ t.state = "Unknown" /\ t.fin_seen = FALSE
    BY <2>1 DEF Fresh, TcpFields
  <2> HIDE DEF t
  <2>4. t.out_of_order \in Seq(Segs(Units(conn, d))) BY <2>3
  <2>5. Live(t, Units(conn, d), Sent(conn, host, d), Got(conn, host, d), Sent(conn, host, Peer(d)))
    BY <2>2, <2>3, <2>4 DEF Live, Shape, TcpStates, Fins
  <2> QED BY <2>5 DEF DirOK, t
<1>5. DOMAIN tcp = Hosts BY <1>1 DEF Init
<1> QED BY <1>2, <1>3, <1>4, <1>5 DEF CInv, DirsOK

(* A host sends a segment.                                                 *)
LEMMA TransmitKeeps == ASSUME CInv, NEW d \in Hosts, Transmit(d) PROVE CInv'
<1>1. PICK from \in 0 .. AllUnits(d), to \in 0 .. AllUnits(d) :
         LET w == [host |-> d, from |-> from, to |-> to, ack |-> host[d].rcvd]
         IN  /\ MaySend(d, from, to)
             /\ host' = [host EXCEPT ![d].sent = Max({@, to})]
             /\ wire' = wire \cup {w}
             /\ UNCHANGED conn
             /\ IF conn.lossless THEN Captured(w) ELSE UNCHANGED <<tcp, read, before_fin>>
  BY DEF Transmit
<1> DEFINE w == [host |-> d, from |-> from, to |-> to, ack |-> host[d].rcvd]
           top == Max({host[d].sent, to})
<1>2. /\ MaySend(d, from, to) /\ wire' = wire \cup {w} /\ conn' = conn
      /\ host' = [host EXCEPT ![d].sent = top]
      /\ Captured(w) \/ tcp' = tcp
  BY <1>1
<1>w. w.host = d /\ w.from = from /\ w.to = to /\ w.ack = host[d].rcvd OBVIOUS
<1> HIDE DEF w
<1>3. /\ conn \in Connections /\ HostsOK(conn, host, wire) /\ DirsOK(conn, host, tcp) BY DEF CInv
<1>4. /\ host \in [Hosts -> [sent : Nat, rcvd : Nat, acked : Nat]]
      /\ \A x \in Hosts : /\ host[x].sent <= Units(conn, x) /\ host[x].rcvd <= host[Peer(x)].sent
                          /\ host[x].acked <= host[Peer(x)].rcvd
      /\ \A v \in wire : SegmentOK(host, v)
  BY <1>3 DEF HostsOK
<1>5. Units(conn, d) \in Nat /\ AllUnits(d) = Units(conn, d)
  BY <1>3, UnitsOf DEF AllUnits, Bytes, Units, InSpace
<1>6. from \in Nat /\ to \in Nat /\ to <= Units(conn, d) BY <1>1, <1>5
<1>7. /\ host[d].sent \in Nat /\ host[d].rcvd \in Nat /\ host[d].acked \in Nat
      /\ host[d].sent <= Units(conn, d)
  BY <1>4
<1>8. /\ top \in Nat /\ top >= to /\ top >= host[d].sent /\ top <= Units(conn, d)
  <2>1. top \in {host[d].sent, to} /\ top \in Nat /\ top >= host[d].sent /\ top >= to
    BY <1>6, <1>7, MaxOfTwo
  <2> HIDE DEF top
  <2> QED BY <1>6, <1>7, <2>1
<1> HIDE DEF top
<1>9. /\ host' \in [Hosts -> [sent : Nat, rcvd : Nat, acked : Nat]]
      /\ \A x \in Hosts : /\ host'[x].rcvd = host[x].rcvd /\ host'[x].acked = host[x].acked
                          /\ host'[x].sent = IF x = d THEN top ELSE host[x].sent
  BY <1>2, <1>4, <1>8
<1>10. \A x \in Hosts : host'[x].sent >= host[x].sent /\ host'[x].rcvd >= host[x].rcvd
  <2>1. \A x \in Hosts : host[x].sent \in Nat /\ host[x].rcvd \in Nat BY <1>4
  <2> QED BY <1>8, <1>9, <2>1
<1>11. from <= to /\ (from = 0 => to = 1)
  <2>1. CASE from = 0 /\ to = 1 BY <2>1
  <2>2. CASE Connected(d) /\ from \in {host[d].sent, host[d].acked} /\ from <= to
    <3>1. Peer(d) \in Hosts /\ Peer(Peer(d)) = d BY PeerOf
    <3>2. host[d].acked > 0 /\ host[d].acked <= host[Peer(d)].rcvd
          /\ host[Peer(d)].rcvd <= host[d].sent /\ host[Peer(d)].rcvd \in Nat
      BY <1>4, <2>2, <3>1 DEF Connected
    <3>3. from # 0 BY <1>7, <2>2, <3>2
    <3> QED BY <2>2, <3>3
  <2> QED BY <1>2, <2>1, <2>2 DEF MaySend
<1>12. HostsOK(conn, host', wire')
  <2>1. ASSUME NEW x \in Hosts
        PROVE  /\ host'[x].sent <= Units(conn, x) /\ host'[x].rcvd <= host'[Peer(x)].sent
               /\ host'[x].acked <= host'[Peer(x)].rcvd
    <3>1. Peer(x) \in Hosts BY PeerOf
    <3>2. host'[x].sent <= Units(conn, x) BY <1>4, <1>8, <1>9
    <3>3. host'[x].rcvd <= host'[Peer(x)].sent
      <4>1. /\ host[x].rcvd \in Nat /\ host[Peer(x)].sent \in Nat /\ host'[Peer(x)].sent \in Nat
            /\ host[x].rcvd <= host[Peer(x)].sent BY <1>4, <1>9, <3>1
      <4>2. host'[Peer(x)].sent >= host[Peer(x)].sent /\ host'[x].rcvd = host[x].rcvd
        BY <1>9, <1>10, <3>1
      <4> QED BY <4>1, <4>2
    <3>4. host'[x].acked <= host'[Peer(x)].rcvd BY <1>4, <1>9, <3>1
    <3> QED BY <3>2, <3>3, <3>4
  <2>2. ASSUME NEW v \in wire' PROVE SegmentOK(host', v)
    <3>1. CASE v = w
      <4>1. host'[d].sent = top /\ host'[d].rcvd = host[d].rcvd BY <1>9
      <4> QED BY <1>6, <1>7, <1>8, <1>11, <1>w, <3>1, <4>1 DEF SegmentOK
    <3>2. CASE v \in wire
      <4>1. SegmentOK(host, v) BY <1>4, <3>2
      <4>2. v.host \in Hosts BY <4>1 DEF SegmentOK
      <4>3. /\ host'[v.host].sent >= host[v.host].sent /\ host'[v.host].rcvd = host[v.host].rcvd
            /\ host[v.host].sent \in Nat /\ host'[v.host].sent \in Nat
        BY <1>4, <1>9, <1>10, <4>2
      <4>4. v.to <= host'[v.host].sent BY <4>1, <4>3 DEF SegmentOK
      <4> QED BY <4>1, <4>3, <4>4 DEF SegmentOK
    <3> QED BY <1>2, <2>2, <3>1, <3>2
  <2> QED BY <1>9, <2>1, <2>2 DEF HostsOK
<1>13. DirsOK(conn, host', tcp) BY <1>3, <1>10, <1>12, DirsGrow
<1>14. DirsOK(conn, host', tcp')
  <2>1. CASE Captured(w)
    <3>1. w \in wire' BY <1>2
    <3>2. Decode(w.host, HeaderOf(w), PayloadOf(w)) BY <2>1 DEF Captured
    <3> QED BY <1>3, <1>12, <1>13, <3>1, <3>2, CapturedKeeps
  <2>2. CASE tcp' = tcp BY <1>13, <2>2
  <2> QED BY <1>2, <2>1, <2>2
<1> QED BY <1>2, <1>3, <1>12, <1>14 DEF CInv

(* A host gets a segment.                                                  *)
LEMMA DeliverKeeps == ASSUME CInv, NEW d \in Hosts, Deliver(d) PROVE CInv'
<1>1. PICK w \in wire :
        /\ w.host = Peer(d)
        /\ host' = [host EXCEPT ![d].rcvd = Max({@, w.to}), ![d].acked = Max({@, w.ack})]
        /\ UNCHANGED <<conn, wire, tcp, read, before_fin>>
  BY DEF Deliver
<1> DEFINE r == Max({host[d].rcvd, w.to})
           a == Max({host[d].acked, w.ack})
           e == Peer(d)
<1>3. /\ conn \in Connections /\ HostsOK(conn, host, wire) /\ DirsOK(conn, host, tcp) BY DEF CInv
<1>4. /\ host \in [Hosts -> [sent : Nat, rcvd : Nat, acked : Nat]]
      /\ \A x \in Hosts : /\ host[x].sent <= Units(conn, x) /\ host[x].rcvd <= host[Peer(x)].sent
                          /\ host[x].acked <= host[Peer(x)].rcvd
      /\ \A v \in wire : SegmentOK(host, v)
  BY <1>3 DEF HostsOK
<1> DEFINE one == [host EXCEPT ![d].rcvd = r]
<1>2. host' = [one EXCEPT ![d].acked = a] /\ conn' = conn /\ wire' = wire /\ tcp' = tcp
  BY <1>1, <1>4
<1>5. e \in Hosts /\ Peer(e) = d /\ e # d BY PeerOf
<1>6. /\ w.to \in Nat /\ w.ack \in Nat /\ w.to <= host[e].sent /\ w.ack <= host[e].rcvd
  BY <1>1, <1>4 DEF SegmentOK
<1>7. /\ host[d].rcvd \in Nat /\ host[d].acked \in Nat /\ host[d].sent \in Nat
      /\ host[e].rcvd \in Nat /\ host[e].acked \in Nat /\ host[e].sent \in Nat
      /\ host[d].rcvd <= host[e].sent /\ host[d].acked <= host[e].rcvd
  BY <1>4, <1>5
<1>8. /\ r \in Nat /\ r >= host[d].rcvd /\ r <= host[e].sent
      /\ a \in Nat /\ a <= host[e].rcvd
  <2>1. r \in {host[d].rcvd, w.to} /\ r \in Nat /\ r >= host[d].rcvd
    BY <1>6, <1>7, MaxOfTwo
  <2>2. a \in {host[d].acked, w.ack} /\ a \in Nat BY <1>6, <1>7, MaxOfTwo
  <2> HIDE DEF r, a
  <2> QED BY <1>6, <1>7, <2>1, <2>2
<1> HIDE DEF r, a
<1>9. /\ host' \in [Hosts -> [sent : Nat, rcvd : Nat, acked : Nat]]
      /\ \A x \in Hosts : /\ host'[x].sent = host[x].sent
                          /\ host'[x].rcvd = IF x = d THEN r ELSE host[x].rcvd
                          /\ host'[x].acked = IF x = d THEN a ELSE host[x].acked
  <2>1. /\ one \in [Hosts -> [sent : Nat, rcvd : Nat, acked : Nat]]
        /\ \A x \in Hosts : /\ one[x].sent = host[x].sent /\ one[x].acked = host[x].acked
                            /\ one[x].rcvd = IF x = d THEN r ELSE host[x].rcvd
    BY <1>4, <1>8
  <2> HIDE DEF one
  <2> QED BY <1>2, <1>8, <2>1
<1>10. \A x \in Hosts : host'[x].sent >= host[x].sent /\ host'[x].rcvd >= host[x].rcvd
  <2>1. \A x \in Hosts : host[x].sent \in Nat /\ host[x].rcvd \in Nat BY <1>4
  <2> QED BY <1>8, <1>9, <2>1
<1> HIDE DEF e
<1>11. HostsOK(conn, host', wire')
  <2>1. ASSUME NEW x \in Hosts
        PROVE  /\ host'[x].sent <= Units(conn, x) /\ host'[x].rcvd <= host'[Peer(x)].sent
               /\ host'[x].acked <= host'[Peer(x)].rcvd
    <3>1. Peer(x) \in Hosts BY PeerOf
    <3>2. host'[x].sent <= Units(conn, x) BY <1>4, <1>9
    <3>3. CASE x = d
      <4>1. Peer(x) = e BY <3>3 DEF e
      <4> QED BY <1>5, <1>8, <1>9, <3>2, <3>3, <4>1
    <3>4. CASE x # d
      <4>1. Peer(x) = d BY <3>4 DEF Hosts, Peer
      <4>2. /\ host[x].rcvd <= host[d].sent /\ host[x].acked <= host[d].rcvd
            /\ host[x].acked \in Nat BY <1>4, <4>1
      <4>3. host'[d].sent = host[d].sent /\ host'[d].rcvd = r
            /\ host'[x].rcvd = host[x].rcvd /\ host'[x].acked = host[x].acked
        BY <1>9, <3>4
      <4>4. host'[x].acked <= host'[d].rcvd BY <1>7, <1>8, <4>2, <4>3
      <4> QED BY <3>2, <4>1, <4>2, <4>3, <4>4
    <3> QED BY <3>3, <3>4
  <2>2. ASSUME NEW v \in wire' PROVE SegmentOK(host', v)
    <3>1. SegmentOK(host, v) BY <1>2, <1>4, <2>2
    <3>2. v.host \in Hosts BY <3>1 DEF SegmentOK
    <3>3. /\ host'[v.host].sent = host[v.host].sent /\ host'[v.host].rcvd >= host[v.host].rcvd
          /\ host[v.host].rcvd \in Nat /\ host'[v.host].rcvd \in Nat
      BY <1>4, <1>9, <1>10, <3>2
    <3>4. v.ack <= host'[v.host].rcvd BY <3>1, <3>3 DEF SegmentOK
    <3> QED BY <3>1, <3>3, <3>4 DEF SegmentOK
  <2> QED BY <1>9, <2>1, <2>2 DEF HostsOK
<1>12. DirsOK(conn, host', tcp) BY <1>3, <1>10, <1>11, DirsGrow
<1> QED BY <1>2, <1>3, <1>11, <1>12 DEF CInv

(* Every step keeps CInv.                                                  *)
LEMMA StepCInv == CInv /\ [Next]_vars => CInv'
<1>1. SUFFICES ASSUME CInv, [Next]_vars PROVE CInv' OBVIOUS
<1>2. CASE Capture
  <2>1. PICK w \in wire : Captured(w) BY <1>2 DEF Capture
  <2>2. conn' = conn /\ host' = host /\ wire' = wire BY <1>2 DEF Capture
  <2>3. conn \in Connections /\ HostsOK(conn, host, wire) /\ DirsOK(conn, host, tcp) BY <1>1 DEF CInv
  <2>4. Decode(w.host, HeaderOf(w), PayloadOf(w)) BY <2>1 DEF Captured
  <2>5. DirsOK(conn, host, tcp') BY <2>3, <2>4, CapturedKeeps
  <2> QED BY <2>2, <2>3, <2>5 DEF CInv
<1>3. ASSUME NEW d \in Hosts, Transmit(d) PROVE CInv' BY <1>1, <1>3, TransmitKeeps
<1>4. ASSUME NEW d \in Hosts, Deliver(d) PROVE CInv' BY <1>1, <1>4, DeliverKeeps
<1>5. CASE UNCHANGED vars BY <1>1, <1>5 DEF CInv, vars
<1> QED BY <1>1, <1>2, <1>3, <1>4, <1>5 DEF Next

(* For every connection, every length of its two streams, every loss,      *)
(* repetition and reordering of the capture: a direction is tracked as     *)
(* closing only when its host has sent a FIN, as acknowledged only when the*)
(* peer has received it, and as passively closing or closed only when the  *)
(* peer has sent one (onSent and onReceived of TcpReassembler).            *)
THEOREM StateIsSound == Spec => []StateSound
<1>1. CInv => StateSound
  <2>1. SUFFICES ASSUME CInv, NEW d \in Hosts
        PROVE /\ tcp[d].state \in {"FinWait1", "FinWait2", "Closing", "LastAck", "TimeWait", "Closed"}
                   => FinSent(d)
              /\ tcp[d].state \in {"FinWait2", "TimeWait", "Closed"} => FinReceived(d)
              /\ tcp[d].state \in {"CloseWait", "Closing", "LastAck", "TimeWait", "Closed"}
                   => FinSent(Peer(d))
    BY DEF StateSound
  <2>2. DirOK(tcp[d], Units(conn, d), Sent(conn, host, d), Got(conn, host, d),
              Sent(conn, host, Peer(d)))
    BY <2>1 DEF CInv, DirsOK
  <2>3. /\ Sent(conn, host, d) = FinSent(d) /\ Got(conn, host, d) = FinReceived(d)
        /\ Sent(conn, host, Peer(d)) = FinSent(Peer(d))
    BY DEF Sent, Got, Units, FinSent, FinReceived, AllUnits, Bytes
  <2>4. CASE FinSent(d) /\ FinReceived(d) /\ FinSent(Peer(d)) BY <2>4
  <2>5. CASE Live(tcp[d], Units(conn, d), FinSent(d), FinReceived(d), FinSent(Peer(d)))
    <3>1. tcp[d].state # "Closed" BY <2>5 DEF Live
    <3> QED BY <2>5, <3>1 DEF Live, Fins
  <2> QED BY <2>2, <2>3, <2>4, <2>5 DEF DirOK
<1> QED BY <1>1, InitCInv, StepCInv, PTL DEF Spec

-----------------------------------------------------------------------------

-----------------------------------------------------------------------------
(* A capture that shows each segment once, as it is sent                   *)

(* A struct that buffers nothing.                                          *)
Plain(t) == /\ DOMAIN t = TcpFields /\ t.keep_payload = TRUE
            /\ t.out_of_order = <<>> /\ t.assembled \in Seq(Nat)

(* The struct of a direction that is level with its host: all it has sent  *)
(* was assembled, and what the application decoder has not got is there.   *)
Level(t, n, sent, got) ==
    /\ Plain(t) /\ t.fin_seen = FALSE
    /\ t.next_seq = sent
    /\ sent = 0 => t.seeded = FALSE
    /\ sent > 0 => t.seeded = TRUE
    /\ t.read_pos \in Nat /\ t.read_pos <= Len(t.assembled)
    /\ got + Len(t.assembled) - t.read_pos = Within(n, sent)

(* Its state, given whether its host has sent its FIN, the peer has sent   *)
(* one, and the peer has acknowledged its host's.                          *)
StatesAt(sf, pf, af) ==
    IF ~sf THEN IF pf THEN {"CloseWait"} ELSE {"Established"}
    ELSE IF ~pf THEN IF af THEN {"FinWait2"} ELSE {"FinWait1"}
    ELSE IF af THEN {"TimeWait", "Closed"} ELSE {"Closing", "LastAck"}

(* The struct u is t with k bytes more at the end of the stream.           *)
Took(u, t, k) == /\ Plain(u) /\ SameRest(u, t) /\ u.read_pos = t.read_pos
                 /\ Len(u.assembled) = Len(t.assembled) + k
                 /\ u.next_seq = t.next_seq + k

(* The bytes go to the end of the stream, and there is nothing to drain.   *)
LEMMA IngestNext ==
    ASSUME NEW t, Plain(t), NEW span \in Seq(Nat), NEW at \in Nat, t.next_seq = at,
           at + Len(span) < SeqSpace, NEW u, u = IngestAll(t, at, span)
    PROVE  Took(u, t, Len(span))
<1> USE DEF Plain
<1>1. Drains(t, at, span) BY DEF Drains
<1> DEFINE v == Ingest(t, at, span)
           l == Len(span)
<1>2. l \in Nat /\ SeqSpace \in Nat BY LenProperties, Half
<1>3. U32(t.next_seq - at) = 0
  <2>1. at - at = 0 /\ 0 \in 0 .. SeqSpace - 1 BY <1>2, Half
  <2>2. U32(0) = 0 BY <2>1, U32Small
  <2> QED BY <2>1, <2>2
<1>4. v = Assemble(t, span, 0) BY <1>1, <1>3 DEF Ingest
<1>5. SubSeq(span, 0 + 1, Len(span)) = span BY <1>2
<1>6. U32(t.next_seq + Len(span) - 0) = at + l
  <2>1. at + l \in 0 .. SeqSpace - 1 /\ at + l - 0 = at + l BY <1>2
  <2>2. U32(at + l) = at + l BY <2>1, U32Small
  <2> QED BY <2>1, <2>2
<1>7. v = [t EXCEPT !.assembled = t.assembled \o span, !.next_seq = at + l]
  <2>1. v = [t EXCEPT !.assembled = @ \o SubSeq(span, 0 + 1, Len(span)),
                      !.next_seq  = U32(@ + Len(span) - 0)]
    BY <1>4 DEF Assemble
  <2> HIDE DEF v, l
  <2> QED BY <1>5, <1>6, <2>1
<1>8. t.assembled \o span \in Seq(Nat) /\ Len(t.assembled \o span) = Len(t.assembled) + l
  BY ConcatProperties
<1> DEFINE a == t.assembled \o span
<1> HIDE DEF v, a, l
<1>9. /\ DOMAIN v = TcpFields /\ v.keep_payload = TRUE /\ v.out_of_order = <<>>
      /\ SameRest(v, t) /\ v.read_pos = t.read_pos /\ v.assembled = a /\ v.next_seq = at + l
  <2>1. v = [t EXCEPT !.assembled = a, !.next_seq = at + l] BY <1>7 DEF a
  <2> QED BY <2>1 DEF TcpFields, SameRest
<1>10. u = DrainAll(v)
  <2>1. u = DrainAll(Ingest(t, at, span)) BY <1>1 DEF IngestAll
  <2> QED BY <2>1 DEF v
<1>11. u = [v EXCEPT !.out_of_order = <<>>]
  <2>1. Len(v.out_of_order) = 0 BY <1>9
  <2>2. Runs(v, 0, DrainRun(v))
    <3>1. Len(v.out_of_order) \in Nat BY <2>1
    <3>2. Runs(v, Len(v.out_of_order), DrainRun(v)) BY <3>1, DrainRunIs, Zenon
    <3> QED BY <2>1, <3>2
  <2>3. DrainRun(v)[0] = [tcp |-> v, len |-> 0]
    <3> DEFINE g == DrainRun(v)
    <3>1. g = [k \in 0 .. 0 |-> IF k = 0 THEN [tcp |-> v, len |-> 0] ELSE DrainTurn(g[k - 1], k)]
      BY <2>2 DEF Runs
    <3> HIDE DEF g
    <3>2. g[0] = [tcp |-> v, len |-> 0] BY <3>1
    <3> QED BY <3>2 DEF g
  <2>4. u = DrainErase(v, 0) BY <1>10, <2>1, <2>3 DEF DrainAll
  <2>5. SubSeq(v.out_of_order, 0 + 1, Len(v.out_of_order)) = <<>> BY <1>9
  <2> QED BY <2>4, <2>5 DEF DrainErase
<1>12. /\ DOMAIN u = TcpFields /\ u.keep_payload = TRUE /\ u.out_of_order = <<>>
       /\ SameRest(u, v) /\ u.read_pos = v.read_pos /\ u.assembled = v.assembled
       /\ u.next_seq = v.next_seq
  BY <1>9, <1>11 DEF TcpFields, SameRest
<1> QED BY <1>8, <1>9, <1>12 DEF Took, SameRest, a, l

(* The SYN of a host, and the struct it leaves.                            *)
SynSegment(h, span) == /\ h.rst = FALSE /\ h.syn = TRUE /\ h.ack \in BOOLEAN /\ h.seq_number = 0
                       /\ span \in Seq(Nat) /\ Len(span) = 0

SynTaken(u, h, n, got) ==
    Level(u, n, 1, got) /\ u.state = (IF h.ack THEN "SynReceived" ELSE "SynSent")

(* A SYN that is seen when it is sent opens its direction.                 *)
LEMMA SynSentLevel ==
    ASSUME NEW n \in Nat, NEW t, NEW got \in Nat, Level(t, n, 0, got),
           NEW h, NEW span, SynSegment(h, span), NEW u, u = OnSentAll(t, h, span)
    PROVE  SynTaken(u, h, n, got)
<1> USE DEF SynSegment, SynTaken
<1> DEFINE st == IF h.ack THEN "SynReceived" ELSE "SynSent"
           v == [t EXCEPT !.next_seq = 1, !.state = st, !.seeded = TRUE]
<1>1. U32(h.seq_number + 1) = 1
  <2>1. 1 \in 0 .. SeqSpace - 1 BY Half
  <2> QED BY <2>1, U32Small
<1>2. ~t.seeded BY DEF Level
<1>3. OnSent(t, h) = [tcp |-> v, call |-> "ingest", seq |-> 1]
  <2> HIDE DEF st
  <2>1. OnSent(t, h) = [tcp  |-> [t EXCEPT !.next_seq = U32(h.seq_number + 1), !.state = st, !.seeded = TRUE],
                        call |-> "ingest", seq |-> U32(h.seq_number + 1)]
    BY <1>2 DEF OnSent, st
  <2> QED BY <1>1, <2>1
<1>4. u = IngestAll(v, 1, span)
  <2> HIDE DEF v
  <2> QED BY <1>3 DEF OnSentAll, IngestAll
<1> HIDE DEF st
<1>5. /\ Plain(v) /\ v.assembled = t.assembled /\ v.next_seq = 1 /\ v.state = st /\ v.seeded = TRUE
      /\ v.read_pos = t.read_pos /\ v.fin_seen = FALSE
  BY DEF Level, Plain, TcpFields
<1> HIDE DEF v
<1>6. t.assembled \in Seq(Nat) /\ span \in Seq(Nat) /\ Len(span) = 0 /\ 1 + Len(span) < SeqSpace
  <2>1. SeqSpace > 1 /\ SeqSpace \in Nat BY Half
  <2> QED BY <2>1 DEF Level, Plain
<1>7. Took(u, v, Len(span))
  <2> DEFINE at == 1
  <2>1. at \in Nat /\ at + Len(span) < SeqSpace /\ v.next_seq = at /\ u = IngestAll(v, at, span)
    BY <1>4, <1>5, <1>6
  <2> HIDE DEF at
  <2> QED BY <1>5, <2>1, IngestNext
<1>8. u.next_seq = 1 /\ Len(u.assembled) = Len(t.assembled) BY <1>5, <1>6, <1>7, LenProperties DEF Took
<1>9. Within(n, 1) = 0 /\ Within(n, 0) = 0 BY DEF Within
<1>10. u.state = st /\ u.seeded = TRUE /\ u.fin_seen = FALSE /\ u.read_pos = t.read_pos
  BY <1>5, <1>7 DEF Took, SameRest
<1>11. Level(u, n, 1, got)
  <2>1. t.read_pos \in Nat /\ t.read_pos <= Len(t.assembled) /\ got + Len(t.assembled) - t.read_pos = 0
    BY <1>9 DEF Level
  <2> QED BY <1>7, <1>8, <1>9, <1>10, <2>1 DEF Level, Took
<1> QED BY <1>10, <1>11 DEF st

(* A segment of an open direction, in order: units from .. to-1.           *)
DataSegment(h, span, n, from, to) ==
    /\ h.rst = FALSE /\ h.syn = FALSE /\ h.ack = TRUE /\ h.seq_number = from
    /\ h.fin = (IF from < to /\ to = n + 2 THEN TRUE ELSE FALSE)
    /\ span \in Seq(Nat) /\ Len(span) = Within(n, to) - Within(n, from)
    /\ from \in Nat /\ to \in Nat /\ from > 0 /\ from <= to /\ to <= n + 2

(* Where it ends.                                                          *)
LEMMA DataEnds ==
    ASSUME NEW n \in Nat, NEW h, NEW span, NEW from, NEW to, DataSegment(h, span, n, from, to)
    PROVE  from + Len(span) = (IF h.fin THEN to - 1 ELSE to) /\ Len(span) \in Nat
<1>1. Len(span) \in Nat BY LenProperties DEF DataSegment
<1>2. CASE h.fin
  <2>1. from < to /\ to = n + 2 BY <1>2 DEF DataSegment
  <2> QED BY <1>1, <1>2, <2>1 DEF DataSegment, Within
<1>3. CASE ~h.fin
  <2>1. from = to \/ to <= n + 1 BY <1>3 DEF DataSegment
  <2> QED BY <1>1, <1>3, <2>1 DEF DataSegment, Within
<1> QED BY <1>2, <1>3

(* The state after it.                                                     *)
AfterData(st, fin) == IF fin THEN IF st = "CloseWait" THEN "LastAck" ELSE "FinWait1"
                      ELSE IF st = "SynSent" THEN "Established" ELSE st

(* A segment that is seen when it is sent brings its direction up to what  *)
(* was sent.                                                               *)
LEMMA DataSentLevel ==
    ASSUME NEW n \in Nat, InSpace(n + 2), NEW t, NEW got \in Nat, NEW h, NEW span,
           NEW from, NEW to, DataSegment(h, span, n, from, to), Level(t, n, from, got),
           t.state \in {"SynSent", "Established", "CloseWait"},
           NEW u, u = OnSentAll(t, h, span)
    PROVE  Level(u, n, to, got) /\ u.state = AfterData(t.state, h.fin)
<1> DEFINE v == IF t.state = "SynSent" THEN [t EXCEPT !.state = "Established"] ELSE t
           k == Len(span)
           m == from + k
           w == IngestAll(v, from, span)
<1>1. /\ h.rst = FALSE /\ h.syn = FALSE /\ h.ack = TRUE /\ h.seq_number = from /\ h.fin \in BOOLEAN
      /\ span \in Seq(Nat) /\ from \in Nat /\ from > 0 /\ to \in Nat /\ from <= to /\ to <= n + 2
  BY DEF DataSegment
<1>2. m = (IF h.fin THEN to - 1 ELSE to) /\ k \in Nat /\ m \in Nat
  <2>1. m = (IF h.fin THEN to - 1 ELSE to) /\ k \in Nat BY DataEnds
  <2> QED BY <1>1, <2>1
<1>3. t.seeded = TRUE /\ t.fin_seen = FALSE /\ Plain(t) /\ t.next_seq = from BY <1>1 DEF Level
<1>4. /\ Plain(v) /\ v.assembled = t.assembled /\ v.next_seq = from /\ v.seeded = TRUE
      /\ v.read_pos = t.read_pos /\ v.fin_seen = FALSE
      /\ v.state = IF t.state = "SynSent" THEN "Established" ELSE t.state
  BY <1>3 DEF Plain, TcpFields
<1>5. OnSent(t, h) = [tcp |-> v, call |-> "onData", seq |-> from] BY <1>1, <1>3 DEF OnSent
<1>6. u = OnDataFin(w, h.fin, U32(m))
  <2> HIDE DEF v
  <2> QED BY <1>1, <1>5 DEF OnSentAll, IngestAll
<1>7. m < SeqSpace \div 2 /\ SeqSpace \div 2 < SeqSpace /\ SeqSpace \div 2 \in Nat /\ SeqSpace \in Nat
  <2>1. SeqSpace = 2 * (SeqSpace \div 2) /\ SeqSpace \div 2 \in Nat /\ SeqSpace > 1 BY Half
  <2>2. n + 2 < SeqSpace \div 2 BY DEF InSpace
  <2> HIDE DEF m
  <2> QED BY <1>1, <1>2, <2>1, <2>2
<1> HIDE DEF v
<1>8. Took(w, v, k)
  <2> DEFINE z == w
  <2>1. z = IngestAll(v, from, span) /\ from + Len(span) < SeqSpace BY <1>2, <1>7
  <2> HIDE DEF z
  <2>2. Took(z, v, Len(span)) BY <1>1, <1>4, <2>1, IngestNext
  <2> QED BY <2>2 DEF z
<1> HIDE DEF w
<1>9. /\ Plain(w) /\ w.next_seq = m /\ w.state = v.state /\ w.seeded = TRUE /\ w.fin_seen = FALSE
      /\ w.read_pos = t.read_pos /\ Len(w.assembled) = Len(t.assembled) + k
  BY <1>4, <1>8 DEF Took, SameRest
<1> HIDE DEF k, m
<1>10. U32(m) = m /\ U32(m + 1) = m + 1
  <2>1. m \in 0 .. SeqSpace - 1 /\ m + 1 \in 0 .. SeqSpace - 1 BY <1>2, <1>7
  <2> QED BY <2>1, U32Small
<1>11. SeqDiff(w.next_seq, U32(m)) = 0
  <2>1. SeqDiff(m, m) = m - m BY <1>2, <1>7, SeqDiffIs
  <2> QED BY <1>2, <1>9, <1>10, <2>1
<1>12. /\ got + Len(t.assembled) - t.read_pos = Within(n, from) /\ t.read_pos \in Nat
       /\ t.read_pos <= Len(t.assembled) /\ Len(t.assembled) \in Nat
  <2>1. t.assembled \in Seq(Nat) BY <1>3 DEF Plain
  <2> QED BY <2>1, LenProperties DEF Level
<1>13. got + (Len(t.assembled) + k) - t.read_pos = Within(n, to)
  <2>1. k = Within(n, to) - Within(n, from) BY DEF DataSegment, k
  <2>2. Within(n, to) \in Nat /\ Within(n, from) \in Nat BY <1>1 DEF Within
  <2> DEFINE x == Within(n, to)
             y == Within(n, from)
             l == Len(t.assembled)
             r == t.read_pos
  <2>3. /\ x \in Nat /\ y \in Nat /\ l \in Nat /\ r \in Nat /\ k \in Nat /\ got \in Nat
        /\ k = x - y /\ got + l - r = y
    BY <1>2, <1>12, <2>1, <2>2
  <2> HIDE DEF x, y, l, r
  <2>4. got + (l + k) - r = x BY <2>3
  <2> QED BY <2>4 DEF x, l, r
<1>14. /\ Plain(u) /\ u.next_seq = to /\ u.state = AfterData(t.state, h.fin) /\ u.seeded = TRUE
       /\ u.fin_seen = FALSE /\ u.read_pos = w.read_pos /\ u.assembled = w.assembled
  <2>1. CASE h.fin
    <3>1. u = [w EXCEPT !.fin_seen = FALSE, !.fin_seq = m, !.next_seq = m + 1,
                        !.state = IF @ = "CloseWait" THEN "LastAck" ELSE "FinWait1"]
      <4> DEFINE z == U32(m)
      <4>1. SeqDiff(w.next_seq, z) >= 0 BY <1>11
      <4>2. u = OnDataFin(w, h.fin, z) BY <1>6
      <4> HIDE DEF z
      <4>3. u = [w EXCEPT !.fin_seen = FALSE, !.fin_seq = z, !.next_seq = U32(w.next_seq + 1),
                          !.state = IF @ = "CloseWait" THEN "LastAck" ELSE "FinWait1"]
        BY <2>1, <4>1, <4>2 DEF OnDataFin
      <4>4. z = m /\ U32(w.next_seq + 1) = m + 1 BY <1>9, <1>10 DEF z
      <4> QED BY <4>3, <4>4
    <3>2. m + 1 = to BY <1>1, <1>2, <2>1
    <3> DEFINE s == IF w.state = "CloseWait" THEN "LastAck" ELSE "FinWait1"
    <3>3. u = [w EXCEPT !.fin_seen = FALSE, !.fin_seq = m, !.next_seq = to, !.state = s] BY <3>1, <3>2
    <3>4. s = AfterData(t.state, h.fin) BY <1>4, <1>9, <2>1 DEF AfterData
    <3> HIDE DEF s
    <3> QED BY <1>9, <3>3, <3>4 DEF Plain, TcpFields
  <2>2. CASE ~h.fin
    <3>1. u = [w EXCEPT !.fin_seen = FALSE, !.fin_seq = w.fin_seq] BY <1>6, <1>9, <2>2 DEF OnDataFin
    <3>2. m = to BY <1>2, <2>2
    <3>3. w.state = AfterData(t.state, h.fin) BY <1>4, <1>9, <2>2 DEF AfterData
    <3> QED BY <1>9, <3>1, <3>2, <3>3 DEF Plain, TcpFields
  <2> QED BY <1>1, <2>1, <2>2
<1>15. Level(u, n, to, got)
  <2>1. u.read_pos = t.read_pos /\ Len(u.assembled) = Len(t.assembled) + k BY <1>9, <1>14
  <2>2. to > 0 /\ to # 0 BY <1>1
  <2>3. u.read_pos <= Len(u.assembled) BY <1>2, <1>12, <2>1
  <2>4. got + Len(u.assembled) - u.read_pos = Within(n, to) BY <1>13, <2>1
  <2> QED BY <1>12, <1>14, <2>1, <2>2, <2>3, <2>4 DEF Level
<1> QED BY <1>14, <1>15

(* A segment that changes nothing: the host has sent its FIN.              *)
LEMMA ClosedSends ==
    ASSUME NEW t, NEW h, h.rst = FALSE, t.seeded = TRUE, NEW span,
           t.state \in Fins \cup {"Closed"}, NEW u, u = OnSentAll(t, h, span)
    PROVE  u = t
<1>1. t.state \notin {"SynSent", "Established", "CloseWait"} BY DEF Fins
<1>2. OnSent(t, h) = [tcp |-> t, call |-> "none", seq |-> 0] BY <1>1 DEF OnSent
<1> QED BY <1>2 DEF OnSentAll

(* A segment of the direction, once the connection is open.                *)
LEMMA OwnSegment ==
    ASSUME NEW n \in Nat, InSpace(n + 2), NEW t, NEW got \in Nat, NEW h, NEW span,
           NEW from, NEW to, DataSegment(h, span, n, from, to), Level(t, n, from, got),
           NEW pf \in BOOLEAN, NEW af \in BOOLEAN, af => from = n + 2,
           t.state \in StatesAt(from = n + 2, pf, af),
           NEW u, u = OnSentAll(t, h, span)
    PROVE  Level(u, n, to, got) /\ u.state \in StatesAt(to = n + 2, pf, af)
<1>1. /\ from \in Nat /\ to \in Nat /\ from <= to /\ to <= n + 2 /\ from > 0
      /\ h.fin = (IF from < to /\ to = n + 2 THEN TRUE ELSE FALSE) /\ h.rst = FALSE
  BY DEF DataSegment
<1>2. CASE from = n + 2
  <2>1. to = from BY <1>1, <1>2
  <2>2. t.state \in Fins \cup {"Closed"} BY <1>2 DEF StatesAt, Fins
  <2>3. t.seeded = TRUE BY <1>1 DEF Level
  <2>4. u = t BY <1>1, <2>2, <2>3, ClosedSends
  <2> QED BY <2>1, <2>4
<1>3. CASE from # n + 2
  <2>1. ~af /\ t.state \in (IF pf THEN {"CloseWait"} ELSE {"Established"}) BY <1>3 DEF StatesAt
  <2>2. t.state \in {"SynSent", "Established", "CloseWait"} BY <2>1
  <2>3. Level(u, n, to, got) /\ u.state = AfterData(t.state, h.fin) BY <2>2, DataSentLevel
  <2>4. h.fin <=> to = n + 2 BY <1>1, <1>3
  <2>5. u.state \in StatesAt(to = n + 2, pf, af) BY <2>1, <2>3, <2>4 DEF StatesAt, AfterData
  <2> QED BY <2>3, <2>5
<1> QED BY <1>2, <1>3

(* The poll that follows.                                                  *)
LEMMA PollLevel ==
    ASSUME NEW n \in Nat, NEW to \in Nat, NEW u, NEW got \in Nat, Level(u, n, to, got),
           NEW r, r = IF HasReadableData(u) THEN Consume(u, Available(u)) ELSE u,
           NEW all, all = IF HasReadableData(u) THEN got + Available(u) ELSE got
    PROVE  /\ Level(r, n, to, all) /\ r.state = u.state /\ all \in Nat /\ all >= got
           /\ Peek(u) \in Seq(Nat) /\ Len(Peek(u)) = Available(u)
           /\ HasReadableData(u) => all = Within(n, to)
<1> DEFINE l == Len(u.assembled)
           k == l - u.read_pos
<1>1. /\ u.assembled \in Seq(Nat) /\ u.read_pos \in Nat /\ u.read_pos <= l /\ DOMAIN u = TcpFields
      /\ got + l - u.read_pos = Within(n, to)
  BY DEF Level, Plain
<1>2. l \in Nat BY <1>1, LenProperties
<1>3. k \in Nat /\ Available(u) = k BY <1>1, <1>2 DEF Available
<1>4. Peek(u) \in Seq(Nat) /\ Len(Peek(u)) = k
  <2> DEFINE a == u.read_pos + 1
  <2>1. a \in 1 .. l + 1 /\ a \in Int /\ l \in Int BY <1>1, <1>2
  <2>2. \A i \in a .. l : u.assembled[i] \in Nat
    <3> TAKE i \in a .. l
    <3>1. i \in 1 .. Len(u.assembled) BY <1>1, <1>2
    <3> QED BY <1>1, <3>1, ElementOfSeq
  <2> DEFINE s == u.assembled
             p == SubSeq(s, a, l)
  <2>3. a \in Int /\ l \in Int /\ \A i \in a .. l : s[i] \in Nat BY <2>1, <2>2
  <2>4. a >= 1 BY <2>1
  <2>5. a <= l => l - a + 1 = k BY <1>1, <1>2
  <2>6. ~(a <= l) => k = 0 BY <1>1, <1>2
  <2>7. Peek(u) = p BY DEF Peek
  <2> HIDE DEF a, s, l, k
  <2>8. p \in Seq(Nat) /\ Len(p) = IF a <= l THEN l - a + 1 ELSE 0
    BY <2>3, <2>4, SubSeqProperties
  <2> HIDE DEF p
  <2> QED BY <2>5, <2>6, <2>7, <2>8
<1>5. CASE HasReadableData(u)
  <2>1. all = got + k /\ all = Within(n, to) /\ all \in Nat /\ all >= got
    <3>1. all = got + k BY <1>3, <1>5
    <3> DEFINE x == u.read_pos
               y == Within(n, to)
    <3>2. x \in Nat /\ l \in Nat /\ x <= l /\ got + l - x = y /\ k = l - x BY <1>1, <1>2
    <3> HIDE DEF x, y, l, k
    <3>3. got + k = y /\ got + k \in Nat /\ got + k >= got BY <3>2
    <3> QED BY <3>1, <3>3 DEF y
  <2> DEFINE pos == u.read_pos + Min({Available(u), Available(u)})
  <2>2. pos = l
    <3> DEFINE z == k
    <3>1. z \in Int /\ z = k BY <1>3
    <3> HIDE DEF z
    <3>2. Min({z, z}) \in {z, z} BY <3>1, MinOfTwo
    <3>3. Min({Available(u), Available(u)}) = k BY <1>3, <3>1, <3>2
    <3> QED BY <1>1, <1>2, <3>3
  <2>3. r = IF pos > MIN_COMPACT_BYTES /\ pos > l \div 2
            THEN [u EXCEPT !.assembled = SubSeq(u.assembled, pos + 1, l), !.read_pos = 0]
            ELSE [u EXCEPT !.read_pos = pos]
    BY <1>5 DEF Consume
  <2>4. SubSeq(u.assembled, pos + 1, l) = <<>>
    BY <1>1, <1>2, <2>2
  <2> HIDE DEF pos
  <2>5. \/ r = [u EXCEPT !.assembled = <<>>, !.read_pos = 0]
        \/ r = [u EXCEPT !.read_pos = l]
    BY <2>2, <2>3, <2>4
  <2>6. /\ Plain(r) /\ SameRest(r, u) /\ r.next_seq = u.next_seq
        /\ r.read_pos = Len(r.assembled) /\ Len(r.assembled) \in Nat
    <3>1. CASE r = [u EXCEPT !.assembled = <<>>, !.read_pos = 0]
      <4>1. /\ DOMAIN r = TcpFields /\ r.assembled = <<>> /\ r.read_pos = 0 /\ SameRest(r, u)
            /\ r.next_seq = u.next_seq /\ r.keep_payload = u.keep_payload
            /\ r.out_of_order = u.out_of_order
        BY <1>1, <3>1 DEF TcpFields, SameRest
      <4>2. <<>> \in Seq(Nat) /\ Len(<<>>) = 0 OBVIOUS
      <4>3. u.keep_payload = TRUE /\ u.out_of_order = <<>> BY DEF Level, Plain
      <4>4. r.assembled \in Seq(Nat) /\ Len(r.assembled) = 0 BY <4>1, <4>2
      <4> QED BY <4>1, <4>3, <4>4 DEF Plain
    <3>2. CASE r = [u EXCEPT !.read_pos = l]
      <4>1. /\ DOMAIN r = TcpFields /\ r.assembled = u.assembled /\ r.read_pos = l /\ SameRest(r, u)
            /\ r.next_seq = u.next_seq /\ r.keep_payload = u.keep_payload
            /\ r.out_of_order = u.out_of_order
        BY <1>1, <3>2 DEF TcpFields, SameRest
      <4> QED BY <1>1, <1>2, <4>1 DEF Level, Plain
    <3> QED BY <2>5, <3>1, <3>2
  <2>7. Level(r, n, to, all)
    <3>1. all + Len(r.assembled) - r.read_pos = Within(n, to) BY <2>1, <2>6
    <3>2. /\ r.fin_seen = FALSE /\ r.next_seq = to
          /\ (to = 0 => r.seeded = FALSE) /\ (to > 0 => r.seeded = TRUE)
      BY <2>6 DEF Level, SameRest
    <3> QED BY <2>6, <3>1, <3>2 DEF Level
  <2> QED BY <1>3, <1>4, <2>1, <2>6, <2>7 DEF SameRest
<1>6. CASE ~HasReadableData(u) BY <1>3, <1>4, <1>6
<1> QED BY <1>5, <1>6

(* A segment of the peer touches the state only.                           *)
LEMMA ReceivedLevel ==
    ASSUME NEW n, NEW sent, NEW got, NEW t, Level(t, n, sent, got), NEW h, NEW u, u = OnReceived(t, h)
    PROVE  Level(u, n, sent, got)
<1>1. PICK s : u = [t EXCEPT !.state = s] BY DEF OnReceived
<1>2. DOMAIN t = TcpFields BY DEF Level, Plain
<1>3. /\ DOMAIN u = TcpFields /\ u.keep_payload = t.keep_payload /\ u.out_of_order = t.out_of_order
      /\ u.assembled = t.assembled /\ u.read_pos = t.read_pos /\ u.fin_seen = t.fin_seen
      /\ u.next_seq = t.next_seq /\ u.seeded = t.seeded
  BY <1>1, <1>2 DEF TcpFields
<1> QED BY <1>3 DEF Level, Plain

(* A segment of the peer, once the connection is open: it may carry the    *)
(* peer's FIN (fin) and acknowledge this side's (ak).                      *)
PeerSays(t, h, sf, pf, af, fin, ak) ==
    /\ "state" \in DOMAIN t /\ t.state \in StatesAt(sf, pf, af) /\ ~(sf /\ pf /\ af)
    /\ h.rst = FALSE /\ h.syn = FALSE /\ h.ack = TRUE /\ h.fin = fin /\ fin \in BOOLEAN
    /\ fin => ~pf
    /\ sf => (Acked(t, h) <=> ak)

StatesAfter(sf, pf, af, fin, ak) == StatesAt(sf, pf \/ fin, af \/ ak)

(* What a segment of the other host makes of the state, by its flags and   *)
(* what it acknowledges.                                                   *)
LEMMA PeersSegment ==
    ASSUME NEW t, NEW h, NEW sf, NEW pf, NEW af, NEW fin, NEW ak,
           PeerSays(t, h, sf, pf, af, fin, ak), NEW u, u = OnReceived(t, h)
    PROVE  u.state \in StatesAfter(sf, pf, af, fin, ak)
<1> USE DEF PeerSays, StatesAfter
<1>1. CASE ~sf /\ ~pf
  <2>1. t.state = "Established" BY <1>1 DEF StatesAt
  <2>2. u.state = IF fin THEN "CloseWait" ELSE "Established" BY <2>1 DEF OnReceived
  <2> QED BY <1>1, <2>2 DEF StatesAt
<1>2. CASE ~sf /\ pf
  <2>1. t.state = "CloseWait" BY <1>2 DEF StatesAt
  <2>2. u.state = "CloseWait" BY <2>1 DEF OnReceived
  <2> QED BY <1>2, <2>2 DEF StatesAt
<1>3. CASE sf /\ ~pf /\ ~af
  <2>1. t.state = "FinWait1" BY <1>3 DEF StatesAt
  <2>2. u.state = IF fin THEN IF Acked(t, h) THEN "TimeWait" ELSE "Closing"
                  ELSE IF Acked(t, h) THEN "FinWait2" ELSE "FinWait1"
    BY <2>1 DEF OnReceived
  <2> QED BY <1>3, <2>2 DEF StatesAt
<1>4. CASE sf /\ ~pf /\ af
  <2>1. t.state = "FinWait2" BY <1>4 DEF StatesAt
  <2>2. u.state = IF fin THEN "TimeWait" ELSE "FinWait2" BY <2>1 DEF OnReceived
  <2> QED BY <1>4, <2>2 DEF StatesAt
<1>5. CASE sf /\ pf /\ ~af
  <2>1. t.state \in {"Closing", "LastAck"} BY <1>5 DEF StatesAt
  <2>2. u.state = IF Acked(t, h) THEN IF t.state = "Closing" THEN "TimeWait" ELSE "Closed" ELSE t.state
    <3>1. CASE t.state = "Closing" BY <3>1 DEF OnReceived
    <3>2. CASE t.state = "LastAck" BY <3>2 DEF OnReceived
    <3> QED BY <2>1, <3>1, <3>2
  <2> QED BY <1>5, <2>1, <2>2 DEF StatesAt
<1> QED BY <1>1, <1>2, <1>3, <1>4, <1>5

-----------------------------------------------------------------------------
(* The two directions                                                      *)

(* A has acknowledged B's SYN.                                             *)
Opened(wr) == \E v \in wr : v.host = "A" /\ v.ack > 0

(* d's FIN has been acknowledged.                                          *)
FinAcked(c, wr, d) == \E v \in wr : v.host = Peer(d) /\ v.ack = Units(c, d)

(* All that a host has sent was assembled.                                 *)
Levels(c, hst, tc, rd) ==
    /\ rd \in [Hosts -> Seq(Nat)]
    /\ \A d \in Hosts : Level(tc[d], c.bytes[d], hst[d].sent, Len(rd[d]))

(* The tracked states are those of the two hosts.                          *)
Tracked(c, hst, wr, tc) ==
    /\ hst["B"].sent > 0 => hst["A"].sent > 0
    /\ Opened(wr) => \A d \in Hosts :
          tc[d].state \in StatesAt(Sent(c, hst, d), Sent(c, hst, Peer(d)), FinAcked(c, wr, d))
    /\ ~Opened(wr) =>
          /\ hst["A"].sent <= 1 /\ hst["B"].sent <= 1
          /\ tc["A"].state = (IF hst["A"].sent = 0 THEN "Unknown" ELSE "SynSent")
          /\ tc["B"].state = (IF hst["B"].sent = 1 THEN "SynReceived"
                              ELSE IF hst["A"].sent = 1 THEN "Listen" ELSE "Unknown")

(* What a host knows to be acknowledged, a segment of its peer has said.   *)
AcksSeen(hst, wr) ==
    \A d \in Hosts : hst[d].acked > 0 => \E v \in wr : v.host = Peer(d) /\ v.ack = hst[d].acked

(* The application decoder has what came before the peer's FIN.            *)
FinsWait(rd, bf) == bf \in [Hosts -> Nat] /\ \A d \in Hosts : bf[d] <= Len(rd[d])

LInv == conn.lossless =>
           /\ Levels(conn, host, tcp, read) /\ Tracked(conn, host, wire, tcp)
           /\ AcksSeen(host, wire) /\ FinsWait(read, before_fin)

(* LInv holds before the first segment.                                    *)
LEMMA InitLInv == Init => LInv
<1>1. SUFFICES ASSUME Init PROVE LInv OBVIOUS
<1>2. /\ wire = {}
      /\ \A d \in Hosts : host[d].sent = 0 /\ host[d].acked = 0
  BY <1>1 DEF Init
<1>t. \A d \in Hosts : tcp[d] = Fresh(TRUE) BY <1>1 DEF Init
<1>r. \A d \in Hosts : read[d] = <<>> BY <1>1 DEF Init
<1>b. \A d \in Hosts : before_fin[d] = 0 BY <1>1 DEF Init
<1>y. read \in [Hosts -> Seq(Nat)] /\ before_fin \in [Hosts -> Nat]
  <2>1. <<>> \in Seq(Nat) OBVIOUS
  <2> QED BY <1>1, <2>1 DEF Init
<1>l. \A d \in Hosts : Len(read[d]) = 0
  <2>1. Len(<<>>) = 0 OBVIOUS
  <2> QED BY <1>r, <2>1
<1>3. "A" \in Hosts /\ "B" \in Hosts BY DEF Hosts
<1>4. ~Opened(wire) BY <1>2 DEF Opened
<1>5. ASSUME NEW d \in Hosts PROVE Level(tcp[d], conn.bytes[d], host[d].sent, Len(read[d]))
  <2> DEFINE t == tcp[d]
  <2>1. /\ DOMAIN t = TcpFields /\ t.keep_payload = TRUE /\ t.out_of_order = <<>>
        /\ t.assembled = <<>> /\ t.fin_seen = FALSE /\ t.next_seq = 0 /\ t.seeded = FALSE
        /\ t.read_pos = 0
    BY <1>t DEF Fresh, TcpFields
  <2> HIDE DEF t
  <2>2. t.assembled \in Seq(Nat) /\ Len(t.assembled) = 0 BY <2>1
  <2>3. Len(read[d]) = 0 /\ host[d].sent = 0 BY <1>2, <1>l
  <2>4. Within(conn.bytes[d], 0) = 0 BY DEF Within
  <2>5. Level(t, conn.bytes[d], 0, 0) BY <2>1, <2>2, <2>4 DEF Level, Plain
  <2> QED BY <2>3, <2>5 DEF t
<1>6. \A d \in Hosts : tcp[d].state = "Unknown" BY <1>t DEF Fresh
<1>7. Tracked(conn, host, wire, tcp)
  <2>1. host["A"].sent = 0 /\ host["B"].sent = 0 BY <1>2, <1>3
  <2> QED BY <2>1, <1>3, <1>4, <1>6 DEF Tracked
<1>8. AcksSeen(host, wire) BY <1>2 DEF AcksSeen
<1>9. FinsWait(read, before_fin) BY <1>b, <1>l, <1>y DEF FinsWait
<1> QED BY <1>y, <1>5, <1>7, <1>8, <1>9 DEF LInv, Levels

(* A host sends the segment w, next in its stream, and it is captured: u is*)
(* the direction's struct before it is polled.                             *)
Sends(d, w, hst, wr, tc, u) ==
    /\ \A x \in Hosts : /\ hst[x].acked = host[x].acked
                        /\ hst[x].sent = IF x = d THEN w.to ELSE host[x].sent
    /\ wr = wire \cup {w}
    /\ w.host = d /\ w.from = host[d].sent /\ w.ack = host[d].rcvd /\ w.to \in Nat
    /\ u = OnSentAll(tcp[d], HeaderOf(w), PayloadOf(w))
    /\ tc[d].state = u.state
    /\ tc[Peer(d)].state = OnReceived(tcp[Peer(d)], HeaderOf(w)).state

(* What then holds of it.                                                  *)
Follows(d, w, hst, wr, tc, u) ==
    /\ Level(u, conn.bytes[d], w.to, Len(read[d]))
    /\ Tracked(conn, hst, wr, tc)
    /\ w.to = 1 \/ Sent(conn, host, Peer(d)) \/ HasReadableData(u)

(* The numbers of the two hosts.                                           *)
LEMMA HostNumbers ==
    ASSUME CInv, NEW d \in Hosts
    PROVE  /\ host[d].sent \in Nat /\ host[d].rcvd \in Nat /\ host[d].acked \in Nat
           /\ host[d].sent <= Units(conn, d) /\ host[d].rcvd <= host[Peer(d)].sent
           /\ host[d].acked <= host[Peer(d)].rcvd
           /\ conn.bytes[d] \in Nat /\ Units(conn, d) = conn.bytes[d] + 2 /\ InSpace(Units(conn, d))
<1>1. host \in [Hosts -> [sent : Nat, rcvd : Nat, acked : Nat]] BY DEF CInv, HostsOK
<1>2. host[d].sent \in Nat /\ host[d].rcvd \in Nat /\ host[d].acked \in Nat BY <1>1
<1>3. /\ host[d].sent <= Units(conn, d) /\ host[d].rcvd <= host[Peer(d)].sent
      /\ host[d].acked <= host[Peer(d)].rcvd
  BY DEF CInv, HostsOK
<1>4. conn.bytes[d] \in Nat /\ Units(conn, d) = conn.bytes[d] + 2 /\ InSpace(Units(conn, d))
  BY UnitsOf DEF CInv
<1> QED BY <1>2, <1>3, <1>4

(* A FIN is acknowledged only once it was sent.                            *)
LEMMA AckedIsSent ==
    ASSUME CInv, NEW d \in Hosts, FinAcked(conn, wire, d)
    PROVE  host[d].sent = Units(conn, d)
<1>1. PICK v \in wire : v.host = Peer(d) /\ v.ack = Units(conn, d) BY DEF FinAcked
<1>2. v.ack <= host[Peer(d)].rcvd /\ v.ack \in Nat BY <1>1 DEF CInv, HostsOK, SegmentOK
<1>3. Peer(d) \in Hosts /\ Peer(Peer(d)) = d BY PeerOf
<1>4. host[Peer(d)].rcvd \in Nat /\ host[Peer(d)].rcvd <= host[d].sent BY <1>3, HostNumbers
<1>5. host[d].sent \in Nat /\ host[d].sent <= Units(conn, d) BY HostNumbers
<1> QED BY <1>1, <1>2, <1>4, <1>5

(* Data, a FIN or an acknowledgement on an open connection.                *)
LEMMA OpenSends ==
    ASSUME CInv, LInv, conn.lossless, NEW d \in Hosts, NEW w, NEW hst, NEW wr, NEW tc, NEW u,
           Sends(d, w, hst, wr, tc, u), Opened(wire),
           DataSegment(HeaderOf(w), PayloadOf(w), conn.bytes[d], w.from, w.to),
           w.from = w.to => \A v \in wire : v.host = d => v.ack < w.ack
    PROVE  Follows(d, w, hst, wr, tc, u)
<1> DEFINE e == Peer(d)
           n == conn.bytes[d]
           h == HeaderOf(w)
           from == w.from
           to == w.to
           got == Len(read[d])
<1>1. e \in Hosts /\ e # d /\ Peer(e) = d BY PeerOf
<1>2. /\ n \in Nat /\ InSpace(n + 2) /\ Units(conn, d) = n + 2 /\ host[d].sent \in Nat
      /\ host[d].rcvd \in Nat /\ host[d].rcvd <= host[e].sent
  BY HostNumbers
<1>3. /\ host[e].sent \in Nat /\ host[e].sent <= Units(conn, e) /\ Units(conn, e) \in Nat
      /\ Units(conn, e) < SeqSpace \div 2
  BY <1>1, HostNumbers DEF InSpace
<1>4. /\ w.host = d /\ from = host[d].sent /\ w.ack = host[d].rcvd /\ wr = wire \cup {w}
      /\ u = OnSentAll(tcp[d], h, PayloadOf(w))
      /\ tc[d].state = u.state /\ tc[e].state = OnReceived(tcp[e], h).state
      /\ hst[d].sent = to /\ hst[e].sent = host[e].sent
  BY <1>1 DEF Sends
<1>5. /\ h.rst = FALSE /\ h.syn = FALSE /\ h.ack = TRUE /\ h.ack_number = w.ack
      /\ h.fin = (IF from < to /\ to = n + 2 THEN TRUE ELSE FALSE)
      /\ from \in Nat /\ to \in Nat /\ from <= to /\ to <= n + 2
  BY DEF DataSegment, HeaderOf
<1>6. /\ Level(tcp[d], n, from, got) /\ Level(tcp[e], conn.bytes[e], host[e].sent, Len(read[e]))
      /\ read[d] \in Seq(Nat) /\ got \in Nat
  <2>1. Levels(conn, host, tcp, read) BY DEF LInv
  <2>2. read[d] \in Seq(Nat) BY <2>1 DEF Levels
  <2> QED BY <1>1, <1>4, <2>1, <2>2, LenProperties DEF Levels
<1>7. \A x \in Hosts : tcp[x].state \in StatesAt(Sent(conn, host, x), Sent(conn, host, Peer(x)), FinAcked(conn, wire, x))
  BY DEF LInv, Tracked
<1>8. DataSegment(h, PayloadOf(w), n, from, to) OBVIOUS
<1> DEFINE sf == from = n + 2
           pf == Sent(conn, host, e)
           af == FinAcked(conn, wire, d)
           ef == FinAcked(conn, wire, e)
           ak == w.ack = Units(conn, e)
           fin == h.fin
<1>9. sf <=> Sent(conn, host, d) BY <1>2, <1>4 DEF Sent
<1>10. sf \in BOOLEAN /\ pf \in BOOLEAN /\ af \in BOOLEAN /\ ef \in BOOLEAN /\ ak \in BOOLEAN /\ fin \in BOOLEAN
  BY <1>5 DEF Sent, FinAcked
<1>11. af => sf BY <1>2, <1>4, AckedIsSent
<1>12. tcp[d].state \in StatesAt(sf, pf, af) /\ tcp[e].state \in StatesAt(pf, sf, ef)
  <2>1. tcp[d].state \in StatesAt(Sent(conn, host, d), pf, af) BY <1>7
  <2>2. tcp[e].state \in StatesAt(pf, Sent(conn, host, d), ef) BY <1>1, <1>7
  <2> QED BY <1>9, <2>1, <2>2 DEF StatesAt
<1> HIDE DEF e, n, h, from, to, got, pf, af, ef, ak, fin
<1>13. Level(u, n, to, got) /\ u.state \in StatesAt(to = n + 2, pf, af)
  BY <1>2, <1>4, <1>6, <1>8, <1>10, <1>11, <1>12, OwnSegment
<1>14. ~(pf /\ sf /\ ef)
  <2>1. SUFFICES ASSUME pf, sf, ef PROVE FALSE OBVIOUS
  <2>2. from = to BY <1>2, <1>5, <2>1
  <2>3. PICK v \in wire : v.host = d /\ v.ack = Units(conn, e) BY <1>1, <2>1 DEF ef, FinAcked
  <2>4. v.ack < w.ack BY <2>2, <2>3 DEF from, to
  <2> QED BY <1>2, <1>3, <1>4, <2>3, <2>4
<1>15. pf => (Acked(tcp[e], h) <=> ak)
  <2>1. HAVE pf
  <2>2. host[e].sent = Units(conn, e) BY <2>1 DEF pf, Sent
  <2>3. tcp[e].next_seq = host[e].sent BY <1>6 DEF Level
  <2> DEFINE ack == w.ack
             sent == host[e].sent
  <2>4. ack \in Nat /\ sent \in Nat /\ ack <= sent /\ sent < SeqSpace \div 2 /\ h.ack_number = ack
        /\ tcp[e].next_seq = sent
    BY <1>2, <1>3, <1>4, <1>5, <2>2, <2>3
  <2> DEFINE t == tcp[e]
  <2>5. t.next_seq = sent BY <2>4
  <2> HIDE DEF ack, sent, t
  <2>6. Acked(t, h) <=> ack = sent
    <3>1. SeqSpace \div 2 \in Nat BY Half
    <3>2. ack < SeqSpace \div 2 /\ sent <= SeqSpace \div 2 BY <2>4, <3>1
    <3>3. SeqDiff(ack, sent) = ack - sent BY <2>4, <3>2, SeqDiffIs
    <3>4. Acked(t, h) <=> SeqDiff(ack, sent) >= 0 BY <1>5, <2>4, <2>5 DEF Acked
    <3> QED BY <2>4, <3>3, <3>4
  <2> QED BY <2>2, <2>6 DEF ack, sent, ak, t
<1>16. fin => ~sf
  <2>1. HAVE fin
  <2>2. from < to /\ to = n + 2 BY <1>5, <2>1 DEF fin
  <2> QED BY <1>2, <1>5, <2>2
<1>17. tc[e].state \in StatesAt(pf, sf \/ fin, ef \/ ak)
  <2>1. "state" \in DOMAIN tcp[e] BY <1>6 DEF Level, Plain, TcpFields
  <2> DEFINE b == sf
             t == tcp[e]
             z == OnReceived(t, h)
  <2>2. /\ b \in BOOLEAN /\ t.state \in StatesAt(pf, b, ef) /\ ~(pf /\ b /\ ef) /\ h.fin = fin
        /\ (fin => ~b) /\ (pf => (Acked(t, h) <=> ak)) /\ "state" \in DOMAIN t
    BY <1>10, <1>12, <1>14, <1>15, <1>16, <2>1 DEF fin
  <2> HIDE DEF b, t, z
  <2>3. z.state \in StatesAfter(pf, b, ef, fin, ak)
    <3>1. z = OnReceived(t, h) BY DEF z
    <3>2. PeerSays(t, h, pf, b, ef, fin, ak) BY <1>5, <1>10, <2>2 DEF PeerSays
    <3> QED BY <3>1, <3>2, PeersSegment, Zenon
  <2> QED BY <1>4, <2>3 DEF z, t, b, StatesAfter
<1>18. (sf \/ fin) <=> to = n + 2 BY <1>2, <1>5 DEF fin
<1>19. /\ Sent(conn, hst, d) <=> to = n + 2
       /\ Sent(conn, hst, e) <=> pf
  BY <1>2, <1>4 DEF Sent, pf
<1>20. (FinAcked(conn, wr, d) <=> af) /\ (FinAcked(conn, wr, e) <=> (ef \/ ak))
  <2>1. FinAcked(conn, wr, d) <=> af BY <1>1, <1>4 DEF FinAcked, af, e
  <2>2. FinAcked(conn, wr, e) <=> (ef \/ ak) BY <1>1, <1>4 DEF FinAcked, ef, ak
  <2> QED BY <2>1, <2>2
<1>21. tc[d].state \in StatesAt(Sent(conn, hst, d), Sent(conn, hst, Peer(d)), FinAcked(conn, wr, d))
  BY <1>4, <1>13, <1>19, <1>20 DEF StatesAt, e
<1>22. tc[e].state \in StatesAt(Sent(conn, hst, e), Sent(conn, hst, Peer(e)), FinAcked(conn, wr, e))
  BY <1>1, <1>17, <1>18, <1>19, <1>20 DEF StatesAt
<1>23. \A x \in Hosts : x = d \/ x = e BY <1>1 DEF Hosts
<1>24. Tracked(conn, hst, wr, tc)
  <2>1. Opened(wr) BY <1>4 DEF Opened
  <2>2. hst["B"].sent > 0 => hst["A"].sent > 0
    <3>1. host["B"].sent > 0 => host["A"].sent > 0 BY DEF LInv, Tracked
    <3>2. from > 0 /\ to > 0 BY <1>8 DEF DataSegment
    <3>3. "A" \in Hosts /\ "B" \in Hosts BY DEF Hosts
    <3>4. \A x \in Hosts : hst[x].sent > 0 <=> host[x].sent > 0 BY <1>4, <1>23, <3>2
    <3> QED BY <3>1, <3>3, <3>4
  <2>3. \A x \in Hosts : tc[x].state \in StatesAt(Sent(conn, hst, x), Sent(conn, hst, Peer(x)), FinAcked(conn, wr, x))
    BY <1>21, <1>22, <1>23
  <2> QED BY <2>1, <2>2, <2>3 DEF Tracked
<1>25. pf \/ HasReadableData(u) BY <1>13 DEF StatesAt, HasReadableData
<1> QED BY <1>13, <1>24, <1>25 DEF Follows, n, to, got, pf, e

(* A acknowledges B's SYN, with or without data and its FIN.               *)
LEMMA OpeningSends ==
    ASSUME CInv, LInv, conn.lossless, NEW w, NEW hst, NEW wr, NEW tc, NEW u,
           Sends("A", w, hst, wr, tc, u), ~Opened(wire), Connected("A"),
           DataSegment(HeaderOf(w), PayloadOf(w), conn.bytes["A"], w.from, w.to)
    PROVE  Follows("A", w, hst, wr, tc, u)
<1> DEFINE n == conn.bytes["A"]
           h == HeaderOf(w)
           from == w.from
           to == w.to
           got == Len(read["A"])
<1>1. "A" \in Hosts /\ "B" \in Hosts /\ Peer("A") = "B" /\ Peer("B") = "A" BY DEF Hosts, Peer
<1>2. /\ n \in Nat /\ InSpace(n + 2) /\ Units(conn, "A") = n + 2 /\ host["A"].sent \in Nat
      /\ host["A"].rcvd \in Nat /\ host["A"].rcvd <= host["B"].sent /\ host["A"].acked \in Nat
      /\ host["A"].acked <= host["B"].rcvd
  BY <1>1, HostNumbers
<1>3. /\ host["B"].sent \in Nat /\ Units(conn, "B") = conn.bytes["B"] + 2 /\ conn.bytes["B"] \in Nat
      /\ host["B"].rcvd \in Nat /\ host["B"].rcvd <= host["A"].sent
  BY <1>1, HostNumbers
<1>4. /\ w.host = "A" /\ from = host["A"].sent /\ w.ack = host["A"].rcvd /\ wr = wire \cup {w}
      /\ u = OnSentAll(tcp["A"], h, PayloadOf(w))
      /\ tc["A"].state = u.state /\ tc["B"].state = OnReceived(tcp["B"], h).state
      /\ hst["A"].sent = to /\ hst["B"].sent = host["B"].sent
  BY <1>1 DEF Sends
<1>5. /\ h.rst = FALSE /\ h.syn = FALSE /\ h.ack = TRUE
      /\ h.fin = (IF from < to /\ to = n + 2 THEN TRUE ELSE FALSE)
      /\ from \in Nat /\ to \in Nat /\ from <= to /\ to <= n + 2
  BY DEF DataSegment
<1>6. Tracked(conn, host, wire, tcp) /\ Levels(conn, host, tcp, read) BY DEF LInv
<1>7. from = 1 /\ host["B"].sent = 1 /\ w.ack > 0
  <2>1. host["A"].sent <= 1 /\ host["B"].sent <= 1 BY <1>6 DEF Tracked
  <2>2. host["A"].acked > 0 /\ host["A"].rcvd > 0 BY DEF Connected
  <2> QED BY <1>2, <1>3, <1>4, <2>1, <2>2
<1>8. tcp["A"].state = "SynSent" /\ tcp["B"].state = "SynReceived" BY <1>4, <1>6, <1>7 DEF Tracked
<1>9. Level(tcp["A"], n, from, got) /\ got \in Nat /\ "state" \in DOMAIN tcp["B"]
  <2>1. read["A"] \in Seq(Nat) BY <1>1, <1>6 DEF Levels
  <2>2. /\ Level(tcp["A"], n, host["A"].sent, got)
        /\ Level(tcp["B"], conn.bytes["B"], host["B"].sent, Len(read["B"]))
    BY <1>1, <1>6 DEF Levels
  <2>3. "state" \in DOMAIN tcp["B"] BY <2>2 DEF Level, Plain, TcpFields
  <2> QED BY <1>4, <2>1, <2>2, <2>3, LenProperties
<1>10. DataSegment(h, PayloadOf(w), n, from, to) OBVIOUS
<1> DEFINE fin == h.fin
<1>11. fin \in BOOLEAN /\ (fin <=> to = n + 2)
  <2>1. from < n + 2 BY <1>2, <1>7
  <2> QED BY <1>5, <2>1
<1> HIDE DEF n, h, from, to, got
<1>12. Level(u, n, to, got) /\ u.state = AfterData("SynSent", fin)
  <2>1. tcp["A"].state \in {"SynSent", "Established", "CloseWait"} BY <1>8
  <2> DEFINE t == tcp["A"]
  <2>2. /\ t.state \in {"SynSent", "Established", "CloseWait"} /\ Level(t, n, from, got)
        /\ u = OnSentAll(t, h, PayloadOf(w))
    BY <1>4, <1>9, <2>1
  <2> HIDE DEF t
  <2>3. Level(u, n, to, got) /\ u.state = AfterData(t.state, h.fin)
    BY <1>2, <1>9, <1>10, <2>2, DataSentLevel
  <2> QED BY <1>8, <2>3 DEF t
<1>13. \A af \in BOOLEAN : tc["B"].state \in StatesAt(FALSE, fin, af)
  <2>1. OnReceived(tcp["B"], h).state = IF fin THEN "CloseWait" ELSE "Established"
    BY <1>5, <1>8, <1>9, <1>11 DEF OnReceived
  <2> QED BY <1>4, <2>1 DEF StatesAt
<1> HIDE DEF fin
<1>14. /\ Sent(conn, hst, "A") <=> to = n + 2
       /\ ~Sent(conn, hst, "B") /\ ~Sent(conn, host, "A")
  <2>1. Sent(conn, hst, "A") <=> to = n + 2 BY <1>2, <1>4 DEF Sent
  <2>2. ~Sent(conn, hst, "B") BY <1>3, <1>4, <1>7 DEF Sent
  <2>3. ~Sent(conn, host, "A") BY <1>2, <1>4, <1>7 DEF Sent
  <2> QED BY <2>1, <2>2, <2>3
<1>15. ~FinAcked(conn, wr, "A")
  <2>1. ~FinAcked(conn, wire, "A") BY <1>1, <1>14, AckedIsSent DEF Sent
  <2> QED BY <1>1, <1>4, <2>1 DEF FinAcked
<1>16. FinAcked(conn, wr, "B") \in BOOLEAN BY DEF FinAcked
<1>17. tc["A"].state \in StatesAt(Sent(conn, hst, "A"), Sent(conn, hst, "B"), FinAcked(conn, wr, "A"))
  BY <1>4, <1>11, <1>12, <1>14, <1>15 DEF StatesAt, AfterData
<1>18. tc["B"].state \in StatesAt(Sent(conn, hst, "B"), Sent(conn, hst, "A"), FinAcked(conn, wr, "B"))
  <2>1. tc["B"].state \in StatesAt(FALSE, fin, FALSE) BY <1>13
  <2> QED BY <1>11, <1>14, <2>1 DEF StatesAt
<1>19. Tracked(conn, hst, wr, tc)
  <2>1. Opened(wr) BY <1>4, <1>7 DEF Opened
  <2>2. hst["A"].sent > 0 BY <1>4, <1>5, <1>7
  <2>3. \A x \in Hosts : tc[x].state \in StatesAt(Sent(conn, hst, x), Sent(conn, hst, Peer(x)), FinAcked(conn, wr, x))
    <3>1. \A x \in Hosts : x = "A" \/ x = "B" BY DEF Hosts
    <3> QED BY <1>1, <1>17, <1>18, <3>1
  <2> QED BY <2>1, <2>2, <2>3 DEF Tracked
<1>20. HasReadableData(u) BY <1>11, <1>12 DEF AfterData, HasReadableData
<1> QED BY <1>1, <1>12, <1>19, <1>20 DEF Follows, n, to, got

(* The SYN of A, and the SYN+ACK of B.                                     *)
LEMMA SynSends ==
    ASSUME CInv, LInv, conn.lossless, NEW d \in Hosts, NEW w, NEW hst, NEW wr, NEW tc, NEW u,
           Sends(d, w, hst, wr, tc, u), w.from = 0, w.to = 1, d = "A" <=> host[d].rcvd = 0,
           PayloadOf(w) \in Seq(Nat), Len(PayloadOf(w)) = 0
    PROVE  Follows(d, w, hst, wr, tc, u)
<1> DEFINE e == Peer(d)
           n == conn.bytes[d]
           h == HeaderOf(w)
           got == Len(read[d])
<1>1. "A" \in Hosts /\ "B" \in Hosts /\ Peer("A") = "B" /\ Peer("B") = "A" /\ e \in Hosts /\ e # d
  BY DEF Hosts, Peer
<1>2. /\ n \in Nat /\ host[d].sent \in Nat /\ host[d].rcvd \in Nat /\ host[d].rcvd <= host[e].sent
  BY HostNumbers
<1>3. host[e].sent \in Nat /\ host[e].rcvd \in Nat /\ host[e].rcvd <= host[d].sent
  <2>1. Peer(e) = d BY PeerOf
  <2> QED BY <1>1, <2>1, HostNumbers
<1>4. /\ w.host = d /\ host[d].sent = 0 /\ w.ack = host[d].rcvd /\ wr = wire \cup {w}
      /\ u = OnSentAll(tcp[d], h, PayloadOf(w))
      /\ tc[d].state = u.state /\ tc[e].state = OnReceived(tcp[e], h).state
      /\ hst[d].sent = 1 /\ hst[e].sent = host[e].sent
  BY <1>1 DEF Sends
<1>5. /\ h.rst = FALSE /\ h.syn = TRUE /\ h.seq_number = 0
      /\ h.ack = (IF host[d].rcvd > 0 THEN TRUE ELSE FALSE) /\ h.ack \in BOOLEAN
  <2>1. h.rst = FALSE /\ h.syn = (w.from = 0) /\ h.ack = (w.ack > 0) /\ h.seq_number = w.from
        /\ h.ack \in BOOLEAN
    BY DEF HeaderOf
  <2> HIDE DEF h
  <2>2. h.syn = TRUE BY <2>1
  <2>3. CASE host[d].rcvd > 0
    <3>1. w.ack > 0 BY <1>4, <2>3
    <3>2. h.ack = TRUE BY <2>1, <3>1
    <3> QED BY <2>1, <2>2, <2>3, <3>2
  <2>4. CASE ~(host[d].rcvd > 0)
    <3>1. ~(w.ack > 0) BY <1>4, <2>4
    <3>2. h.ack = FALSE
      <4>1. ~h.ack BY <2>1, <3>1
      <4> QED BY <2>1, <4>1
    <3> QED BY <2>1, <2>2, <2>4, <3>2
  <2> QED BY <2>3, <2>4
<1>6. Tracked(conn, host, wire, tcp) /\ Levels(conn, host, tcp, read) BY DEF LInv
<1>7. Level(tcp[d], n, 0, got) /\ got \in Nat /\ "state" \in DOMAIN tcp[e]
  <2>1. read[d] \in Seq(Nat) BY <1>6 DEF Levels
  <2>2. /\ Level(tcp[d], n, host[d].sent, got)
        /\ Level(tcp[e], conn.bytes[e], host[e].sent, Len(read[e]))
    BY <1>1, <1>6 DEF Levels
  <2>3. "state" \in DOMAIN tcp[e] BY <2>2 DEF Level, Plain, TcpFields
  <2> QED BY <1>4, <2>1, <2>2, <2>3, LenProperties
<1>8. ~Opened(wire)
  <2>1. SUFFICES ASSUME NEW v \in wire, v.host = "A", v.ack > 0 PROVE FALSE BY DEF Opened
  <2>2. /\ v.from \in Nat /\ v.to \in Nat /\ v.ack \in Nat /\ v.to <= host["A"].sent
        /\ v.ack <= host["A"].rcvd /\ v.from <= v.to /\ (v.from = 0 => v.to = 1)
    BY <2>1 DEF CInv, HostsOK, SegmentOK
  <2>3. CASE d = "A" BY <1>4, <2>2, <2>3
  <2>4. CASE d = "B" BY <1>1, <1>3, <1>4, <2>1, <2>2, <2>4
  <2> QED BY <2>3, <2>4 DEF Hosts
<1> HIDE DEF e, n, h, got
<1>9. Level(u, n, 1, got) /\ u.state = IF h.ack THEN "SynReceived" ELSE "SynSent"
  <2> DEFINE t == tcp[d]
             span == PayloadOf(w)
  <2>1. Level(t, n, 0, got) /\ u = OnSentAll(t, h, span) /\ span \in Seq(Nat) /\ Len(span) = 0
    BY <1>4, <1>7
  <2> HIDE DEF t, span
  <2>2. SynSegment(h, span) BY <1>5, <2>1 DEF SynSegment
  <2>3. SynTaken(u, h, n, got) BY <1>2, <1>7, <2>1, <2>2, SynSentLevel
  <2> QED BY <2>3 DEF SynTaken
<1>10. Tracked(conn, hst, wr, tc)
  <2>1. CASE d = "A"
    <3>1. e = "B" /\ h.ack = FALSE /\ w.ack = 0 BY <1>1, <1>2, <1>4, <1>5, <2>1 DEF e
    <3>2. host["B"].sent = 0 BY <1>3, <1>4, <1>6, <2>1, <3>1 DEF Tracked
    <3>3. tcp["B"].state = "Unknown" BY <1>4, <1>6, <1>8, <2>1, <3>2 DEF Tracked
    <3>4. OnReceived(tcp["B"], h).state = "Listen" BY <1>5, <1>7, <3>1, <3>3 DEF OnReceived
    <3>5. tc["B"].state = "Listen" /\ tc["A"].state = "SynSent" BY <1>4, <1>9, <2>1, <3>1, <3>4
    <3>6. ~Opened(wr) BY <1>4, <1>8, <3>1 DEF Opened
    <3>7. hst["A"].sent = 1 /\ hst["B"].sent = 0 BY <1>4, <2>1, <3>1, <3>2
    <3> QED BY <3>5, <3>6, <3>7 DEF Tracked
  <2>2. CASE d = "B"
    <3>1. e = "A" /\ h.ack = TRUE /\ host["B"].rcvd > 0 BY <1>1, <1>2, <1>5, <2>2 DEF e
    <3>2. host["A"].sent = 1
      <4>1. host["A"].sent <= 1 BY <1>6, <1>8 DEF Tracked
      <4> QED BY <1>2, <1>3, <2>2, <3>1, <4>1
    <3>3. tcp["A"].state = "SynSent" BY <1>6, <1>8, <3>2 DEF Tracked
    <3>4. OnReceived(tcp["A"], h).state = "SynSent" BY <1>5, <1>7, <3>1, <3>3 DEF OnReceived
    <3>5. tc["A"].state = "SynSent" /\ tc["B"].state = "SynReceived" BY <1>4, <1>9, <2>2, <3>1, <3>4
    <3>6. ~Opened(wr) BY <1>4, <1>8, <2>2 DEF Opened
    <3>7. hst["A"].sent = 1 /\ hst["B"].sent = 1 BY <1>4, <2>2, <3>1, <3>2
    <3> QED BY <3>5, <3>6, <3>7 DEF Tracked
  <2> QED BY <2>1, <2>2 DEF Hosts
<1> QED BY <1>9, <1>10 DEF Follows, n, got

(* What came before the peer's FIN.                                        *)
LEMMA BeforeFin ==
    ASSUME NEW b \in Nat, NEW n \in Nat, NEW to \in Nat, to > 0, NEW got \in Nat, b <= got,
           to = 1 \/ got = Within(n, to)
    PROVE  Max({b, Min({to - 1, n})}) \in Nat /\ Max({b, Min({to - 1, n})}) <= got
<1> DEFINE last == to - 1
           m == Min({last, n})
           k == Max({b, m})
<1>1. last \in Int /\ n \in Int /\ last \in Nat OBVIOUS
<1> HIDE DEF last
<1>2. m \in {last, n} /\ m \in Int /\ m <= last /\ m <= n BY <1>1, MinOfTwo
<1>3. m \in Nat BY <1>1, <1>2
<1> HIDE DEF m
<1>4. k \in {b, m} /\ k \in Nat BY <1>3, MaxOfTwo
<1> HIDE DEF k
<1>5. m <= got
  <2>1. CASE to = 1
    <3>1. last = 0 BY <2>1 DEF last
    <3> QED BY <1>2, <1>3, <3>1
  <2>2. CASE got = Within(n, to)
    <3>1. got = IF last <= n THEN last ELSE n BY <2>2 DEF Within, last
    <3> QED BY <1>1, <1>2, <1>3, <3>1
  <2> QED BY <2>1, <2>2
<1>6. k \in Nat /\ k <= got BY <1>3, <1>4, <1>5
<1> QED BY <1>6 DEF k, m, last

(* A host sends a segment, and the capture shows it.                       *)
LEMMA TransmitLInv ==
    ASSUME CInv, LInv, conn.lossless, ~conn.resend, NEW d \in Hosts, Transmit(d)
    PROVE  LInv'
<1>1. PICK from \in 0 .. AllUnits(d), to \in 0 .. AllUnits(d) :
         LET w == [host |-> d, from |-> from, to |-> to, ack |-> host[d].rcvd]
         IN  /\ MaySend(d, from, to)
             /\ from = to /\ ~conn.resend => \A v \in wire : v.host = d => v.ack < w.ack
             /\ host' = [host EXCEPT ![d].sent = Max({@, to})]
             /\ wire' = wire \cup {w}
             /\ UNCHANGED conn
             /\ IF conn.lossless THEN Captured(w) ELSE UNCHANGED <<tcp, read, before_fin>>
  BY DEF Transmit
<1> DEFINE w == [host |-> d, from |-> from, to |-> to, ack |-> host[d].rcvd]
           top == Max({host[d].sent, to})
<1>2. /\ MaySend(d, from, to) /\ wire' = wire \cup {w} /\ conn' = conn
      /\ host' = [host EXCEPT ![d].sent = top] /\ Captured(w)
      /\ from = to => \A v \in wire : v.host = d => v.ack < w.ack
  BY <1>1
<1>w. w.host = d /\ w.from = from /\ w.to = to /\ w.ack = host[d].rcvd OBVIOUS
<1> HIDE DEF w
<1> DEFINE e == Peer(d)
           n == conn.bytes[d]
           h == HeaderOf(w)
           p == PayloadOf(w)
<1>3. e \in Hosts /\ e # d /\ Peer(e) = d /\ (\A x \in Hosts : x = d \/ x = e)
  BY PeerOf DEF Hosts
<1>4. /\ n \in Nat /\ Units(conn, d) = n + 2 /\ AllUnits(d) = n + 2 /\ host[d].sent \in Nat
      /\ host[d].rcvd \in Nat /\ host[d].acked \in Nat /\ host[d].acked <= host[e].rcvd
      /\ host[d].sent <= n + 2
  BY HostNumbers DEF AllUnits, Bytes
<1>5. host[e].rcvd \in Nat /\ host[e].rcvd <= host[d].sent BY <1>3, HostNumbers
<1>6. from \in Nat /\ to \in Nat /\ to <= n + 2 BY <1>1, <1>4
<1> DEFINE Opening == from = 0 /\ to = 1 /\ (d = "A" <=> host[d].rcvd = 0)
           Going == Connected(d) /\ from <= to /\ from > 0
<1>7. from = host[d].sent /\ (Opening \/ Going)
  <2>1. CASE from = 0 /\ to = 1 /\ (d = "A" <=> host[d].rcvd = 0) /\ (host[d].sent > 0 => conn.resend)
    BY <1>4, <2>1
  <2>2. CASE Connected(d) /\ from \in {host[d].sent} \cup (IF conn.resend THEN {host[d].acked} ELSE {}) /\ from <= to
    <3>1. from = host[d].sent BY <2>2
    <3>2. host[d].acked > 0 BY <2>2 DEF Connected
    <3> QED BY <1>4, <1>5, <2>2, <3>1, <3>2
  <2> QED BY <1>2, <2>1, <2>2 DEF MaySend
<1>8. from <= to /\ (from = 0 => to = 1) /\ to > 0 BY <1>6, <1>7
<1>9. /\ host' \in [Hosts -> [sent : Nat, rcvd : Nat, acked : Nat]]
      /\ \A x \in Hosts : /\ host'[x].acked = host[x].acked
                          /\ host'[x].sent = IF x = d THEN to ELSE host[x].sent
  <2>1. top \in {host[d].sent, to} /\ top >= to BY <1>4, <1>6, MaxOfTwo
  <2> HIDE DEF top
  <2>2. top = to BY <1>6, <1>7, <1>8, <2>1
  <2>3. host \in [Hosts -> [sent : Nat, rcvd : Nat, acked : Nat]] BY DEF CInv, HostsOK
  <2> QED BY <1>2, <1>6, <2>2, <2>3
<1> HIDE DEF top, Opening, Going
<1>10. PayloadFits(p, n, from, to)
  <2>1. p = Payload(n, from, to) BY <1>w DEF PayloadOf, Bytes, Payload
  <2> HIDE DEF p, n
  <2> QED BY <1>4, <1>6, <1>8, <2>1, PayloadIs
<1> DEFINE u == OnSentAll(tcp[d], h, p)
           z == OnReceived(tcp[e], h)
           r == IF HasReadableData(u) THEN Consume(u, Available(u)) ELSE u
           tc == [x \in Hosts |-> IF x = d THEN u ELSE z]
<1>11. Decode(d, h, p) BY <1>2, <1>w DEF Captured
<1>12. DOMAIN tcp = Hosts /\ Levels(conn, host, tcp, read) BY DEF CInv, DirsOK, LInv
<1>13. DOMAIN tcp' = Hosts /\ tcp'[d] = r /\ tcp'[e] = z
  <2>1. tcp' = [tcp EXCEPT ![d] = r, ![e] = z] BY <1>11 DEF Decode
  <2> HIDE DEF r, z, e
  <2> QED BY <1>3, <1>12, <2>1
<1>14. read' = IF HasReadableData(u) THEN [read EXCEPT ![d] = @ \o Peek(u)] ELSE read
  BY <1>11 DEF Decode
<1>15. tc[d] = u /\ tc[e] = z BY <1>3
<1>16. Sends(d, w, host', wire', tc, u)
  <2> HIDE DEF tc
  <2> QED BY <1>2, <1>6, <1>7, <1>9, <1>15, <1>w DEF Sends
<1> HIDE DEF tc, u, z, r, p, h, n, e
<1>17. Follows(d, w, host', wire', tc, u)
  <2>1. CASE Opening
    <3>1. p \in Seq(Nat) /\ Len(p) = 0 BY <1>10, <2>1 DEF PayloadFits, Opening
    <3>2. w.from = 0 /\ w.to = 1 /\ (d = "A" <=> host[d].rcvd = 0) BY <1>w, <2>1 DEF Opening
    <3> QED BY <1>16, <3>1, <3>2, SynSends DEF p
  <2>2. CASE Going
    <3>1. DataSegment(h, p, n, from, to)
      <4>1. /\ h.rst = FALSE /\ h.syn = (w.from = 0) /\ h.ack = (w.ack > 0) /\ h.seq_number = from
            /\ h.fin = (w.from < w.to /\ w.to = n + 2)
            /\ h.fin \in BOOLEAN /\ h.ack \in BOOLEAN /\ h.syn \in BOOLEAN
        BY <1>4, <1>w DEF HeaderOf, h
      <4>2. h.syn = FALSE
        <5>1. ~(w.from = 0) BY <1>6, <1>w, <2>2 DEF Going
        <5>2. ~h.syn BY <4>1, <5>1
        <5> QED BY <4>1, <5>2
      <4>3. h.ack = TRUE
        <5>1. w.ack > 0 BY <1>w, <2>2 DEF Going, Connected
        <5> QED BY <4>1, <5>1
      <4>4. h.fin = (IF from < to /\ to = n + 2 THEN TRUE ELSE FALSE)
        <5>1. h.fin <=> (from < to /\ to = n + 2) BY <1>w, <4>1
        <5> QED BY <4>1, <5>1
      <4>5. p \in Seq(Nat) /\ Len(p) = Within(n, to) - Within(n, from) BY <1>10 DEF PayloadFits
      <4> QED BY <1>6, <1>8, <2>2, <4>1, <4>2, <4>3, <4>4, <4>5 DEF DataSegment, Going
    <3>2. DataSegment(HeaderOf(w), PayloadOf(w), conn.bytes[d], w.from, w.to)
      BY <1>w, <3>1 DEF h, p, n
    <3>3. CASE Opened(wire)
      <4>1. w.from = w.to => \A v \in wire : v.host = d => v.ack < w.ack BY <1>2, <1>w
      <4> QED BY <1>16, <3>2, <3>3, <4>1, OpenSends
    <3>4. CASE ~Opened(wire)
      <4>1. d = "A"
        <5>1. SUFFICES ASSUME d = "B" PROVE FALSE BY DEF Hosts
        <5>2. host[d].acked > 0 BY <2>2 DEF Going, Connected
        <5>3. PICK v \in wire : v.host = Peer(d) /\ v.ack = host[d].acked BY <5>2 DEF LInv, AcksSeen
        <5>4. v.host = "A" BY <5>1, <5>3 DEF Peer
        <5> QED BY <3>4, <5>2, <5>3, <5>4 DEF Opened
      <4>2. Connected("A") BY <2>2, <4>1 DEF Going
      <4> QED BY <1>16, <3>2, <3>4, <4>1, <4>2, OpeningSends
    <3> QED BY <3>3, <3>4
  <2> QED BY <1>7, <2>1, <2>2
<1> DEFINE got == Len(read[d])
           all == IF HasReadableData(u) THEN got + Available(u) ELSE got
<1>18. /\ Level(u, n, to, got) /\ Tracked(conn, host', wire', tc)
       /\ (to = 1 \/ Sent(conn, host, e) \/ HasReadableData(u))
  BY <1>17, <1>w DEF Follows, n, e
<1>19. read \in [Hosts -> Seq(Nat)] /\ read[d] \in Seq(Nat) /\ got \in Nat
  <2>1. read \in [Hosts -> Seq(Nat)] BY <1>12 DEF Levels
  <2>2. read[d] \in Seq(Nat) BY <2>1
  <2> QED BY <2>1, <2>2, LenProperties
<1>20. /\ Level(r, n, to, all) /\ r.state = u.state /\ all \in Nat /\ all >= got
       /\ Peek(u) \in Seq(Nat) /\ Len(Peek(u)) = Available(u)
       /\ HasReadableData(u) => all = Within(n, to)
  <2> DEFINE g == got
             a == all
  <2>1. /\ r = IF HasReadableData(u) THEN Consume(u, Available(u)) ELSE u
        /\ a = IF HasReadableData(u) THEN g + Available(u) ELSE g
        /\ g \in Nat /\ Level(u, n, to, g)
    BY <1>18, <1>19 DEF r
  <2> HIDE DEF g, a
  <2>2. /\ Level(r, n, to, a) /\ r.state = u.state /\ a \in Nat /\ a >= g
        /\ Peek(u) \in Seq(Nat) /\ Len(Peek(u)) = Available(u)
        /\ HasReadableData(u) => a = Within(n, to)
    BY <1>4, <1>6, <2>1, PollLevel
  <2> QED BY <2>2 DEF g, a
<1>21. /\ read' \in [Hosts -> Seq(Nat)] /\ read'[e] = read[e] /\ Len(read'[d]) = all
  <2>1. CASE HasReadableData(u)
    <3> DEFINE s == read[d] \o Peek(u)
    <3>1. s \in Seq(Nat) /\ Len(s) = got + Available(u)
      <4> DEFINE x == read[d]
                 y == Peek(u)
      <4>1. x \in Seq(Nat) /\ y \in Seq(Nat) /\ Len(x) = got /\ Len(y) = Available(u)
        BY <1>19, <1>20
      <4> HIDE DEF x, y, got
      <4>2. x \o y \in Seq(Nat) /\ Len(x \o y) = Len(x) + Len(y) BY <4>1, ConcatProperties
      <4> QED BY <4>1, <4>2 DEF x, y
    <3>2. read' = [read EXCEPT ![d] = s] BY <1>14, <2>1
    <3> HIDE DEF s
    <3>3. read' \in [Hosts -> Seq(Nat)] /\ read'[e] = read[e] /\ read'[d] = s BY <1>3, <1>19, <3>1, <3>2
    <3> QED BY <2>1, <3>1, <3>3
  <2>2. CASE ~HasReadableData(u) BY <1>14, <1>19, <2>2
  <2> QED BY <2>1, <2>2
<1> HIDE DEF all, got
<1>22. Levels(conn, host', tcp', read')
  <2>1. Level(tcp'[d], conn.bytes[d], host'[d].sent, Len(read'[d])) BY <1>9, <1>13, <1>20, <1>21 DEF n
  <2>2. Level(tcp'[e], conn.bytes[e], host'[e].sent, Len(read'[e]))
    <3>1. Level(tcp[e], conn.bytes[e], host[e].sent, Len(read[e])) BY <1>3, <1>12 DEF Levels
    <3>2. Level(z, conn.bytes[e], host[e].sent, Len(read[e])) BY <3>1, ReceivedLevel DEF z
    <3> QED BY <1>3, <1>9, <1>13, <1>21, <3>2
  <2> QED BY <1>3, <1>21, <2>1, <2>2 DEF Levels
<1>23. Tracked(conn, host', wire', tcp')
  <2>1. \A x \in Hosts : tcp'[x].state = tc[x].state BY <1>3, <1>13, <1>15, <1>20
  <2>2. "A" \in Hosts /\ "B" \in Hosts BY DEF Hosts
  <2>3. tcp'["A"].state = tc["A"].state /\ tcp'["B"].state = tc["B"].state BY <2>1, <2>2
  <2> QED BY <1>18, <2>1, <2>3 DEF Tracked
<1>24. AcksSeen(host', wire')
  <2>1. AcksSeen(host, wire) BY DEF LInv
  <2> QED BY <1>2, <1>9, <2>1 DEF AcksSeen
<1>25. FinsWait(read', before_fin')
  <2>1. /\ before_fin \in [Hosts -> Nat] /\ before_fin[d] \in Nat /\ before_fin[d] <= got
        /\ before_fin[e] <= Len(read[e])
    BY <1>3 DEF LInv, FinsWait, got
  <2> DEFINE k == Max({before_fin[d], Min({to - 1, n})})
  <2>2. before_fin' = IF Sent(conn, host, e) THEN before_fin ELSE [before_fin EXCEPT ![d] = k]
    <3>1. FinSent(e) <=> Sent(conn, host, e) BY DEF FinSent, Sent, AllUnits, Bytes, Units
    <3>2. before_fin' = IF FinSent(e) THEN before_fin ELSE [before_fin EXCEPT ![d] = k]
      BY <1>2, <1>w DEF Captured, Bytes, n, e
    <3> QED BY <3>1, <3>2
  <2>3. CASE Sent(conn, host, e)
    <3>1. before_fin' = before_fin BY <2>2, <2>3
    <3>2. before_fin[d] <= all BY <1>19, <1>20, <2>1
    <3> QED BY <1>3, <1>21, <2>1, <3>1, <3>2 DEF FinsWait
  <2>4. CASE ~Sent(conn, host, e)
    <3>1. to = 1 \/ all = Within(n, to) BY <1>18, <1>20, <2>4
    <3>2. before_fin[d] <= all BY <1>19, <1>20, <2>1
    <3> DEFINE b == before_fin[d]
    <3>3. b \in Nat /\ b <= all /\ k = Max({b, Min({to - 1, n})}) BY <2>1, <3>2
    <3> HIDE DEF b, k
    <3>4. Max({b, Min({to - 1, n})}) \in Nat /\ Max({b, Min({to - 1, n})}) <= all
      BY <1>4, <1>6, <1>8, <1>20, <3>1, <3>3, BeforeFin
    <3>5. k \in Nat /\ k <= all BY <3>3, <3>4
    <3>6. before_fin' = [before_fin EXCEPT ![d] = k] BY <2>2, <2>4
    <3>7. before_fin' \in [Hosts -> Nat] /\ before_fin'[d] = k /\ before_fin'[e] = before_fin[e]
      BY <1>3, <2>1, <3>5, <3>6
    <3> QED BY <1>3, <1>21, <2>1, <3>5, <3>7 DEF FinsWait
  <2> QED BY <2>3, <2>4
<1> QED BY <1>2, <1>22, <1>23, <1>24, <1>25 DEF LInv

(* A host gets a segment: only what it knows to be acknowledged matters.   *)
LEMMA DeliverLInv == ASSUME CInv, LInv, NEW d \in Hosts, Deliver(d) PROVE LInv'
<1>1. PICK w \in wire :
        /\ w.host = Peer(d)
        /\ host' = [host EXCEPT ![d].rcvd = Max({@, w.to}), ![d].acked = Max({@, w.ack})]
        /\ UNCHANGED <<conn, wire, tcp, read, before_fin>>
  BY DEF Deliver
<1> DEFINE r == Max({host[d].rcvd, w.to})
           a == Max({host[d].acked, w.ack})
           one == [host EXCEPT ![d].rcvd = r]
<1>2. host \in [Hosts -> [sent : Nat, rcvd : Nat, acked : Nat]] BY DEF CInv, HostsOK
<1>3. /\ host' = [one EXCEPT ![d].acked = a] /\ conn' = conn /\ wire' = wire /\ tcp' = tcp
      /\ read' = read /\ before_fin' = before_fin
  BY <1>1, <1>2
<1>4. w.to \in Nat /\ w.ack \in Nat BY DEF CInv, HostsOK, SegmentOK
<1>5. host[d].rcvd \in Nat /\ host[d].acked \in Nat BY HostNumbers
<1>6. a \in {host[d].acked, w.ack} BY <1>4, <1>5, MaxOfTwo
<1> HIDE DEF r, a
<1>7. \A x \in Hosts : host'[x].sent = host[x].sent /\ host'[x].acked = IF x = d THEN a ELSE host[x].acked
  <2>1. /\ DOMAIN one = Hosts
        /\ \A x \in Hosts : /\ one[x].sent = host[x].sent /\ one[x].acked = host[x].acked
                            /\ DOMAIN one[x] = {"sent", "rcvd", "acked"}
    BY <1>2
  <2> HIDE DEF one
  <2> QED BY <1>3, <2>1
<1>8. SUFFICES ASSUME conn.lossless
      PROVE  /\ Levels(conn, host', tcp, read) /\ Tracked(conn, host', wire, tcp)
             /\ AcksSeen(host', wire) /\ FinsWait(read, before_fin)
  BY <1>3 DEF LInv
<1>9. /\ Levels(conn, host, tcp, read) /\ Tracked(conn, host, wire, tcp)
      /\ AcksSeen(host, wire) /\ FinsWait(read, before_fin)
  BY <1>8 DEF LInv
<1>10. Levels(conn, host', tcp, read) BY <1>7, <1>9 DEF Levels
<1>11. Tracked(conn, host', wire, tcp)
  <2>1. "A" \in Hosts /\ "B" \in Hosts BY DEF Hosts
  <2>2. host'["A"].sent = host["A"].sent /\ host'["B"].sent = host["B"].sent BY <1>7, <2>1
  <2>3. \A x \in Hosts : Sent(conn, host', x) <=> Sent(conn, host, x) BY <1>7 DEF Sent
  <2>4. \A x \in Hosts : Peer(x) \in Hosts BY PeerOf
  <2>5. ASSUME NEW x \in Hosts, Opened(wire)
        PROVE  tcp[x].state \in StatesAt(Sent(conn, host', x), Sent(conn, host', Peer(x)), FinAcked(conn, wire, x))
    <3>1. tcp[x].state \in StatesAt(Sent(conn, host, x), Sent(conn, host, Peer(x)), FinAcked(conn, wire, x))
      BY <1>9, <2>5 DEF Tracked
    <3> QED BY <2>3, <2>4, <3>1 DEF StatesAt
  <2> QED BY <1>9, <2>2, <2>5 DEF Tracked
<1>12. AcksSeen(host', wire)
  <2>1. SUFFICES ASSUME NEW x \in Hosts, host'[x].acked > 0
        PROVE  \E v \in wire : v.host = Peer(x) /\ v.ack = host'[x].acked
    BY DEF AcksSeen
  <2>2. CASE host'[x].acked = host[x].acked BY <1>9, <2>1, <2>2 DEF AcksSeen
  <2>3. CASE x = d /\ host'[x].acked = w.ack BY <1>1, <2>3
  <2> QED BY <1>6, <1>7, <2>2, <2>3
<1> QED BY <1>9, <1>10, <1>11, <1>12

(* Every step keeps LInv, when a lossless capture has no segment twice.    *)
LEMMA StepLInv ==
    ASSUME \A c \in Connections : c.lossless => ~c.resend
    PROVE  CInv /\ LInv /\ [Next]_vars => LInv'
<1>1. SUFFICES ASSUME CInv, LInv, [Next]_vars PROVE LInv' OBVIOUS
<1>2. CASE Capture
  <2>1. ~conn.lossless /\ conn' = conn BY <1>2 DEF Capture
  <2> QED BY <2>1 DEF LInv
<1>3. ASSUME NEW d \in Hosts, Transmit(d) PROVE LInv'
  <2>1. CASE conn.lossless
    <3>1. ~conn.resend BY <1>1, <2>1 DEF CInv
    <3> QED BY <1>1, <1>3, <2>1, <3>1, TransmitLInv
  <2>2. CASE ~conn.lossless
    <3>1. conn' = conn BY <1>3 DEF Transmit
    <3> QED BY <2>2, <3>1 DEF LInv
  <2> QED BY <2>1, <2>2
<1>4. ASSUME NEW d \in Hosts, Deliver(d) PROVE LInv' BY <1>1, <1>4, DeliverLInv
<1>5. CASE UNCHANGED vars
  BY <1>1, <1>5 DEF LInv, vars, Levels, Tracked, AcksSeen, FinsWait, Opened, FinAcked, Sent, Units
<1> QED BY <1>1, <1>2, <1>3, <1>4, <1>5 DEF Next

(* For every connection whose capture shows each segment once, as it is    *)
(* sent, and whatever the lengths of its two streams, whoever closes first *)
(* and however the segments cross: once both hosts know that their FIN was *)
(* acknowledged, onSent and onReceived have taken both directions to       *)
(* TimeWait or Closed.  Without the assumption it is false: a host that    *)
(* sends its last acknowledgement again finds its peer in Closed, and      *)
(* onReceived opens the direction again (the run TcpReopened).             *)
THEOREM BothSidesEndClosed ==
    ASSUME \A c \in Connections : c.lossless => ~c.resend
    PROVE  Spec => []EndsClosed
<1>1. CInv /\ LInv => EndsClosed
  <2>1. SUFFICES ASSUME CInv, LInv, conn.lossless, HostsDone, NEW d \in Hosts
        PROVE  tcp[d].state \in {"TimeWait", "Closed"}
    BY DEF EndsClosed
  <2>2. ASSUME NEW x \in Hosts PROVE FinAcked(conn, wire, x) /\ Sent(conn, host, x)
    <3>1. host[x].acked = Units(conn, x) BY <2>1 DEF HostsDone, AllUnits, Bytes, Units
    <3>2. Units(conn, x) = conn.bytes[x] + 2 /\ conn.bytes[x] \in Nat BY <2>1, HostNumbers
    <3>3. host[x].acked > 0 BY <3>1, <3>2
    <3>4. \E v \in wire : v.host = Peer(x) /\ v.ack = host[x].acked BY <2>1, <3>3 DEF LInv, AcksSeen
    <3>5. FinAcked(conn, wire, x) BY <3>1, <3>4 DEF FinAcked
    <3> QED BY <2>1, <3>5, AckedIsSent DEF Sent
  <2>3. Opened(wire)
    <3>1. "B" \in Hosts /\ Peer("B") = "A" BY DEF Hosts, Peer
    <3>2. PICK v \in wire : v.host = "A" /\ v.ack = Units(conn, "B") BY <2>2, <3>1 DEF FinAcked
    <3>3. Units(conn, "B") = conn.bytes["B"] + 2 /\ conn.bytes["B"] \in Nat BY <2>1, <3>1, HostNumbers
    <3>4. v.ack > 0 BY <3>2, <3>3
    <3> QED BY <3>2, <3>4 DEF Opened
  <2>4. tcp[d].state \in StatesAt(Sent(conn, host, d), Sent(conn, host, Peer(d)), FinAcked(conn, wire, d))
    BY <2>1, <2>3 DEF LInv, Tracked
  <2>5. Peer(d) \in Hosts BY PeerOf
  <2> QED BY <2>2, <2>4, <2>5 DEF StatesAt
<1>2. CInv /\ LInv /\ [Next]_vars => LInv' BY StepLInv
<1> QED BY <1>1, <1>2, InitCInv, StepCInv, InitLInv, PTL DEF Spec

(* On the same captures every byte captured before the other side's FIN has*)
(* been handed to the application decoder, those of a segment that carries *)
(* the host's own FIN included: onSent moves the direction only to states  *)
(* in which hasReadableData still holds, until the peer's FIN is seen.     *)
THEOREM BytesBeforeFinAreRead ==
    ASSUME \A c \in Connections : c.lossless => ~c.resend
    PROVE  Spec => []DataBeforeFinIsRead
<1>1. CInv /\ LInv => DataBeforeFinIsRead
  <2>1. SUFFICES ASSUME CInv, LInv, conn.lossless, NEW d \in Hosts
        PROVE  Len(read[d]) >= before_fin[d]
    BY DEF DataBeforeFinIsRead
  <2>2. before_fin[d] \in Nat /\ before_fin[d] <= Len(read[d]) BY <2>1 DEF LInv, FinsWait
  <2>3. read[d] \in Seq(Nat) BY <2>1 DEF LInv, Levels
  <2>4. Len(read[d]) \in Nat BY <2>3, LenProperties
  <2> QED BY <2>2, <2>4
<1>2. CInv /\ LInv /\ [Next]_vars => LInv' BY StepLInv
<1> QED BY <1>1, <1>2, InitCInv, StepCInv, InitLInv, PTL DEF Spec

=============================================================================
