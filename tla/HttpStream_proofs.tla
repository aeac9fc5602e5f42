-------------------------- MODULE HttpStream_proofs --------------------------
(***************************************************************************)
(* What holds of pollStream on HTTP for every conversation, however it is  *)
(* cut: nothing is consumed before it arrived, http_chunk_prefix is within *)
(* the message it belongs to when it is used, and messages are recorded in *)
(* order, once each, at a header.  And for every conversation that takes   *)
(* turns: the sound messages consumed are exactly the ones recorded.       *)
(***************************************************************************)
EXTENDS HttpStream, SequenceTheorems, WellFoundedInduction, TLAPS

-----------------------------------------------------------------------------
(* Least and greatest numbers                                              *)

(* A set of numbers has a least one.                                       *)
LEMMA LeastOf ==
    ASSUME NEW T \in SUBSET Nat, T # {}
    PROVE  \E t \in T : \A y \in T : t <= y
<1>1. PICK t \in T : \A y \in T : ~(<<y, t>> \in OpToRel(<, Nat))
  BY NatLessThanWellFounded, WFMin, Zenon
<1>2. \A a, b \in Nat : a < b => <<a, b>> \in OpToRel(<, Nat) BY DEF OpToRel
<1>3. \A y \in T : ~(y < t) BY <1>1, <1>2
<1>4. \A y \in T : t <= y BY <1>3
<1> QED BY <1>4

(* Min of numbers is one of them.                                          *)
LEMMA MinIn == ASSUME NEW T \in SUBSET Nat, T # {} PROVE Min(T) \in T
<1>1. \E t \in T : \A y \in T : t <= y BY LeastOf
<1> QED BY <1>1 DEF Min

(* The smaller of two.                                                     *)
LEMMA MinOfTwo ==
    ASSUME NEW a \in Nat, NEW b \in Nat
    PROVE  Min({a, b}) \in Nat /\ Min({a, b}) <= a /\ Min({a, b}) <= b /\ Min({a, b}) \in {a, b}
<1>1. CASE a <= b
  <2>1. a \in {a, b} /\ \A y \in {a, b} : a <= y BY <1>1
  <2>2. Min({a, b}) \in {a, b} /\ \A y \in {a, b} : Min({a, b}) <= y BY <2>1 DEF Min
  <2> QED BY <2>2
<1>2. CASE b <= a
  <2>1. b \in {a, b} /\ \A y \in {a, b} : b <= y BY <1>2
  <2>2. Min({a, b}) \in {a, b} /\ \A y \in {a, b} : Min({a, b}) <= y BY <2>1 DEF Min
  <2> QED BY <2>2
<1> QED BY <1>1, <1>2

(* The greater of a number and zero.                                       *)
LEMMA MaxOfZero ==
    ASSUME NEW a \in Int
    PROVE  Max({a, 0}) \in Nat /\ (a >= 0 => Max({a, 0}) = a) /\ (a < 0 => Max({a, 0}) = 0)
<1>1. CASE a >= 0
  <2>1. a \in {a, 0} /\ \A y \in {a, 0} : a >= y BY <1>1
  <2>2. Max({a, 0}) \in {a, 0} /\ \A y \in {a, 0} : Max({a, 0}) >= y BY <2>1 DEF Max
  <2>3. Max({a, 0}) >= a /\ Max({a, 0}) >= 0 BY <2>2
  <2> QED BY <1>1, <2>2, <2>3
<1>2. CASE a < 0
  <2>1. 0 \in {a, 0} /\ \A y \in {a, 0} : 0 >= y BY <1>2
  <2>2. Max({a, 0}) \in {a, 0} /\ \A y \in {a, 0} : Max({a, 0}) >= y BY <2>1 DEF Max
  <2>3. Max({a, 0}) >= 0 BY <2>2
  <2> QED BY <1>2, <2>2, <2>3
<1> QED BY <1>1, <1>2

(* Max of a set that holds 0 and has a bound is in it.                     *)
LEMMA MaxIn ==
    ASSUME NEW n \in Nat, NEW S \in SUBSET (0 .. n), 0 \in S
    PROVE  Max(S) \in S
<1> DEFINE T == {n - y : y \in S}
<1>1. T \in SUBSET Nat /\ T # {} OBVIOUS
<1>2. PICK t \in T : \A y \in T : t <= y
  <2> HIDE DEF T
  <2> QED BY <1>1, LeastOf
<1>3. PICK x \in S : t = n - x OBVIOUS
<1>4. \A y \in S : x >= y
  <2> SUFFICES ASSUME NEW y \in S PROVE x >= y OBVIOUS
  <2>1. n - y \in T OBVIOUS
  <2>2. n - x <= n - y BY <1>2, <1>3, <2>1
  <2>3. x \in 0 .. n /\ y \in 0 .. n OBVIOUS
  <2> HIDE DEF T
  <2> QED BY <2>2, <2>3
<1> HIDE DEF T
<1> QED BY <1>4 DEF Max

-----------------------------------------------------------------------------
(* The invariant                                                           *)

(* Messages are recorded in order, once each, where a header starts in     *)
(* what was consumed.                                                      *)
InOrder(msgs, s, p) ==
    \A i \in 1 .. Len(msgs) :
       /\ msgs[i] \in 1 .. p /\ s[msgs[i]].t = "head"
       /\ \A j \in 1 .. i - 1 : msgs[j] < msgs[i]

(* The progress through chunks is that of the message at the front; or the *)
(* message was consumed as the answer to a HEAD and its first chunk is at  *)
(* the front, which no parse takes for a header.                           *)
InChunks(prefix, s, p, n) ==
    /\ p + 2 + prefix <= n
    /\ s[p + 1].t = "head" /\ s[p + 1].chunked
    /\ s[p + 3].t = "size" /\ s[p + 2 + prefix].t = "data"
AtChunk(s, p, n) == p + 1 <= n /\ s[p + 1].t = "size"

PrefixOK(a, s, p, n) ==
    a.http_chunk_prefix > 0 =>
       /\ a.http_skip = 0 /\ ~a.http_body_until_close
       /\ InChunks(a.http_chunk_prefix, s, p, n) \/ AtChunk(s, p, n)

(* A direction with Applications a, stream s, p units consumed of n.       *)
DirOK(a, s, p, n) ==
    /\ a \in Applications /\ s \in Seq(Units)
    /\ n \in Nat /\ p \in Nat /\ p <= n /\ n <= Len(s)
    /\ InOrder(a.http_messages, s, p) /\ PrefixOK(a, s, p, n)

HInv == /\ polling \in Dirs \cup {"none"}
        /\ stream \in [Dirs -> Seq(Units)]
        /\ arrived \in [Dirs -> Nat] /\ pos \in [Dirs -> Nat] /\ app \in [Dirs -> Applications]
        /\ \A d \in Dirs : DirOK(app[d], stream[d], pos[d], arrived[d])

(* A direction as the lemmas use it.                                       *)
LEMMA Facts ==
    ASSUME HInv, NEW d \in Dirs
    PROVE  /\ app[d] \in Applications /\ stream[d] \in Seq(Units) /\ Len(stream[d]) \in Nat
           /\ arrived[d] \in Nat /\ pos[d] \in Nat /\ pos[d] <= arrived[d]
           /\ arrived[d] <= Len(stream[d]) /\ Avail(d) \in Nat /\ Avail(d) = arrived[d] - pos[d]
           /\ \A i \in 1 .. Avail(d) : Ahead(d, i) \in Units
           /\ Peer(d) \in Dirs /\ Peer(d) # d /\ \A e \in Dirs : e = d \/ e = Peer(d)
<1>1. DirOK(app[d], stream[d], pos[d], arrived[d]) BY DEF HInv
<1>2. /\ app[d] \in Applications /\ stream[d] \in Seq(Units)
      /\ arrived[d] \in Nat /\ pos[d] \in Nat /\ pos[d] <= arrived[d]
      /\ arrived[d] <= Len(stream[d])
  BY <1>1 DEF DirOK
<1>3. Len(stream[d]) \in Nat /\ stream[d] \in [1 .. Len(stream[d]) -> Units]
  BY <1>2, LenProperties
<1>4. Avail(d) = arrived[d] - pos[d] /\ Avail(d) \in Nat BY <1>2 DEF Avail
<1>5. \A i \in 1 .. Avail(d) : pos[d] + i \in 1 .. Len(stream[d]) BY <1>2, <1>3, <1>4
<1>6. \A i \in 1 .. Avail(d) : Ahead(d, i) \in Units BY <1>3, <1>5 DEF Ahead
<1>7. Peer(d) \in Dirs /\ Peer(d) # d /\ \A e \in Dirs : e = d \/ e = Peer(d)
  BY DEF Peer, Dirs
<1> QED BY <1>2, <1>3, <1>4, <1>6, <1>7

(* What a turn of the loop has to keep.                                    *)
LEMMA TurnKeeps ==
    ASSUME HInv, NEW d \in Dirs, NEW apps \in [Dirs -> Applications], NEW eat \in Nat,
           NEW go \in BOOLEAN, Turn(d, apps, eat, go),
           DirOK(apps[d], stream[d], pos[d] + eat, arrived[d]),
           DirOK(apps[Peer(d)], stream[Peer(d)], pos[Peer(d)], arrived[Peer(d)])
    PROVE  HInv'
<1>1. /\ app' = apps /\ pos' = [pos EXCEPT ![d] = @ + eat]
      /\ polling' = (IF go THEN d ELSE "none") /\ stream' = stream /\ arrived' = arrived
  BY DEF Turn
<1>2. pos[d] \in Nat /\ pos \in [Dirs -> Nat] BY DEF HInv
<1>3. pos' \in [Dirs -> Nat] /\ pos'[d] = pos[d] + eat /\ \A e \in Dirs : e # d => pos'[e] = pos[e]
  BY <1>1, <1>2
<1>4. polling' \in Dirs \cup {"none"} BY <1>1
<1>5. ASSUME NEW e \in Dirs PROVE DirOK(app'[e], stream'[e], pos'[e], arrived'[e])
  <2>1. CASE e = d BY <1>1, <1>3, <2>1
  <2>2. CASE e # d
    <3>1. e = Peer(d) BY <2>2, Facts
    <3> QED BY <1>1, <1>3, <2>2, <3>1
  <2> QED BY <2>1, <2>2
<1> QED BY <1>1, <1>3, <1>4, <1>5 DEF HInv

(* A turn that writes only its own Applications.                           *)
LEMMA OwnTurn ==
    ASSUME HInv, NEW d \in Dirs, NEW v, NEW apps, apps = [app EXCEPT ![d] = v], NEW eat \in Nat,
           NEW go \in BOOLEAN, Turn(d, apps, eat, go),
           DirOK(v, stream[d], pos[d] + eat, arrived[d])
    PROVE  HInv'
<1>1. v \in Applications BY DEF DirOK
<1>2. apps \in [Dirs -> Applications] /\ apps[d] = v /\ \A e \in Dirs : e # d => apps[e] = app[e]
  BY <1>1 DEF HInv
<1>3. Peer(d) \in Dirs /\ Peer(d) # d BY Facts
<1>4. DirOK(apps[Peer(d)], stream[Peer(d)], pos[Peer(d)], arrived[Peer(d)])
  BY <1>2, <1>3 DEF HInv
<1> QED BY <1>2, <1>4, TurnKeeps

(* A turn that first takes an entry off the peer's queue.                  *)
LEMMA PoppedTurn ==
    ASSUME HInv, NEW d \in Dirs, NEW h, NEW v, NEW popped, popped = AfterPop(d, h),
           NEW apps, apps = [popped EXCEPT ![d] = v],
           NEW eat \in Nat, NEW go \in BOOLEAN, Turn(d, apps, eat, go),
           DirOK(v, stream[d], pos[d] + eat, arrived[d])
    PROVE  HInv'
<1> DEFINE e == Peer(d)
           q == app[e].pending_head_requests
           w == [app[e] EXCEPT !.pending_head_requests = Tail(q)]
<1>1. v \in Applications BY DEF DirOK
<1>2. e \in Dirs /\ e # d BY Facts
<1>3. DirOK(app[e], stream[e], pos[e], arrived[e]) /\ app \in [Dirs -> Applications] BY <1>2 DEF HInv
<1>4. CASE Pops(d, h)
  <2>1. q \in Seq(BOOLEAN) BY <1>3 DEF DirOK, Applications
  <2>2. q # <<>> BY <1>4 DEF Pops
  <2>3. Tail(q) \in Seq(BOOLEAN)
    <3> HIDE DEF q
    <3> QED BY <2>1, <2>2, HeadTailProperties
  <2>4. popped = [app EXCEPT ![e] = w]
    <3>1. popped = [app EXCEPT ![e].pending_head_requests = Tail(@)] BY <1>4 DEF AfterPop
    <3> HIDE DEF e
    <3> QED BY <1>2, <1>3, <3>1 DEF Applications
  <2>5. /\ w \in Applications /\ w.http_messages = app[e].http_messages
        /\ w.http_chunk_prefix = app[e].http_chunk_prefix /\ w.http_skip = app[e].http_skip
        /\ w.http_body_until_close = app[e].http_body_until_close
    <3>1. app[e] \in Applications BY <1>3 DEF DirOK
    <3> HIDE DEF e, q
    <3> QED BY <2>3, <3>1 DEF Applications
  <2> HIDE DEF w
  <2>6. DirOK(w, stream[e], pos[e], arrived[e]) BY <1>3, <2>5 DEF DirOK, PrefixOK
  <2>7. apps \in [Dirs -> Applications] /\ apps[d] = v /\ apps[e] = w
    <3> HIDE DEF e
    <3> QED BY <1>1, <1>2, <1>3, <2>4, <2>5
  <2> QED BY <2>6, <2>7, TurnKeeps
<1>5. CASE ~Pops(d, h)
  <2>1. popped = app BY <1>5 DEF AfterPop
  <2> QED BY <2>1, OwnTurn
<1> QED BY <1>4, <1>5

-----------------------------------------------------------------------------
(* The parsers                                                             *)

(* http::parse succeeds only at a header that is all there.                *)
LEMMA ParsedHead ==
    ASSUME HInv, NEW d \in Dirs, ParseResult(d) = "None"
    PROVE  /\ Avail(d) >= 2 /\ Ahead(d, 1) \in Heads /\ Ahead(d, 1).t = "head"
           /\ Ahead(d, 1) = stream[d][pos[d] + 1]
<1> DEFINE window == Min({Avail(d), MAX_HTTP_HEADER_BYTES})
<1>1. Avail(d) \in Nat /\ MAX_HTTP_HEADER_BYTES \in Nat BY Facts, HttpAssumption
<1>2. window \in Nat /\ window <= Avail(d) BY <1>1, MinOfTwo
<1>3. Ahead(d, 1).t = "head" /\ ~(window < 2)
  <2> HIDE DEF window
  <2>1. ParseResult(d) = (IF ~\E i \in 1 .. window : HasLine(Ahead(d, i)) THEN "UnexpectedEof"
                          ELSE IF Ahead(d, 1).t # "head" THEN "MalformedHeader"
                          ELSE IF window < HeadUnits THEN "UnexpectedEof" ELSE "None")
    BY DEF ParseResult, window
  <2> QED BY <2>1 DEF HeadUnits
<1>4. Avail(d) >= 2
  <2> HIDE DEF window
  <2> QED BY <1>1, <1>2, <1>3
<1>5. Ahead(d, 1) \in Units
  <2>1. 1 \in 1 .. Avail(d) BY <1>1, <1>4
  <2> QED BY <2>1, Facts
<1>6. Ahead(d, 1) \in Heads BY <1>3, <1>5 DEF Units
<1> QED BY <1>3, <1>4, <1>6 DEF Ahead

(* At a chunk's size line it does not, nor does it wait for more.          *)
LEMMA ChunkRefused ==
    ASSUME HInv, NEW d \in Dirs, AtChunk(stream[d], pos[d], arrived[d])
    PROVE  /\ ParseResult(d) # "None"
           /\ ParseResult(d) = "UnexpectedEof" => Avail(d) > MAX_HTTP_HEADER_BYTES
<1> DEFINE window == Min({Avail(d), MAX_HTTP_HEADER_BYTES})
<1>1. Avail(d) \in Nat /\ MAX_HTTP_HEADER_BYTES \in Nat /\ Avail(d) = arrived[d] - pos[d]
      /\ arrived[d] \in Nat /\ pos[d] \in Nat
  BY Facts, HttpAssumption
<1>2. Ahead(d, 1).t = "size" /\ Avail(d) >= 1 BY <1>1 DEF AtChunk, Ahead
<1>3. window \in {Avail(d), MAX_HTTP_HEADER_BYTES} /\ window \in Nat BY <1>1, MinOfTwo
<1> HIDE DEF window
<1>4. ParseResult(d) = (IF ~\E i \in 1 .. window : HasLine(Ahead(d, i)) THEN "UnexpectedEof"
                        ELSE IF Ahead(d, 1).t # "head" THEN "MalformedHeader"
                        ELSE IF window < HeadUnits THEN "UnexpectedEof" ELSE "None")
  BY DEF ParseResult, window
<1>5. ParseResult(d) # "None" BY <1>2, <1>4
<1>6. CASE window >= 1
  <2>1. 1 \in 1 .. window /\ HasLine(Ahead(d, 1)) BY <1>2, <1>3, <1>6 DEF HasLine
  <2>2. ParseResult(d) = "MalformedHeader" BY <1>2, <1>4, <2>1
  <2> QED BY <2>2
<1>7. CASE window = 0 BY <1>1, <1>2, <1>3, <1>5, <1>7
<1> QED BY <1>3, <1>6, <1>7

(* So the progress through chunks is that of the header's own body.        *)
LEMMA PrefixAtHead ==
    ASSUME HInv, NEW d \in Dirs, ParseResult(d) = "None", app[d].http_chunk_prefix > 0
    PROVE  InChunks(app[d].http_chunk_prefix, stream[d], pos[d], arrived[d])
<1>1. PrefixOK(app[d], stream[d], pos[d], arrived[d]) BY DEF HInv, DirOK
<1>2. ~AtChunk(stream[d], pos[d], arrived[d]) BY ChunkRefused
<1> QED BY <1>1, <1>2 DEF PrefixOK

(* parseChunkedBody goes over whole chunks that are there.                 *)
LEMMA ChunksAre ==
    ASSUME HInv, NEW d \in Dirs, NEW skip \in Nat, HeadUnits + skip <= Avail(d)
    PROVE  /\ ChunksFrom(d, skip) \in Nat
           /\ HeadUnits + skip + 2 * ChunksFrom(d, skip) <= Avail(d)
           /\ \A i \in 1 .. ChunksFrom(d, skip) :
                 /\ Ahead(d, HeadUnits + skip + 2 * i - 1).t = "size"
                 /\ Ahead(d, HeadUnits + skip + 2 * i).t = "data"
<1> DEFINE from == HeadUnits + skip
           m == (Avail(d) - from) \div 2
           P(n) == \A i \in 1 .. n : /\ Ahead(d, from + 2 * i - 1).t = "size"
                                     /\ Ahead(d, from + 2 * i).t = "data"
           S == {n \in 0 .. m : P(n)}
<1>1. Avail(d) \in Nat /\ from \in Nat /\ from <= Avail(d) BY Facts DEF HeadUnits
<1>2. m \in Nat /\ from + 2 * m <= Avail(d)
  <2> HIDE DEF from
  <2> QED BY <1>1
<1>3. P(0) OBVIOUS
<1>4. S \in SUBSET (0 .. m) /\ 0 \in S
  <2> HIDE DEF m, P
  <2> QED BY <1>2, <1>3
<1>5. ChunksFrom(d, skip) = Max(S) BY DEF ChunksFrom
<1>6. Max(S) \in S
  <2> HIDE DEF m, S
  <2> QED BY <1>2, <1>4, MaxIn
<1>7. ChunksFrom(d, skip) \in 0 .. m /\ P(ChunksFrom(d, skip))
  <2> HIDE DEF m, P
  <2> QED BY <1>5, <1>6
<1>8. from + 2 * ChunksFrom(d, skip) <= Avail(d) /\ ChunksFrom(d, skip) \in Nat
  <2> HIDE DEF m, from, P
  <2> QED BY <1>1, <1>2, <1>7
<1> QED BY <1>7, <1>8

(* The body that is consumed is there.                                     *)
LEMMA BodyIsThere ==
    ASSUME HInv, NEW d \in Dirs, ParseResult(d) = "None",
           NEW h, h = Ahead(d, 1), NEW n, n = BodyUnits(d, h)
    PROVE  /\ n \in Nat => HeadUnits + n <= Avail(d)
           /\ n \in Nat \cup {-1, -2}
           /\ n = -1 /\ ~h.chunked => h.length > Avail(d) - HeadUnits /\ h.length \in Nat
           /\ n # 0 /\ h.chunked => ~NoBody(d, h) /\ n = ChunkedUnits(d, app[d].http_chunk_prefix)
<1> DEFINE skip == app[d].http_chunk_prefix
           chunks == ChunksFrom(d, skip)
           from == HeadUnits + skip + 2 * chunks
<1>1. Avail(d) \in Nat /\ Avail(d) >= 2 /\ h \in Heads BY Facts, ParsedHead
<1>2. h.length \in Nat \cup {-1} BY <1>1 DEF Heads
<1>3. skip \in Nat BY Facts DEF Applications
<1>4. HeadUnits + skip <= Avail(d)
  <2>1. CASE skip = 0 BY <1>1, <2>1 DEF HeadUnits
  <2>2. CASE skip > 0
    <3>1. pos[d] + 2 + skip <= arrived[d] BY <2>2, PrefixAtHead DEF InChunks
    <3>2. Avail(d) = arrived[d] - pos[d] /\ arrived[d] \in Nat /\ pos[d] \in Nat BY Facts
    <3> HIDE DEF skip
    <3> QED BY <1>3, <3>1, <3>2 DEF HeadUnits
  <2> HIDE DEF skip
  <2> QED BY <1>3, <2>1, <2>2
<1>5. chunks \in Nat /\ from <= Avail(d) /\ from \in Nat
  <2>1. chunks \in Nat /\ from <= Avail(d)
    <3> HIDE DEF skip
    <3> QED BY <1>3, <1>4, ChunksAre
  <2> HIDE DEF chunks, skip
  <2> QED BY <1>3, <2>1 DEF HeadUnits
<1> HIDE DEF skip, chunks
<1>6. ChunkedResult(d, skip) = "None" => from + 1 <= Avail(d)
  <2>1. ChunkedResult(d, skip) = (IF ~\E i \in from + 1 .. Avail(d) : HasLine(Ahead(d, i)) THEN "UnexpectedEof"
          ELSE IF Ahead(d, from + 1).t = "last" THEN "None"
          ELSE IF Ahead(d, from + 1).t = "size" /\ Avail(d) = from + 1 THEN "UnexpectedEof"
          ELSE "MalformedHeader")
    BY DEF ChunkedResult, chunks
  <2> HIDE DEF from
  <2>2. ChunkedResult(d, skip) = "None" => \E i \in from + 1 .. Avail(d) : HasLine(Ahead(d, i))
    BY <2>1
  <2> QED BY <1>1, <1>5, <2>2
<1>7. /\ ChunkedResult(d, skip) = "None" => ChunkedUnits(d, skip) = skip + 2 * chunks + 1
      /\ ChunkedResult(d, skip) \in {"None", "UnexpectedEof", "MalformedHeader"}
      /\ ChunkedResult(d, skip) = "UnexpectedEof" => ChunkedUnits(d, skip) = -1
      /\ ChunkedResult(d, skip) = "MalformedHeader" => ChunkedUnits(d, skip) = -2
  <2>1. ChunkedResult(d, skip) \in {"None", "UnexpectedEof", "MalformedHeader"}
    BY DEF ChunkedResult
  <2> QED BY <2>1 DEF ChunkedUnits, chunks
<1>8. CASE NoBody(d, h)
  <2>1. n = 0 BY <1>8 DEF BodyUnits
  <2> QED BY <1>1, <2>1 DEF HeadUnits
<1>9. CASE ~NoBody(d, h) /\ h.chunked
  <2>1. n = ChunkedUnits(d, skip) BY <1>9 DEF BodyUnits, skip
  <2>2. CASE ChunkedResult(d, skip) = "None"
    <3>1. n = skip + 2 * chunks + 1 /\ HeadUnits + skip + 2 * chunks + 1 <= Avail(d)
      BY <1>6, <1>7, <2>1, <2>2
    <3>2. n \in Nat /\ HeadUnits + n <= Avail(d) BY <1>1, <1>3, <1>5, <3>1 DEF HeadUnits
    <3> QED BY <1>9, <2>1, <3>2 DEF skip
  <2>3. CASE ChunkedResult(d, skip) # "None"
    <3>1. n \in {-1, -2} BY <1>7, <2>1, <2>3
    <3> QED BY <1>9, <2>1, <3>1 DEF skip
  <2> QED BY <2>2, <2>3
<1>10. CASE ~NoBody(d, h) /\ ~h.chunked
  <2>1. n = (IF h.length > Avail(d) - HeadUnits THEN -1 ELSE Max({h.length, 0}))
    BY <1>10 DEF BodyUnits
  <2>2. CASE h.length > Avail(d) - HeadUnits
    <3>1. n = -1 /\ h.length \in Nat BY <1>1, <1>2, <2>1, <2>2 DEF HeadUnits
    <3> QED BY <1>10, <2>2, <3>1
  <2>3. CASE ~(h.length > Avail(d) - HeadUnits)
    <3>1. n \in Nat /\ HeadUnits + n <= Avail(d)
      <4>1. n = Max({h.length, 0}) BY <2>1, <2>3
      <4>2. n \in Nat /\ (h.length >= 0 => n = h.length) /\ (h.length < 0 => n = 0)
        BY <1>2, <4>1, MaxOfZero
      <4> QED BY <1>1, <1>2, <2>3, <4>2 DEF HeadUnits
    <3> QED BY <1>10, <3>1
  <2> QED BY <2>2, <2>3
<1> QED BY <1>8, <1>9, <1>10

(* resyncHttp consumes what is there at most and forgets the progress      *)
(* through chunks.                                                         *)
LEMMA ResyncIs ==
    ASSUME HInv, NEW d \in Dirs, NEW a \in Applications, NEW r, r = ResyncHttp(d, a)
    PROVE  /\ r.eat \in Nat /\ r.eat <= Avail(d) /\ r.go \in BOOLEAN
           /\ r.app \in Applications /\ r.app.http_chunk_prefix = 0
           /\ r.app.http_messages = a.http_messages
<1> DEFINE at == FindHttpResync(d)
           clear == [a EXCEPT !.http_chunk_prefix = 0, !.http_body_until_close = FALSE]
           once  == [clear EXCEPT !.decode_failures = @ + 1]
           found == [clear EXCEPT !.decode_failures = @ + 1, !.http_resync_scanned = 0]
           wait  == [clear EXCEPT !.http_resync_scanned = Max({Avail(d) - 1, 0})]
<1>1. Avail(d) \in Nat BY Facts
<1>2. at \in Nat /\ at <= Avail(d)
  <2> DEFINE S == {i \in 1 .. Avail(d) - 1 :
                     /\ i > app[d].http_resync_scanned
                     /\ EndsLine(Ahead(d, i)) /\ Ahead(d, i + 1).t = "head"
                     /\ i > 1 \/ Ahead(d, i).t # "crlf"}
  <2>1. at = (IF S = {} THEN 0 ELSE Min(S)) BY DEF FindHttpResync
  <2>2. S \in SUBSET (1 .. Avail(d) - 1) OBVIOUS
  <2> HIDE DEF at, S
  <2>3. S \in SUBSET Nat BY <1>1, <2>2
  <2>4. S # {} => Min(S) \in S BY <2>3, MinIn
  <2> QED BY <1>1, <2>1, <2>2, <2>4
<1>3. /\ clear \in Applications /\ clear.http_chunk_prefix = 0
      /\ clear.http_messages = a.http_messages
  BY DEF Applications
<1>4. /\ found \in Applications /\ found.http_chunk_prefix = 0
      /\ found.http_messages = a.http_messages
  <2> HIDE DEF clear
  <2>1. clear.decode_failures + 1 \in Nat BY <1>3 DEF Applications
  <2>2. /\ once \in Applications /\ once.http_chunk_prefix = 0
        /\ once.http_messages = a.http_messages
    BY <1>3, <2>1 DEF Applications
  <2>3. found = [once EXCEPT !.http_resync_scanned = 0] BY <1>3 DEF Applications
  <2> HIDE DEF once, found
  <2> QED BY <2>2, <2>3 DEF Applications
<1>5. /\ wait \in Applications /\ wait.http_chunk_prefix = 0
      /\ wait.http_messages = a.http_messages
  <2>1. Max({Avail(d) - 1, 0}) \in Nat BY <1>1, MaxOfZero
  <2> HIDE DEF clear
  <2> QED BY <1>3, <2>1 DEF Applications
<1>6. r = (IF at > 0 THEN [app |-> found, eat |-> at, go |-> TRUE]
           ELSE IF Avail(d) > MAX_HTTP_MESSAGE_BYTES
                THEN [app |-> found, eat |-> Avail(d), go |-> TRUE]
                ELSE [app |-> wait, eat |-> 0, go |-> FALSE])
  BY DEF ResyncHttp
<1> HIDE DEF at, found, wait
<1>7. \/ r = [app |-> found, eat |-> at, go |-> TRUE]
      \/ r = [app |-> found, eat |-> Avail(d), go |-> TRUE]
      \/ r = [app |-> wait, eat |-> 0, go |-> FALSE]
  BY <1>6
<1>8. CASE r = [app |-> found, eat |-> at, go |-> TRUE] BY <1>1, <1>2, <1>4, <1>8
<1>9. CASE r = [app |-> found, eat |-> Avail(d), go |-> TRUE] BY <1>1, <1>4, <1>9
<1>10. CASE r = [app |-> wait, eat |-> 0, go |-> FALSE] BY <1>1, <1>5, <1>10
<1> QED BY <1>7, <1>8, <1>9, <1>10

-----------------------------------------------------------------------------
(* What a direction keeps                                                  *)

(* Messages stay in order when more is consumed.                           *)
LEMMA InOrderOn ==
    ASSUME NEW msgs, NEW s, NEW p \in Nat, NEW q \in Nat, p <= q, InOrder(msgs, s, p)
    PROVE  InOrder(msgs, s, q)
<1>1. 1 .. p \subseteq 1 .. q OBVIOUS
<1> QED BY <1>1 DEF InOrder

(* Consuming with no progress through chunks left.                         *)
LEMMA ConsumedOK ==
    ASSUME NEW a, NEW s, NEW p, NEW n, DirOK(a, s, p, n),
           NEW v \in Applications, v.http_messages = a.http_messages, v.http_chunk_prefix = 0,
           NEW eat \in Nat, p + eat <= n
    PROVE  DirOK(v, s, p + eat, n)
<1>1. p \in Nat /\ p + eat \in Nat /\ p <= p + eat BY DEF DirOK
<1>2. InOrder(v.http_messages, s, p + eat) BY <1>1, InOrderOn DEF DirOK
<1>3. PrefixOK(v, s, p + eat, n) BY DEF PrefixOK
<1> QED BY <1>1, <1>2, <1>3 DEF DirOK

(* The messages with one more.                                             *)
WithNext(msgs, at) == Append(msgs, at)

(* A message recorded at the front.                                        *)
LEMMA RecordedIs ==
    ASSUME NEW d, NEW a \in Applications, NEW h \in Heads, pos[d] \in Nat,
           NEW v, v = Recorded(a, d, h)
    PROVE  /\ v \in Applications /\ v.http_messages = WithNext(a.http_messages, pos[d] + 1)
           /\ v.http_chunk_prefix = a.http_chunk_prefix /\ v.http_skip = a.http_skip
           /\ v.http_body_until_close = a.http_body_until_close
           /\ v.http_bodies_skipped = a.http_bodies_skipped
<1> DEFINE q == a.pending_head_requests
           m == Append(a.http_messages, pos[d] + 1)
           w == IF h.request /\ Len(q) < MAX_PENDING_REQUESTS THEN Append(q, h.method_head) ELSE q
           b == [a EXCEPT !.http_messages = m]
<1>1. q \in Seq(BOOLEAN) /\ a.http_messages \in Seq(Nat) /\ h.method_head \in BOOLEAN
  BY DEF Applications, Heads
<1>2. w \in Seq(BOOLEAN)
  <2> HIDE DEF q
  <2> QED BY <1>1, AppendProperties
<1>3. m \in Seq(Nat) BY <1>1, AppendProperties
<1>4. v = [b EXCEPT !.pending_head_requests = w]
  <2>1. v = [a EXCEPT !.http_messages = m, !.pending_head_requests = w] BY DEF Recorded
  <2> HIDE DEF m, w
  <2> QED BY <2>1 DEF Applications
<1> HIDE DEF m, w
<1>5. /\ b \in Applications /\ b.http_messages = m
      /\ b.http_chunk_prefix = a.http_chunk_prefix /\ b.http_skip = a.http_skip
      /\ b.http_body_until_close = a.http_body_until_close
      /\ b.http_bodies_skipped = a.http_bodies_skipped
  BY <1>3 DEF Applications
<1> HIDE DEF b
<1>6. /\ v \in Applications /\ v.http_messages = m
      /\ v.http_chunk_prefix = b.http_chunk_prefix /\ v.http_skip = b.http_skip
      /\ v.http_body_until_close = b.http_body_until_close
      /\ v.http_bodies_skipped = b.http_bodies_skipped
  BY <1>2, <1>4, <1>5 DEF Applications
<1>7. m = WithNext(a.http_messages, pos[d] + 1) BY DEF m, WithNext
<1> QED BY <1>5, <1>6, <1>7

(* It comes after the others.                                              *)
LEMMA InOrderAppend ==
    ASSUME NEW msgs \in Seq(Nat), NEW s, NEW p \in Nat, InOrder(msgs, s, p),
           s[p + 1].t = "head", NEW q \in Nat, p + 1 <= q
    PROVE  InOrder(WithNext(msgs, p + 1), s, q)
<1> DEFINE m == Append(msgs, p + 1)
           n == Len(msgs)
<1>1. n \in Nat /\ Len(m) = n + 1 /\ m[n + 1] = p + 1 /\ \A j \in 1 .. n : m[j] = msgs[j]
  BY AppendProperties, LenProperties
<1> HIDE DEF m
<1>2. ASSUME NEW i \in 1 .. n + 1
      PROVE  /\ m[i] \in 1 .. q /\ s[m[i]].t = "head" /\ \A j \in 1 .. i - 1 : m[j] < m[i]
  <2>1. CASE i \in 1 .. n
    <3>1. m[i] = msgs[i] /\ \A j \in 1 .. i - 1 : j \in 1 .. n /\ m[j] = msgs[j] BY <1>1, <2>1
    <3>2. msgs[i] \in 1 .. p /\ s[msgs[i]].t = "head" /\ \A j \in 1 .. i - 1 : msgs[j] < msgs[i]
      BY <2>1 DEF InOrder
    <3> HIDE DEF n
    <3> QED BY <3>1, <3>2
  <2>2. CASE i = n + 1
    <3>1. \A j \in 1 .. n : msgs[j] \in 1 .. p BY DEF InOrder
    <3>2. \A j \in 1 .. n : m[j] \in 1 .. p BY <1>1, <3>1
    <3>3. \A j \in 1 .. n : m[j] < p + 1 BY <3>2
    <3>4. i - 1 = n BY <1>1, <2>2
    <3>5. m[i] = p + 1 BY <1>1, <2>2
    <3>6. \A j \in 1 .. i - 1 : m[j] < m[i] BY <3>3, <3>4, <3>5
    <3> HIDE DEF n
    <3> QED BY <3>5, <3>6
  <2> QED BY <1>1, <2>1, <2>2
<1> QED BY <1>1, <1>2 DEF InOrder, m, WithNext

-----------------------------------------------------------------------------
(* The turns of the loop                                                   *)

(* resyncHttp, from Applications with the direction's messages.            *)
LEMMA ResyncOK ==
    ASSUME HInv, NEW d \in Dirs, NEW a \in Applications,
           a.http_messages = app[d].http_messages, NEW r, r = ResyncHttp(d, a)
    PROVE  /\ r.eat \in Nat /\ r.go \in BOOLEAN
           /\ DirOK(r.app, stream[d], pos[d] + r.eat, arrived[d])
<1>1. /\ r.eat \in Nat /\ r.eat <= Avail(d) /\ r.go \in BOOLEAN
      /\ r.app \in Applications /\ r.app.http_chunk_prefix = 0
      /\ r.app.http_messages = a.http_messages
  BY ResyncIs
<1>2. pos[d] + r.eat <= arrived[d]
  <2>1. Avail(d) = arrived[d] - pos[d] /\ arrived[d] \in Nat /\ pos[d] \in Nat BY Facts
  <2> QED BY <1>1, <2>1
<1>3. DirOK(app[d], stream[d], pos[d], arrived[d]) BY DEF HInv
<1> QED BY <1>1, <1>2, <1>3, ConsumedOK

(* The rest of a body.                                                     *)
LEMMA SkipBodyKeeps == ASSUME HInv, NEW d \in Dirs, SkipBody(d) PROVE HInv'
<1> DEFINE a == app[d]
           n == Min({a.http_skip, Avail(d)})
           v == [a EXCEPT !.http_skip = @ - n]
           go == (a.http_skip = n)
           apps == [app EXCEPT ![d] = v]
<1>1. a \in Applications /\ Avail(d) \in Nat /\ a.http_skip \in Nat BY Facts DEF Applications
<1>2. n \in Nat /\ n <= a.http_skip /\ n <= Avail(d) BY <1>1, MinOfTwo
<1>3. a.http_skip > 0 /\ Turn(d, apps, n, go)
  <2>1. Turn(d, [app EXCEPT ![d].http_skip = @ - n], n, go) /\ a.http_skip > 0 BY DEF SkipBody
  <2>2. [app EXCEPT ![d].http_skip = @ - n] = apps
    <3> HIDE DEF n
    <3> QED BY DEF HInv
  <2> QED BY <2>1, <2>2
<1>4. DirOK(a, stream[d], pos[d], arrived[d]) BY DEF HInv
<1>5. a.http_chunk_prefix = 0
  <2>1. ~(a.http_chunk_prefix > 0) BY <1>1, <1>3, <1>4 DEF DirOK, PrefixOK
  <2>2. a.http_chunk_prefix \in Nat BY <1>1 DEF Applications
  <2> QED BY <2>1, <2>2
<1> HIDE DEF n
<1>6. v \in Applications /\ v.http_messages = a.http_messages /\ v.http_chunk_prefix = 0
  <2>1. a.http_skip - n \in Nat BY <1>1, <1>2
  <2> QED BY <1>1, <1>5, <2>1 DEF Applications
<1>7. pos[d] + n <= arrived[d]
  <2>1. Avail(d) = arrived[d] - pos[d] /\ arrived[d] \in Nat /\ pos[d] \in Nat BY Facts
  <2> QED BY <1>2, <2>1
<1> HIDE DEF v, a
<1>8. DirOK(v, stream[d], pos[d] + n, arrived[d]) BY <1>2, <1>4, <1>6, <1>7, ConsumedOK
<1>9. go \in BOOLEAN OBVIOUS
<1> HIDE DEF apps, go
<1>10. apps = [app EXCEPT ![d] = v] BY DEF apps
<1> QED BY <1>2, <1>3, <1>8, <1>9, <1>10, OwnTurn

(* A body that lasts to the close.                                         *)
LEMMA EatKeeps == ASSUME HInv, NEW d \in Dirs, EatUntilClose(d) PROVE HInv'
<1> DEFINE a == app[d]
           n == Avail(d)
<1>1. a \in Applications /\ n \in Nat /\ n = arrived[d] - pos[d]
      /\ arrived[d] \in Nat /\ pos[d] \in Nat BY Facts
<1>2. a.http_body_until_close /\ Turn(d, app, n, FALSE) BY DEF EatUntilClose
<1>3. DirOK(a, stream[d], pos[d], arrived[d]) BY DEF HInv
<1>4. a.http_chunk_prefix = 0
  <2>1. ~(a.http_chunk_prefix > 0) BY <1>2, <1>3 DEF DirOK, PrefixOK
  <2>2. a.http_chunk_prefix \in Nat BY <1>1 DEF Applications
  <2> QED BY <2>1, <2>2
<1> HIDE DEF n
<1>5. pos[d] + n <= arrived[d] BY <1>1
<1>6. DirOK(a, stream[d], pos[d] + n, arrived[d]) BY <1>1, <1>3, <1>4, <1>5, ConsumedOK
<1>7. app = [app EXCEPT ![d] = a] BY DEF HInv
<1> HIDE DEF a
<1> QED BY <1>1, <1>2, <1>6, <1>7, OwnTurn

(* A turn that resynchronises.                                             *)
LEMMA ResyncTurn ==
    ASSUME HInv, NEW d \in Dirs, NEW r, r = ResyncHttp(d, app[d]),
           Turn(d, [app EXCEPT ![d] = r.app], r.eat, r.go)
    PROVE  HInv'
<1>1. app[d] \in Applications BY Facts
<1>2. r.eat \in Nat /\ r.go \in BOOLEAN /\ DirOK(r.app, stream[d], pos[d] + r.eat, arrived[d])
  BY <1>1, ResyncOK
<1> DEFINE apps == [app EXCEPT ![d] = r.app]
           v == r.app
           eat == r.eat
           go == r.go
<1>3. apps = [app EXCEPT ![d] = v] /\ Turn(d, apps, eat, go) OBVIOUS
<1>4. eat \in Nat /\ go \in BOOLEAN /\ DirOK(v, stream[d], pos[d] + eat, arrived[d]) BY <1>2
<1> HIDE DEF apps, v, eat, go
<1> QED BY <1>3, <1>4, OwnTurn

(* The same after an entry was taken off the peer's queue.                 *)
LEMMA PoppedResync ==
    ASSUME HInv, NEW d \in Dirs, NEW h, NEW a \in Applications,
           a.http_messages = app[d].http_messages, NEW r, r = ResyncHttp(d, a),
           Turn(d, [AfterPop(d, h) EXCEPT ![d] = r.app], r.eat, r.go)
    PROVE  HInv'
<1>1. r.eat \in Nat /\ r.go \in BOOLEAN /\ DirOK(r.app, stream[d], pos[d] + r.eat, arrived[d])
  BY ResyncOK
<1> DEFINE popped == AfterPop(d, h)
           apps == [popped EXCEPT ![d] = r.app]
           v == r.app
           eat == r.eat
           go == r.go
<1>2. popped = AfterPop(d, h) /\ apps = [popped EXCEPT ![d] = v] /\ Turn(d, apps, eat, go) OBVIOUS
<1>3. eat \in Nat /\ go \in BOOLEAN /\ DirOK(v, stream[d], pos[d] + eat, arrived[d]) BY <1>1
<1> HIDE DEF popped, apps, v, eat, go
<1> QED BY <1>2, <1>3, PoppedTurn

(* A header that is not there yet, or is none.                             *)
LEMMA HeaderKeeps ==
    ASSUME HInv, NEW d \in Dirs, HeaderIncomplete(d) \/ HeaderMalformed(d) PROVE HInv'
<1> DEFINE r == ResyncHttp(d, app[d])
<1>1. CASE Turn(d, [app EXCEPT ![d] = r.app], r.eat, r.go)
  <2>1. r = ResyncHttp(d, app[d]) OBVIOUS
  <2> HIDE DEF r
  <2> QED BY <1>1, <2>1, ResyncTurn
<1>2. CASE Turn(d, app, 0, FALSE)
  <2>1. /\ app' = app /\ pos' = [pos EXCEPT ![d] = @ + 0]
        /\ polling' = "none" /\ stream' = stream /\ arrived' = arrived
    BY <1>2 DEF Turn
  <2>2. pos[d] + 0 = pos[d] BY Facts
  <2>3. pos' = pos BY <2>1, <2>2 DEF HInv
  <2> QED BY <2>1, <2>3 DEF HInv
<1> QED BY <1>1, <1>2 DEF HeaderIncomplete, HeaderMalformed

(* A message whose header and body are there.                              *)
LEMMA MessageKeeps == ASSUME HInv, NEW d \in Dirs, MessageComplete(d) PROVE HInv'
<1> DEFINE h == Ahead(d, 1)
           n == BodyUnits(d, h)
           o == app[d]
           s == stream[d]
           p == pos[d]
           prefix == IF h.chunked /\ ~NoBody(d, h) THEN 0 ELSE o.http_chunk_prefix
           a == [o EXCEPT !.http_chunk_prefix = prefix, !.http_body_until_close = UntilClose(d, h)]
           v == Recorded(a, d, h)
           popped == AfterPop(d, h)
           apps == [popped EXCEPT ![d] = v]
           eat == HeadUnits + n
<1>1. /\ Parsing(d) /\ ParseResult(d) = "None" /\ n >= 0 /\ Turn(d, apps, eat, TRUE)
  BY DEF MessageComplete
<1>2. /\ o \in Applications /\ p \in Nat /\ arrived[d] \in Nat /\ Avail(d) = arrived[d] - p
      /\ arrived[d] <= Len(s) /\ s \in Seq(Units) /\ Len(s) \in Nat
  BY Facts
<1>3. h \in Heads /\ h = s[p + 1] /\ h.t = "head" BY <1>1, ParsedHead
<1>4. n \in Nat /\ eat \in Nat /\ eat >= 2 /\ p + eat <= arrived[d]
  <2>1. n \in Nat \cup {-1, -2} /\ (n \in Nat => HeadUnits + n <= Avail(d)) BY <1>1, BodyIsThere
  <2> HIDE DEF n
  <2>2. n \in Nat BY <1>1, <2>1
  <2> QED BY <1>2, <2>1, <2>2 DEF HeadUnits
<1>5. n # 0 /\ h.chunked => ~NoBody(d, h) BY <1>1, BodyIsThere
<1>6. DirOK(o, s, p, arrived[d]) BY DEF HInv
<1>7. o.http_chunk_prefix \in Nat /\ prefix \in Nat /\ UntilClose(d, h) \in BOOLEAN
      /\ o.http_messages \in Seq(Nat)
  BY <1>2 DEF Applications, UntilClose
<1>8. /\ a \in Applications /\ a.http_messages = o.http_messages /\ a.http_skip = o.http_skip
      /\ a.http_chunk_prefix = prefix /\ a.http_body_until_close = UntilClose(d, h)
  <2> HIDE DEF prefix, o, h
  <2> QED BY <1>2, <1>7 DEF Applications
<1>9. /\ v \in Applications /\ v.http_messages = WithNext(o.http_messages, p + 1)
      /\ v.http_chunk_prefix = prefix /\ v.http_skip = o.http_skip
      /\ v.http_body_until_close = UntilClose(d, h)
  <2>1. v = Recorded(a, d, h) /\ pos[d] \in Nat BY <1>2
  <2> HIDE DEF v, a, h
  <2>2. /\ v \in Applications /\ v.http_messages = WithNext(a.http_messages, pos[d] + 1)
        /\ v.http_chunk_prefix = a.http_chunk_prefix /\ v.http_skip = a.http_skip
        /\ v.http_body_until_close = a.http_body_until_close
    <3>1. a \in Applications /\ h \in Heads BY <1>3, <1>8
    <3> QED BY <2>1, <3>1, RecordedIs
  <2> QED BY <1>8, <2>2
<1>10. p + eat \in Nat /\ p + 1 <= p + eat BY <1>2, <1>4
<1>11. InOrder(v.http_messages, s, p + eat)
  <2>1. InOrder(o.http_messages, s, p) BY <1>6 DEF DirOK
  <2>2. s[p + 1].t = "head" BY <1>3
  <2> HIDE DEF o, s, p, eat, v
  <2> QED BY <1>2, <1>7, <1>9, <1>10, <2>1, <2>2, InOrderAppend
<1>12. PrefixOK(v, s, p + eat, arrived[d])
  <2> SUFFICES ASSUME prefix > 0
               PROVE  /\ v.http_skip = 0 /\ ~v.http_body_until_close
                      /\ AtChunk(s, p + eat, arrived[d])
    BY <1>9 DEF PrefixOK
  <2>1. o.http_chunk_prefix > 0 /\ prefix = o.http_chunk_prefix /\ (h.chunked => NoBody(d, h))
    OBVIOUS
  <2>2. InChunks(o.http_chunk_prefix, s, p, arrived[d]) BY <1>1, <2>1, PrefixAtHead
  <2>3. h.chunked BY <1>3, <2>2 DEF InChunks
  <2>4. n = 0 BY <1>5, <2>1, <2>3
  <2>5. eat = 2 BY <2>4 DEF HeadUnits
  <2>6. o.http_skip = 0 /\ ~UntilClose(d, h) BY <1>1, <2>3 DEF Parsing, UntilClose
  <2>7. s[p + 3].t = "size" /\ p + 2 + o.http_chunk_prefix <= arrived[d] BY <2>2 DEF InChunks
  <2> HIDE DEF o, s, p, eat, h, v, prefix
  <2>8. p + eat + 1 = p + 3 /\ p + eat + 1 <= arrived[d] BY <1>2, <1>7, <2>1, <2>5, <2>7
  <2> QED BY <1>9, <2>6, <2>7, <2>8 DEF AtChunk
<1>13. DirOK(v, s, p + eat, arrived[d])
  <2> HIDE DEF v, s, p, eat
  <2> QED BY <1>2, <1>4, <1>9, <1>10, <1>11, <1>12 DEF DirOK
<1>14. popped = AfterPop(d, h) /\ apps = [popped EXCEPT ![d] = v] OBVIOUS
<1> HIDE DEF v, eat, popped, apps, h
<1> QED BY <1>1, <1>4, <1>13, <1>14, PoppedTurn

(* Chunks that are malformed.                                              *)
LEMMA MalformedKeeps == ASSUME HInv, NEW d \in Dirs, ChunksMalformed(d) PROVE HInv'
<1> DEFINE h == Ahead(d, 1)
           a == app[d]
           r == ResyncHttp(d, a)
<1>1. Turn(d, [AfterPop(d, h) EXCEPT ![d] = r.app], r.eat, r.go) BY DEF ChunksMalformed
<1>2. a \in Applications /\ a.http_messages = app[d].http_messages /\ r = ResyncHttp(d, a) BY Facts
<1> HIDE DEF h, a, r
<1> QED BY <1>1, <1>2, PoppedResync

(* The progress through the chunks that are there.                         *)
LEMMA Progress ==
    ASSUME HInv, NEW d \in Dirs, Parsing(d), ParseResult(d) = "None", Ahead(d, 1).chunked,
           NEW a, a = [app[d] EXCEPT !.http_chunk_prefix = @ + 2 * ChunksFrom(d, @)]
    PROVE  /\ a \in Applications /\ a.http_messages = app[d].http_messages
           /\ DirOK(a, stream[d], pos[d], arrived[d])
<1> DEFINE o == app[d]
           s == stream[d]
           p == pos[d]
           old == o.http_chunk_prefix
           c == ChunksFrom(d, old)
           new == old + 2 * c
<1>1. /\ o \in Applications /\ p \in Nat /\ arrived[d] \in Nat /\ Avail(d) = arrived[d] - p
      /\ Avail(d) \in Nat
  BY Facts
<1>2. Avail(d) >= 2 /\ s[p + 1].t = "head" /\ s[p + 1].chunked BY ParsedHead
<1>3. old \in Nat BY <1>1 DEF Applications
<1>4. old > 0 => InChunks(old, s, p, arrived[d]) BY PrefixAtHead
<1>5. HeadUnits + old <= Avail(d)
  <2>1. old > 0 => p + 2 + old <= arrived[d] BY <1>4 DEF InChunks
  <2> HIDE DEF old, p
  <2> QED BY <1>1, <1>2, <1>3, <2>1 DEF HeadUnits
<1>6. /\ c \in Nat /\ HeadUnits + old + 2 * c <= Avail(d)
      /\ \A i \in 1 .. c : /\ Ahead(d, HeadUnits + old + 2 * i - 1).t = "size"
                           /\ Ahead(d, HeadUnits + old + 2 * i).t = "data"
  <2> HIDE DEF old
  <2> QED BY <1>3, <1>5, ChunksAre
<1>7. a = [o EXCEPT !.http_chunk_prefix = new] OBVIOUS
<1>8. new \in Nat /\ p + 2 + new <= arrived[d]
  <2> HIDE DEF c, old, p
  <2> QED BY <1>1, <1>3, <1>6 DEF HeadUnits
<1>9. c > 0 => s[p + 2 + new].t = "data" /\ (old = 0 => s[p + 3].t = "size")
  <2> SUFFICES ASSUME c > 0 PROVE s[p + 2 + new].t = "data" /\ (old = 0 => s[p + 3].t = "size")
    OBVIOUS
  <2>1. c \in 1 .. c /\ 1 \in 1 .. c BY <1>6
  <2>2. Ahead(d, HeadUnits + old + 2 * c).t = "data" /\ Ahead(d, HeadUnits + old + 2 * 1 - 1).t = "size"
    BY <1>6, <2>1
  <2>3. p + (HeadUnits + old + 2 * c) = p + 2 + new
    <3> HIDE DEF c, old, p
    <3> QED BY <1>1, <1>3, <1>6 DEF HeadUnits
  <2>4. old = 0 => p + (HeadUnits + old + 2 * 1 - 1) = p + 3
    <3> HIDE DEF c, old, p
    <3> QED BY <1>1, <1>3 DEF HeadUnits
  <2>5. s[p + (HeadUnits + old + 2 * c)].t = "data" /\ s[p + (HeadUnits + old + 2 * 1 - 1)].t = "size"
    BY <2>2 DEF Ahead
  <2> HIDE DEF c, old, p, s, new
  <2> QED BY <2>3, <2>4, <2>5
<1> HIDE DEF new, c, old, o
<1>10. /\ a \in Applications /\ a.http_messages = o.http_messages /\ a.http_skip = o.http_skip
       /\ a.http_chunk_prefix = new /\ a.http_body_until_close = o.http_body_until_close
  BY <1>1, <1>7, <1>8 DEF Applications
<1>11. new > 0 => InChunks(new, s, p, arrived[d])
  <2> SUFFICES ASSUME new > 0 PROVE InChunks(new, s, p, arrived[d]) OBVIOUS
  <2>1. CASE c > 0
    <3>1. s[p + 3].t = "size"
      <4>1. CASE old = 0 BY <1>9, <2>1, <4>1
      <4>2. CASE old > 0 BY <1>4, <4>2 DEF InChunks
      <4> QED BY <1>3, <4>1, <4>2
    <3> QED BY <1>2, <1>8, <1>9, <2>1, <3>1 DEF InChunks
  <2>2. CASE c = 0
    <3>1. new = old BY <1>3, <2>2 DEF new
    <3> QED BY <1>4, <3>1
  <2> QED BY <1>6, <2>1, <2>2
<1>12. o.http_skip = 0 /\ ~o.http_body_until_close BY DEF Parsing, o
<1>13. PrefixOK(a, s, p, arrived[d]) BY <1>10, <1>11, <1>12 DEF PrefixOK
<1>14. DirOK(o, s, p, arrived[d]) BY DEF HInv, o
<1>15. DirOK(a, s, p, arrived[d])
  <2> HIDE DEF s, p
  <2> QED BY <1>10, <1>13, <1>14 DEF DirOK
<1> QED BY <1>10, <1>15 DEF o

(* A message recorded before its body is there: the body will be skipped.  *)
Early(a, d, h) ==
    [Recorded(a, d, h) EXCEPT !.http_skip = h.length, !.http_bodies_skipped = @ + 1]

(* It is at the front as any other.                                        *)
LEMMA RecordedEarly ==
    ASSUME NEW d \in Dirs, NEW a \in Applications, NEW h \in Heads, pos[d] \in Nat, h.length \in Nat,
           NEW v, v = Early(a, d, h)
    PROVE  /\ v \in Applications /\ v.http_messages = WithNext(a.http_messages, pos[d] + 1)
           /\ v.http_chunk_prefix = a.http_chunk_prefix
<1> DEFINE rec == Recorded(a, d, h)
           one == [rec EXCEPT !.http_skip = h.length]
           more == rec.http_bodies_skipped + 1
<1>1. rec = Recorded(a, d, h) OBVIOUS
<1>2. v = [rec EXCEPT !.http_skip = h.length, !.http_bodies_skipped = @ + 1] BY DEF Early
<1> HIDE DEF rec
<1>3. /\ rec \in Applications /\ rec.http_messages = WithNext(a.http_messages, pos[d] + 1)
      /\ rec.http_chunk_prefix = a.http_chunk_prefix
  BY <1>1, RecordedIs
<1>4. more \in Nat BY <1>3 DEF Applications
<1>5. /\ one \in Applications /\ one.http_messages = rec.http_messages
      /\ one.http_chunk_prefix = rec.http_chunk_prefix
      /\ one.http_bodies_skipped = rec.http_bodies_skipped
  BY <1>3 DEF Applications
<1>6. v = [one EXCEPT !.http_bodies_skipped = more] BY <1>3, <1>2 DEF Applications
<1> HIDE DEF one, more
<1>7. v \in Applications /\ v.http_messages = one.http_messages
      /\ v.http_chunk_prefix = one.http_chunk_prefix
  BY <1>4, <1>5, <1>6 DEF Applications
<1> QED BY <1>3, <1>5, <1>7

(* A body that is not all there.                                           *)
LEMMA IncompleteKeeps == ASSUME HInv, NEW d \in Dirs, BodyIncomplete(d) PROVE HInv'
<1> DEFINE h == Ahead(d, 1)
           o == app[d]
           a == IF h.chunked
                THEN [o EXCEPT !.http_chunk_prefix = @ + 2 * ChunksFrom(d, @)]
                ELSE o
           r == ResyncHttp(d, a)
           rec == Recorded(a, d, h)
           big == [rec EXCEPT !.http_skip = h.length, !.http_bodies_skipped = @ + 1]
           popped == AfterPop(d, h)
<1>1. /\ Parsing(d) /\ ParseResult(d) = "None" /\ BodyUnits(d, h) = -1
      /\ \/ Turn(d, [popped EXCEPT ![d] = a], 0, FALSE)
         \/ ~h.chunked /\ Turn(d, [popped EXCEPT ![d] = big], HeadUnits, TRUE)
         \/ Turn(d, [popped EXCEPT ![d] = r.app], r.eat, r.go)
  BY DEF BodyIncomplete
<1>2. o \in Applications /\ pos[d] \in Nat /\ arrived[d] \in Nat /\ Avail(d) = arrived[d] - pos[d]
  BY Facts
<1>3. DirOK(o, stream[d], pos[d], arrived[d]) BY DEF HInv
<1>4. Avail(d) >= 2 /\ h \in Heads /\ h = stream[d][pos[d] + 1] /\ h.t = "head" BY <1>1, ParsedHead
<1>5. a \in Applications /\ a.http_messages = o.http_messages
      /\ DirOK(a, stream[d], pos[d], arrived[d])
  <2>1. CASE h.chunked
    <3>1. a = [app[d] EXCEPT !.http_chunk_prefix = @ + 2 * ChunksFrom(d, @)] BY <2>1
    <3> HIDE DEF a
    <3> QED BY <1>1, <2>1, <3>1, Progress
  <2>2. CASE ~h.chunked
    <3>1. a = o BY <2>2
    <3> HIDE DEF a, o
    <3> QED BY <1>2, <1>3, <3>1
  <2> QED BY <2>1, <2>2
<1>6. CASE Turn(d, [popped EXCEPT ![d] = a], 0, FALSE)
  <2> DEFINE apps == [popped EXCEPT ![d] = a]
             eat == 0
  <2>1. popped = AfterPop(d, h) /\ apps = [popped EXCEPT ![d] = a] /\ Turn(d, apps, eat, FALSE)
    BY <1>6
  <2>2. eat \in Nat /\ pos[d] + eat = pos[d] BY <1>2
  <2> HIDE DEF apps, popped, a, h, eat
  <2>3. DirOK(a, stream[d], pos[d] + eat, arrived[d]) BY <1>5, <2>2
  <2> QED BY <2>1, <2>2, <2>3, PoppedTurn
<1>7. CASE ~h.chunked /\ Turn(d, [popped EXCEPT ![d] = big], HeadUnits, TRUE)
  <2> DEFINE apps == [popped EXCEPT ![d] = big]
             eat == HeadUnits
  <2>1. popped = AfterPop(d, h) /\ apps = [popped EXCEPT ![d] = big] /\ Turn(d, apps, eat, TRUE)
    BY <1>7
  <2>2. h.length \in Nat BY <1>1, <1>7, BodyIsThere
  <2>3. a = o BY <1>7
  <2>4. o.http_chunk_prefix = 0
    <3>1. ~(o.http_chunk_prefix > 0) BY <1>1, <1>4, <1>7, PrefixAtHead DEF InChunks
    <3>2. o.http_chunk_prefix \in Nat BY <1>2 DEF Applications
    <3> QED BY <3>1, <3>2
  <2>5. big = Early(a, d, h) BY DEF Early
  <2> HIDE DEF a, h, o, popped, eat, apps, big
  <2>6. /\ big \in Applications /\ big.http_messages = WithNext(a.http_messages, pos[d] + 1)
        /\ big.http_chunk_prefix = a.http_chunk_prefix
    BY <1>2, <1>4, <1>5, <2>2, <2>5, RecordedEarly
  <2>7. big \in Applications /\ big.http_chunk_prefix = 0
        /\ big.http_messages = WithNext(o.http_messages, pos[d] + 1)
    BY <2>3, <2>4, <2>6
  <2>8. eat \in Nat /\ pos[d] + eat \in Nat /\ pos[d] + 1 <= pos[d] + eat /\ pos[d] + eat <= arrived[d]
    BY <1>2, <1>4 DEF HeadUnits, eat
  <2> HIDE DEF big, eat, apps
  <2>9. InOrder(big.http_messages, stream[d], pos[d] + eat)
    <3>1. o.http_messages \in Seq(Nat) BY <1>2 DEF Applications
    <3>2. InOrder(o.http_messages, stream[d], pos[d]) BY <1>3 DEF DirOK
    <3>3. stream[d][pos[d] + 1].t = "head" BY <1>4
    <3>4. InOrder(WithNext(o.http_messages, pos[d] + 1), stream[d], pos[d] + eat)
      BY <1>2, <2>8, <3>1, <3>2, <3>3, InOrderAppend
    <3> QED BY <2>7, <3>4
  <2>10. PrefixOK(big, stream[d], pos[d] + eat, arrived[d]) BY <2>7 DEF PrefixOK
  <2>11. DirOK(big, stream[d], pos[d] + eat, arrived[d])
    BY <1>3, <2>7, <2>8, <2>9, <2>10 DEF DirOK
  <2>12. apps = [popped EXCEPT ![d] = big] BY DEF apps
  <2> QED BY <2>1, <2>8, <2>11, <2>12, PoppedTurn
<1>8. CASE Turn(d, [popped EXCEPT ![d] = r.app], r.eat, r.go)
  <2>1. r = ResyncHttp(d, a) /\ Turn(d, [AfterPop(d, h) EXCEPT ![d] = r.app], r.eat, r.go)
    BY <1>8
  <2> HIDE DEF r, a, h
  <2> QED BY <1>5, <2>1, PoppedResync DEF o
<1> QED BY <1>1, <1>6, <1>7, <1>8

-----------------------------------------------------------------------------
(* Every step                                                              *)

(* More of a direction's stream arrives.                                   *)
LEMMA SegmentKeeps == ASSUME HInv, NEW d \in Dirs, Segment(d) PROVE HInv'
<1>1. PICK n \in arrived[d] + 1 .. Len(stream[d]) :
         /\ arrived' = [arrived EXCEPT ![d] = n] /\ polling' = d
         /\ UNCHANGED <<stream, pos, app>>
  BY DEF Segment
<1>2. arrived[d] \in Nat /\ pos[d] \in Nat /\ pos[d] <= arrived[d] /\ Len(stream[d]) \in Nat BY Facts
<1>3. n \in Nat /\ arrived[d] <= n /\ n <= Len(stream[d]) /\ pos[d] <= n BY <1>2
<1>4. arrived' \in [Dirs -> Nat] /\ arrived'[d] = n /\ \A e \in Dirs : e # d => arrived'[e] = arrived[e]
  BY <1>1, <1>3 DEF HInv
<1>5. ASSUME NEW e \in Dirs PROVE DirOK(app[e], stream[e], pos[e], arrived'[e])
  <2>1. DirOK(app[e], stream[e], pos[e], arrived[e]) BY DEF HInv
  <2>2. CASE e # d BY <1>4, <2>1, <2>2
  <2>3. CASE e = d
    <3>1. PrefixOK(app[d], stream[d], pos[d], arrived[d]) BY <2>1, <2>3 DEF DirOK
    <3>2. ASSUME app[d].http_chunk_prefix > 0
          PROVE  \/ InChunks(app[d].http_chunk_prefix, stream[d], pos[d], n)
                 \/ AtChunk(stream[d], pos[d], n)
      <4>1. app[d].http_chunk_prefix \in Nat BY Facts DEF Applications
      <4>2. CASE InChunks(app[d].http_chunk_prefix, stream[d], pos[d], arrived[d])
        <5>1. pos[d] + 2 + app[d].http_chunk_prefix <= n
          <6> DEFINE x == pos[d] + 2 + app[d].http_chunk_prefix
          <6>1. x \in Nat /\ x <= arrived[d] BY <1>2, <4>1, <4>2 DEF InChunks
          <6> HIDE DEF x
          <6>2. x <= n BY <1>2, <1>3, <6>1
          <6> QED BY <6>2 DEF x
        <5> QED BY <4>2, <5>1 DEF InChunks
      <4>3. CASE AtChunk(stream[d], pos[d], arrived[d])
        <5>1. pos[d] + 1 <= n BY <1>2, <1>3, <4>3 DEF AtChunk
        <5> QED BY <4>3, <5>1 DEF AtChunk
      <4> QED BY <3>1, <3>2, <4>2, <4>3 DEF PrefixOK
    <3>3. PrefixOK(app[d], stream[d], pos[d], n) BY <3>1, <3>2 DEF PrefixOK
    <3>4. DirOK(app[d], stream[d], pos[d], n) BY <1>3, <2>1, <2>3, <3>3 DEF DirOK
    <3> QED BY <1>4, <2>3, <3>4
  <2> QED BY <2>2, <2>3
<1> QED BY <1>1, <1>4, <1>5 DEF HInv

(* So every step keeps the invariant.                                     *)
LEMMA NextHInv == HInv /\ [Next]_vars => HInv'
<1> SUFFICES ASSUME HInv, [Next]_vars PROVE HInv' OBVIOUS
<1>1. ASSUME NEW d \in Dirs, Segment(d) \/ Poll(d) PROVE HInv'
  BY <1>1, SegmentKeeps, SkipBodyKeeps, EatKeeps, HeaderKeeps, MessageKeeps, MalformedKeeps,
     IncompleteKeeps DEF Poll
<1>2. CASE UNCHANGED vars BY <1>2 DEF vars, HInv
<1> QED BY <1>1, <1>2 DEF Next

(* At the start nothing has arrived.                                       *)
LEMMA InitHInv == Init => HInv
<1> SUFFICES ASSUME Init PROVE HInv OBVIOUS
<1>1. stream \in [Dirs -> Seq(Units)] BY HttpAssumption DEF Init
<1>2. NewApplications \in Applications BY DEF NewApplications, Applications
<1>3. NewApplications.http_messages = <<>> /\ NewApplications.http_chunk_prefix = 0
  BY DEF NewApplications
<1> DEFINE a == NewApplications
<1> HIDE DEF a
<1>4. \A s : InOrder(<<>>, s, 0) BY DEF InOrder
<1>5. \A s : PrefixOK(a, s, 0, 0) BY <1>3 DEF PrefixOK, a
<1>6. ASSUME NEW d \in Dirs PROVE DirOK(a, stream[d], 0, 0)
  <2>1. stream[d] \in Seq(Units) BY <1>1
  <2>2. Len(stream[d]) \in Nat BY <2>1, LenProperties
  <2>3. 0 <= Len(stream[d]) BY <2>2
  <2> QED BY <1>2, <1>3, <1>4, <1>5, <2>1, <2>3 DEF DirOK, a
<1>7. /\ arrived = [d \in Dirs |-> 0] /\ pos = [d \in Dirs |-> 0] /\ app = [d \in Dirs |-> a]
      /\ polling = "none"
  BY DEF Init, a
<1> QED BY <1>1, <1>2, <1>6, <1>7 DEF HInv, a

-----------------------------------------------------------------------------
(* Conversations that take turns: the invariant                            *)

(* Messages recorded of a direction, units of the first n of them, and the *)
(* requests or final responses among those.                                *)
Count(d) == Len(app[d].http_messages)
Upto(msgs, n) == IF n = 0 THEN 0 ELSE msgs[n].end
Done(msgs, n) == IF n = 0 THEN 0 ELSE msgs[n].no

(* A direction with Applications a, of whose stream s the first p units    *)
(* are consumed and n arrived, has recorded its messages up to the k-th:   *)
(* it is behind that one or skips what is left of it, and when it is not   *)
(* polled the next one is not there yet.                                   *)
Recording(a, s, p, n, msgs, k, polled) ==
    /\ k <= Len(msgs) /\ \A i \in 1 .. k : a.http_messages[i] = msgs[i].at
    /\ k > 0 => msgs[k].at < p
    /\ IF a.http_body_until_close THEN k > 0 /\ k = Len(msgs) /\ a.http_skip = 0
       ELSE p + a.http_skip = Upto(msgs, k)
    /\ ~polled /\ k < Len(msgs) => n < msgs[k + 1].end

(* The progress through chunks is that of the next message.                *)
ChunksOfNext(a, s, msgs, k) ==
    a.http_chunk_prefix > 0 =>
       LET m == msgs[k + 1]
       IN  /\ k < Len(msgs) /\ s[m.at].chunked /\ ~Bare(m, s[m.at])
           /\ \E q \in 0 .. m.end : a.http_chunk_prefix = 2 * q
           /\ m.at + 1 + a.http_chunk_prefix < m.end

(* What the sender of a message had seen is recorded when that arrives.    *)
Seen(msgs, n, k) == \A i \in 1 .. Len(msgs) : msgs[i].at <= n => msgs[i].need <= k

(* Of client's requests the last may be without a final response; whether  *)
(* it is a HEAD is in the queue until the header of that was parsed.       *)
Queued(q, rq, k, done) ==
    \/ Done(rq, k) = done /\ q = <<>>
    \/ /\ Done(rq, k) = done + 1 /\ k > 0
       /\ q = <<rq[k].head>> \/ (q = <<>> /\ ~rq[k].head)

DirTurns(d, msgs) ==
    /\ Recording(app[d], stream[d], pos[d], arrived[d], msgs[d], Count(d), polling = d)
    /\ ChunksOfNext(app[d], stream[d], msgs[d], Count(d))
    /\ Seen(msgs[d], arrived[d], Count(Peer(d)))

Queues(apps, msgs, client) ==
    LET e == Peer(client)
    IN  /\ Queued(apps[client].pending_head_requests, msgs[client],
                  Len(apps[client].http_messages), Done(msgs[e], Len(apps[e].http_messages)))
        /\ apps[e].pending_head_requests = <<>>

TurnsInv(msgs, client) == (\A d \in Dirs : DirTurns(d, msgs)) /\ Queues(app, msgs, client)

VInv == TakesTurns(stream) =>
           \E msgs \in [Dirs -> Seq(Messages)], client \in Dirs :
              TurnsBy(stream, msgs, client) /\ TurnsInv(msgs, client)

-----------------------------------------------------------------------------
(* Conversations that take turns: their messages                           *)

(* What never goes down from one to the next grows.                        *)
LEMMA Grows ==
    ASSUME NEW n \in Nat, NEW f \in [1 .. n -> Nat],
           \A i \in 2 .. n : f[i - 1] <= f[i],
           NEW a \in 1 .. n, NEW b \in 1 .. n, a <= b
    PROVE  f[a] <= f[b]
<1> SUFFICES ASSUME ~(f[a] <= f[b]) PROVE FALSE OBVIOUS
<1> DEFINE T == {j \in 1 .. n : a <= j /\ ~(f[a] <= f[j])}
<1>1. T \in SUBSET Nat /\ b \in T OBVIOUS
<1> HIDE DEF T
<1>2. PICK t \in T : \A y \in T : t <= y BY <1>1, LeastOf
<1>3. t \in 1 .. n /\ a <= t /\ ~(f[a] <= f[t]) BY <1>2 DEF T
<1>4. t # a
  <2>1. f[a] \in Nat OBVIOUS
  <2>2. f[a] <= f[a] BY <2>1
  <2> QED BY <1>3, <2>2
<1>5. t \in 2 .. n /\ t - 1 \in 1 .. n /\ a <= t - 1 BY <1>3, <1>4
<1>6. f[a] <= f[t - 1]
  <2>1. t - 1 \notin T BY <1>2, <1>3
  <2> QED BY <1>5, <2>1 DEF T
<1>7. f[t - 1] <= f[t] BY <1>5
<1>8. f[a] \in Nat /\ f[t - 1] \in Nat /\ f[t] \in Nat BY <1>3, <1>5
<1> QED BY <1>3, <1>6, <1>7, <1>8

(* The i-th message.                                                       *)
LEMMA MessageIs ==
    ASSUME NEW s \in Seq(Units), NEW msgs \in Seq(Messages), MessagesOf(s, msgs),
           NEW i \in 1 .. Len(msgs)
    PROVE  /\ msgs[i] \in Messages /\ i \in Nat /\ Len(msgs) \in Nat /\ Len(s) \in Nat
           /\ msgs[i].at \in Nat /\ msgs[i].end \in Nat /\ msgs[i].no \in Nat
           /\ msgs[i].need \in Nat /\ msgs[i].head \in BOOLEAN
           /\ msgs[i].at > 0 /\ msgs[i].at < msgs[i].end /\ msgs[i].end <= Len(s)
           /\ s[msgs[i].at] \in Heads /\ s[msgs[i].at].t = "head" /\ BodySound(s, msgs[i])
           /\ Upto(msgs, i - 1) \in Nat /\ msgs[i].at = Upto(msgs, i - 1) + 1
<1> DEFINE m == msgs[i]
<1>1. /\ Len(msgs) \in Nat /\ Len(s) \in Nat /\ DOMAIN msgs = 1 .. Len(msgs)
      /\ \A j \in 1 .. Len(msgs) : msgs[j] \in Messages
      /\ \A j \in 1 .. Len(s) : s[j] \in Units
  BY LenProperties
<1>2. /\ m \in Messages
      /\ m.at \in Nat /\ m.end \in Nat /\ m.no \in Nat /\ m.need \in Nat /\ m.head \in BOOLEAN
  BY <1>1 DEF Messages
<1>3. /\ m.at > 0 /\ m.at < m.end /\ m.end <= Len(s) /\ s[m.at].t = "head" /\ BodySound(s, m)
      /\ i > 1 => m.at = msgs[i - 1].end + 1
  BY <1>1 DEF MessagesOf
<1>4. s[m.at] \in Heads
  <2>1. m.at \in 1 .. Len(s)
    <3> HIDE DEF m
    <3> QED BY <1>1, <1>2, <1>3
  <2>2. s[m.at] \in Units BY <1>1, <2>1
  <2> HIDE DEF m
  <2> QED BY <1>3, <2>2 DEF Units
<1>5. Upto(msgs, i - 1) \in Nat /\ m.at = Upto(msgs, i - 1) + 1
  <2>1. CASE i = 1
    <3>1. msgs # <<>> BY <1>1, <2>1
    <3>2. msgs[1].at = 1 BY <3>1 DEF MessagesOf
    <3> QED BY <2>1, <3>2 DEF Upto
  <2>2. CASE i # 1
    <3>1. i - 1 \in 1 .. Len(msgs) /\ i > 1 /\ i - 1 # 0 BY <1>1, <2>2
    <3>2. msgs[i - 1].end \in Nat BY <1>1, <3>1 DEF Messages
    <3> QED BY <1>3, <3>1, <3>2 DEF Upto
  <2> QED BY <2>1, <2>2
<1> QED BY <1>1, <1>2, <1>3, <1>4, <1>5

(* Messages end in their order.                                            *)
LEMMA EndsGrow ==
    ASSUME NEW s \in Seq(Units), NEW msgs \in Seq(Messages), MessagesOf(s, msgs),
           NEW a \in 1 .. Len(msgs), NEW b \in 1 .. Len(msgs), a <= b
    PROVE  msgs[a].end <= msgs[b].end
<1> DEFINE f == [i \in 1 .. Len(msgs) |-> msgs[i].end]
<1>1. Len(msgs) \in Nat BY LenProperties
<1>2. f \in [1 .. Len(msgs) -> Nat] BY MessageIs
<1>3. ASSUME NEW i \in 2 .. Len(msgs) PROVE f[i - 1] <= f[i]
  <2>1. i \in 1 .. Len(msgs) /\ i - 1 \in 1 .. Len(msgs) /\ i - 1 # 0 BY <1>1
  <2>2. msgs[i].at = Upto(msgs, i - 1) + 1 /\ msgs[i].at < msgs[i].end
        /\ msgs[i].at \in Nat /\ msgs[i].end \in Nat
    BY <2>1, MessageIs
  <2>3. Upto(msgs, i - 1) = msgs[i - 1].end /\ msgs[i - 1].end \in Nat BY <2>1, MessageIs DEF Upto
  <2>4. msgs[i - 1].end <= msgs[i].end BY <2>2, <2>3
  <2> QED BY <2>1, <2>4
<1> HIDE DEF f
<1>4. f[a] <= f[b] BY <1>1, <1>2, <1>3, Grows
<1> QED BY <1>4 DEF f

(* All of them make up the stream.                                         *)
LEMMA UptoIs ==
    ASSUME NEW s \in Seq(Units), NEW msgs \in Seq(Messages), MessagesOf(s, msgs),
           NEW k \in 0 .. Len(msgs)
    PROVE  /\ Len(msgs) \in Nat /\ Len(s) \in Nat /\ k \in Nat
           /\ Upto(msgs, k) \in Nat /\ Upto(msgs, k) <= Len(s)
           /\ k = Len(msgs) => Upto(msgs, k) = Len(s)
<1>1. Len(msgs) \in Nat /\ Len(s) \in Nat /\ DOMAIN msgs = 1 .. Len(msgs) BY LenProperties
<1>0. k \in Nat BY <1>1
<1>2. CASE k = 0
  <2>1. Upto(msgs, k) = 0 BY <1>2 DEF Upto
  <2>2. k = Len(msgs) => Len(s) = 0
    <3>1. k = Len(msgs) => msgs = <<>> BY <1>1, <1>2
    <3>2. msgs = <<>> => s = <<>> BY DEF MessagesOf
    <3> QED BY <3>1, <3>2
  <2>3. Upto(msgs, k) \in Nat /\ Upto(msgs, k) <= Len(s) BY <1>1, <2>1
  <2>4. k = Len(msgs) => Upto(msgs, k) = Len(s) BY <2>1, <2>2
  <2> QED BY <1>0, <1>1, <2>3, <2>4
<1>3. CASE k # 0
  <2>1. k \in 1 .. Len(msgs) /\ Upto(msgs, k) = msgs[k].end BY <1>1, <1>3 DEF Upto
  <2>2. msgs[k].end \in Nat /\ msgs[k].end <= Len(s) BY <2>1, MessageIs
  <2>3. k = Len(msgs) => msgs[k].end = Len(s)
    <3>1. msgs # <<>> BY <1>1, <2>1
    <3> QED BY <3>1 DEF MessagesOf, Last
  <2>4. Upto(msgs, k) \in Nat /\ Upto(msgs, k) <= Len(s) BY <2>1, <2>2
  <2>5. k = Len(msgs) => Upto(msgs, k) = Len(s) BY <2>1, <2>3
  <2> QED BY <1>0, <1>1, <2>4, <2>5
<1> QED BY <1>2, <1>3

(* Requests are counted by their place.                                    *)
LEMMA RequestsCount ==
    ASSUME NEW s \in Seq(Units), NEW msgs \in Seq(Messages), NEW others, MessagesOf(s, msgs),
           NEW k \in 0 .. Len(msgs),
           \A i \in DOMAIN msgs : s[msgs[i].at].request /\ Turned(s, msgs, others, i)
    PROVE  Done(msgs, k) = k
<1>1. DOMAIN msgs = 1 .. Len(msgs) /\ Len(msgs) \in Nat BY LenProperties
<1>2. CASE k = 0 BY <1>2 DEF Done
<1>3. CASE k # 0
  <2>1. k \in DOMAIN msgs BY <1>1, <1>3
  <2>2. msgs[k].no = k BY <2>1 DEF Turned
  <2> QED BY <1>3, <2>2 DEF Done
<1> QED BY <1>2, <1>3

(* There are not fewer final responses among more responses.               *)
LEMMA ResponsesCount ==
    ASSUME NEW s \in Seq(Units), NEW msgs \in Seq(Messages), NEW others, MessagesOf(s, msgs),
           \A i \in DOMAIN msgs : ~s[msgs[i].at].request /\ Turned(s, msgs, others, i),
           NEW a \in 1 .. Len(msgs), NEW b \in 1 .. Len(msgs), a <= b
    PROVE  msgs[a].no <= msgs[b].no
<1> DEFINE f == [i \in 1 .. Len(msgs) |-> msgs[i].no]
<1>1. Len(msgs) \in Nat /\ DOMAIN msgs = 1 .. Len(msgs) BY LenProperties
<1>2. f \in [1 .. Len(msgs) -> Nat] BY MessageIs
<1>3. ASSUME NEW i \in 2 .. Len(msgs) PROVE f[i - 1] <= f[i]
  <2>1. i \in 1 .. Len(msgs) /\ i - 1 \in 1 .. Len(msgs) /\ i # 1 BY <1>1
  <2>2. msgs[i].no = msgs[i - 1].no \/ msgs[i].no = msgs[i - 1].no + 1
    BY <1>1, <2>1 DEF Turned
  <2>3. msgs[i - 1].no \in Nat BY <2>1, MessageIs
  <2>4. msgs[i - 1].no <= msgs[i].no BY <2>2, <2>3
  <2> QED BY <2>1, <2>4
<1> HIDE DEF f
<1>4. f[a] <= f[b] BY <1>1, <1>2, <1>3, Grows
<1> QED BY <1>4 DEF f

-----------------------------------------------------------------------------
(* Conversations that take turns: the header at the front                  *)

(* A conversation that takes turns, where the invariants hold.             *)
Talk(msgs, client) ==
    /\ HInv /\ msgs \in [Dirs -> Seq(Messages)] /\ client \in Dirs
    /\ TurnsBy(stream, msgs, client) /\ TurnsInv(msgs, client)

NextOf(msgs, d) == msgs[d][Count(d) + 1]

(* A direction of it.                                                      *)
LEMMA TalkIs ==
    ASSUME NEW msgs, NEW client, Talk(msgs, client), NEW d \in Dirs
    PROVE  /\ stream[d] \in Seq(Units) /\ msgs[d] \in Seq(Messages) /\ MessagesOf(stream[d], msgs[d])
           /\ DirTurns(d, msgs) /\ Count(d) \in Nat /\ Count(d) \in 0 .. Len(msgs[d])
           /\ Len(msgs[d]) \in Nat
           /\ \A i \in DOMAIN msgs[d] :
                 /\ stream[d][msgs[d][i].at].request <=> d = client
                 /\ Turned(stream[d], msgs[d], msgs[Peer(d)], i)
<1>1. stream[d] \in Seq(Units) /\ app[d] \in Applications BY Facts DEF Talk
<1>2. msgs[d] \in Seq(Messages) /\ Len(msgs[d]) \in Nat BY LenProperties DEF Talk
<1>3. Count(d) \in Nat
  <2>1. app[d].http_messages \in Seq(Nat) BY <1>1 DEF Applications
  <2> QED BY <2>1, LenProperties DEF Count
<1>4. DirTurns(d, msgs) BY DEF Talk, TurnsInv
<1>5. Count(d) <= Len(msgs[d]) BY <1>4 DEF DirTurns, Recording
<1>6. Count(d) \in 0 .. Len(msgs[d]) BY <1>2, <1>3, <1>5
<1>7. /\ MessagesOf(stream[d], msgs[d])
      /\ \A i \in DOMAIN msgs[d] :
            /\ stream[d][msgs[d][i].at].request <=> d = client
            /\ Turned(stream[d], msgs[d], msgs[Peer(d)], i)
  BY DEF Talk, TurnsBy
<1> QED BY <1>1, <1>2, <1>3, <1>4, <1>6, <1>7

(* Behind the messages recorded there is the next one, if anything is      *)
(* there.                                                                  *)
LEMMA FrontIs ==
    ASSUME NEW msgs, NEW client, Talk(msgs, client), NEW d \in Dirs, Parsing(d)
    PROVE  /\ app[d].http_skip = 0 /\ ~app[d].http_body_until_close
           /\ pos[d] = Upto(msgs[d], Count(d))
           /\ Avail(d) >= 1 =>
                 /\ Count(d) < Len(msgs[d]) /\ Count(d) + 1 \in 1 .. Len(msgs[d])
                 /\ NextOf(msgs, d).at = pos[d] + 1
                 /\ Ahead(d, 1) = stream[d][NextOf(msgs, d).at]
<1> DEFINE k == Count(d)
           m == NextOf(msgs, d)
<1>1. app[d].http_skip = 0 /\ ~app[d].http_body_until_close BY DEF Parsing
<1>2. /\ stream[d] \in Seq(Units) /\ msgs[d] \in Seq(Messages) /\ MessagesOf(stream[d], msgs[d])
      /\ DirTurns(d, msgs) /\ k \in Nat /\ k \in 0 .. Len(msgs[d]) /\ Len(msgs[d]) \in Nat
  BY TalkIs
<1>3. HInv BY DEF Talk
<1>4. /\ pos[d] \in Nat /\ arrived[d] \in Nat /\ arrived[d] <= Len(stream[d])
      /\ Avail(d) = arrived[d] - pos[d] /\ Len(stream[d]) \in Nat
  BY <1>3, Facts
<1>5. pos[d] + app[d].http_skip = Upto(msgs[d], k) BY <1>1, <1>2 DEF DirTurns, Recording
<1>6. pos[d] = Upto(msgs[d], k) BY <1>1, <1>4, <1>5
<1>7. ASSUME Avail(d) >= 1
      PROVE  k < Len(msgs[d]) /\ k + 1 \in 1 .. Len(msgs[d]) /\ m.at = pos[d] + 1
  <2>1. k = Len(msgs[d]) => Upto(msgs[d], k) = Len(stream[d]) BY <1>2, UptoIs
  <2>2. k # Len(msgs[d]) BY <1>4, <1>6, <1>7, <2>1
  <2>3. k < Len(msgs[d]) /\ k + 1 \in 1 .. Len(msgs[d]) /\ (k + 1) - 1 = k BY <1>2, <2>2
  <2>4. msgs[d][k + 1].at = Upto(msgs[d], (k + 1) - 1) + 1 BY <1>2, <2>3, MessageIs
  <2>5. m.at = Upto(msgs[d], k) + 1 BY <2>3, <2>4 DEF NextOf
  <2> QED BY <1>6, <2>3, <2>5
<1> QED BY <1>1, <1>6, <1>7 DEF Ahead

(* Its header is waited for, and never refused.                            *)
LEMMA FrontParses ==
    ASSUME NEW msgs, NEW client, Talk(msgs, client), NEW d \in Dirs, Parsing(d)
    PROVE  ParseResult(d) = IF Avail(d) < 2 THEN "UnexpectedEof" ELSE "None"
<1> DEFINE window == Min({Avail(d), MAX_HTTP_HEADER_BYTES})
<1>1. Avail(d) \in Nat /\ MAX_HTTP_HEADER_BYTES \in Nat /\ MAX_HTTP_HEADER_BYTES >= 2
  BY Facts, HttpAssumption DEF Talk, TurnsBy, HeadUnits
<1>2. /\ window \in Nat /\ window <= Avail(d) /\ window <= MAX_HTTP_HEADER_BYTES
      /\ window \in {Avail(d), MAX_HTTP_HEADER_BYTES}
  BY <1>1, MinOfTwo
<1>3. ParseResult(d) = (IF ~\E i \in 1 .. window : HasLine(Ahead(d, i)) THEN "UnexpectedEof"
                        ELSE IF Ahead(d, 1).t # "head" THEN "MalformedHeader"
                        ELSE IF window < 2 THEN "UnexpectedEof" ELSE "None")
  BY DEF ParseResult, HeadUnits
<1> HIDE DEF window
<1>4. window < 2 <=> Avail(d) < 2 BY <1>1, <1>2
<1>5. CASE window = 0
  <2>1. ~\E i \in 1 .. window : HasLine(Ahead(d, i)) BY <1>5
  <2> QED BY <1>3, <1>4, <1>5, <2>1
<1>6. CASE window >= 1
  <2>1. Avail(d) >= 1 BY <1>1, <1>2, <1>6
  <2>2. Count(d) + 1 \in 1 .. Len(msgs[d]) /\ Ahead(d, 1) = stream[d][NextOf(msgs, d).at]
    BY <2>1, FrontIs
  <2>3. Ahead(d, 1).t = "head"
    <3>1. stream[d] \in Seq(Units) /\ msgs[d] \in Seq(Messages) /\ MessagesOf(stream[d], msgs[d])
      BY TalkIs
    <3>2. stream[d][msgs[d][Count(d) + 1].at].t = "head" BY <2>2, <3>1, MessageIs
    <3> QED BY <2>2, <3>2 DEF NextOf
  <2>4. 1 \in 1 .. window /\ HasLine(Ahead(d, 1)) BY <1>2, <1>6, <2>3 DEF HasLine
  <2> QED BY <1>3, <1>4, <2>3, <2>4
<1> QED BY <1>2, <1>5, <1>6

(* A header that is there is the next message's.                           *)
LEMMA HeaderIs ==
    ASSUME NEW msgs, NEW client, Talk(msgs, client), NEW d \in Dirs, Parsing(d),
           ParseResult(d) = "None", NEW k, k = Count(d), NEW m, m = NextOf(msgs, d),
           NEW h, h = Ahead(d, 1)
    PROVE  /\ k \in Nat /\ k < Len(msgs[d]) /\ k + 1 \in 1 .. Len(msgs[d])
           /\ m = msgs[d][k + 1] /\ m \in Messages /\ m.at = pos[d] + 1 /\ m.end \in Nat
           /\ m.at < m.end /\ m.end <= Len(stream[d]) /\ m.head \in BOOLEAN
           /\ pos[d] = Upto(msgs[d], k) /\ pos[d] + 2 <= arrived[d]
           /\ h = stream[d][m.at] /\ h \in Heads /\ BodySound(stream[d], m)
           /\ Turned(stream[d], msgs[d], msgs[Peer(d)], k + 1) /\ (h.request <=> d = client)
           /\ app[d].http_skip = 0 /\ ~app[d].http_body_until_close
<1>1. Avail(d) >= 2 /\ Avail(d) = arrived[d] - pos[d] /\ Avail(d) \in Nat
      /\ arrived[d] \in Nat /\ pos[d] \in Nat
  BY Facts, FrontParses DEF Talk
<1>2. Avail(d) >= 1 BY <1>1
<1>3. /\ pos[d] = Upto(msgs[d], k) /\ k < Len(msgs[d]) /\ k + 1 \in 1 .. Len(msgs[d])
      /\ m.at = pos[d] + 1 /\ h = stream[d][m.at]
      /\ app[d].http_skip = 0 /\ ~app[d].http_body_until_close
  BY <1>2, FrontIs
<1>4. /\ stream[d] \in Seq(Units) /\ msgs[d] \in Seq(Messages) /\ MessagesOf(stream[d], msgs[d])
      /\ k \in Nat
      /\ \A i \in DOMAIN msgs[d] :
            /\ stream[d][msgs[d][i].at].request <=> d = client
            /\ Turned(stream[d], msgs[d], msgs[Peer(d)], i)
  BY TalkIs
<1>5. m = msgs[d][k + 1] BY DEF NextOf
<1>6. /\ m \in Messages /\ m.end \in Nat /\ m.at < m.end /\ m.end <= Len(stream[d])
      /\ m.head \in BOOLEAN /\ h \in Heads /\ BodySound(stream[d], m)
  BY <1>3, <1>4, <1>5, MessageIs
<1>7. k + 1 \in DOMAIN msgs[d] BY <1>3, <1>4, LenProperties
<1>8. Turned(stream[d], msgs[d], msgs[Peer(d)], k + 1) /\ (h.request <=> d = client)
  BY <1>3, <1>4, <1>5, <1>7
<1>9. pos[d] + 2 <= arrived[d] BY <1>1
<1> QED BY <1>3, <1>4, <1>5, <1>6, <1>8, <1>9

-----------------------------------------------------------------------------
(* Conversations that take turns: requests and their answers               *)

(* A request finds the queue empty: all before it were answered.           *)
LEMMA RequestAtFront ==
    ASSUME NEW msgs, NEW client, Talk(msgs, client), NEW d \in Dirs, Parsing(d),
           ParseResult(d) = "None", Ahead(d, 1).request
    PROVE  /\ d = client /\ app[d].pending_head_requests = <<>>
           /\ Done(msgs[d], Count(d)) = Count(d)
           /\ Done(msgs[Peer(d)], Count(Peer(d))) = Count(d)
           /\ Done(msgs[d], Count(d) + 1) = Count(d) + 1
           /\ NextOf(msgs, d).head = Ahead(d, 1).method_head
<1> DEFINE k == Count(d)
           e == Peer(d)
           m == NextOf(msgs, d)
           h == Ahead(d, 1)
           done == Done(msgs[e], Count(e))
<1>1. /\ k \in Nat /\ k + 1 \in 1 .. Len(msgs[d]) /\ m = msgs[d][k + 1] /\ m.at = pos[d] + 1
      /\ pos[d] + 2 <= arrived[d] /\ h = stream[d][m.at] /\ d = client
      /\ Turned(stream[d], msgs[d], msgs[Peer(d)], k + 1)
  BY HeaderIs
<1>2. e \in Dirs /\ e # d /\ pos[d] \in Nat /\ arrived[d] \in Nat BY Facts DEF Talk
<1>3. /\ stream[d] \in Seq(Units) /\ msgs[d] \in Seq(Messages) /\ MessagesOf(stream[d], msgs[d])
      /\ DirTurns(d, msgs) /\ k \in 0 .. Len(msgs[d]) /\ Len(msgs[d]) \in Nat
      /\ \A i \in DOMAIN msgs[d] :
            stream[d][msgs[d][i].at].request /\ Turned(stream[d], msgs[d], msgs[e], i)
  BY <1>1, TalkIs
<1>4. /\ stream[e] \in Seq(Units) /\ msgs[e] \in Seq(Messages) /\ MessagesOf(stream[e], msgs[e])
      /\ Count(e) \in 0 .. Len(msgs[e]) /\ Len(msgs[e]) \in Nat /\ Count(e) \in Nat
      /\ \A i \in DOMAIN msgs[e] :
            ~stream[e][msgs[e][i].at].request /\ Turned(stream[e], msgs[e], msgs[Peer(e)], i)
  BY <1>1, <1>2, TalkIs
<1>5. Done(msgs[d], k) = k /\ Done(msgs[d], k + 1) = k + 1
  <2>1. k + 1 \in 0 .. Len(msgs[d]) BY <1>1, <1>3
  <2> QED BY <1>3, <2>1, RequestsCount
<1>6. m.head = h.method_head BY <1>1 DEF Turned
<1>7. done \in Nat /\ done >= k
  <2>1. done \in Nat
    <3>1. CASE Count(e) = 0 BY <3>1 DEF Done
    <3>2. CASE Count(e) # 0
      <4>1. Count(e) \in 1 .. Len(msgs[e]) BY <1>4, <3>2
      <4>2. msgs[e][Count(e)].no \in Nat BY <1>4, <4>1, MessageIs
      <4> QED BY <3>2, <4>2 DEF Done
    <3> QED BY <3>1, <3>2
  <2>2. CASE k = 0
    <3> HIDE DEF done
    <3> QED BY <2>1, <2>2
  <2>3. CASE k # 0
    <3>1. k + 1 > 1 BY <1>1, <2>3
    <3>2. m.need > 0 /\ msgs[e][m.need].no >= (k + 1) - 1 /\ m.need \in 0 .. Len(msgs[e])
      BY <1>1, <3>1 DEF Turned
    <3>3. m.need <= Count(e)
      <4>1. m.at <= arrived[d] BY <1>1, <1>2
      <4>2. Seen(msgs[d], arrived[d], Count(e)) BY <1>3 DEF DirTurns
      <4> QED BY <1>1, <4>1, <4>2 DEF Seen
    <3>4. m.need \in 1 .. Len(msgs[e]) /\ Count(e) \in 1 .. Len(msgs[e]) /\ Count(e) # 0
      <4> HIDE DEF m, e
      <4> QED BY <1>4, <3>2, <3>3
    <3>5. msgs[e][m.need].no <= msgs[e][Count(e)].no BY <1>4, <3>3, <3>4, ResponsesCount
    <3>6. msgs[e][m.need].no \in Nat /\ msgs[e][Count(e)].no \in Nat BY <1>4, <3>4, MessageIs
    <3>7. done = msgs[e][Count(e)].no BY <3>4 DEF Done
    <3> HIDE DEF done, m, k, e
    <3> QED BY <1>1, <3>2, <3>5, <3>6, <3>7
  <2> QED BY <2>2, <2>3
<1>8. Queued(app[d].pending_head_requests, msgs[d], k, done) BY <1>1 DEF Talk, TurnsInv, Queues, Count
<1>9. app[d].pending_head_requests = <<>> /\ k = done
  <2> HIDE DEF done, k, e
  <2> QED BY <1>1, <1>5, <1>7, <1>8 DEF Queued
<1> QED BY <1>1, <1>5, <1>6, <1>9

(* A final response answers the last request recorded, which its client    *)
(* waits with.                                                             *)
LEMMA FinalAtFront ==
    ASSUME NEW msgs, NEW client, Talk(msgs, client), NEW d \in Dirs, Parsing(d),
           ParseResult(d) = "None", NEW h, h = Ahead(d, 1), ~h.request, ~Interim(h),
           NEW m, m = NextOf(msgs, d), NEW q, q = app[client].pending_head_requests,
           NEW r, r = Count(client)
    PROVE  /\ Peer(d) = client /\ r \in Nat /\ r > 0 /\ msgs[client][r].head = m.head
           /\ Done(msgs[client], r) = Done(msgs[d], Count(d) + 1)
           /\ Done(msgs[client], r) = Done(msgs[d], Count(d)) + 1
           /\ (q = <<m.head>> /\ Pops(d, h)) \/ (q = <<>> /\ ~m.head /\ ~Pops(d, h))
<1> DEFINE k == Count(d)
           rq == msgs[client]
           done == Done(msgs[d], k)
<1>1. /\ k \in Nat /\ k + 1 \in 1 .. Len(msgs[d]) /\ m = msgs[d][k + 1] /\ m.at = pos[d] + 1
      /\ pos[d] + 2 <= arrived[d] /\ h = stream[d][m.at] /\ d # client /\ h \in Heads
      /\ Turned(stream[d], msgs[d], msgs[Peer(d)], k + 1) /\ m.head \in BOOLEAN
  BY HeaderIs
<1>2. /\ Peer(d) \in Dirs /\ Peer(d) # d /\ pos[d] \in Nat /\ arrived[d] \in Nat /\ client \in Dirs
      /\ Peer(d) = client
  <2>1. client \in Dirs /\ HInv BY DEF Talk
  <2> QED BY <1>1, <2>1, Facts
<1>3. /\ msgs[d] \in Seq(Messages) /\ stream[d] \in Seq(Units) /\ MessagesOf(stream[d], msgs[d])
      /\ DirTurns(d, msgs) /\ Len(msgs[d]) \in Nat
  BY TalkIs
<1>4. /\ stream[client] \in Seq(Units) /\ rq \in Seq(Messages) /\ MessagesOf(stream[client], rq)
      /\ r \in 0 .. Len(rq) /\ Len(rq) \in Nat /\ r \in Nat
      /\ \A i \in DOMAIN rq :
            stream[client][rq[i].at].request /\ Turned(stream[client], rq, msgs[Peer(client)], i)
  BY <1>2, TalkIs
<1>5. Done(rq, r) = r BY <1>4, RequestsCount
<1>6. m.no = done + 1 /\ m.need = m.no /\ m.head = rq[m.need].head
  <2>1. done = (IF k + 1 = 1 THEN 0 ELSE msgs[d][(k + 1) - 1].no) BY <1>1 DEF Done
  <2> HIDE DEF k, done
  <2> QED BY <1>1, <1>2, <2>1 DEF Turned
<1>7. done \in Nat
  <2>1. CASE k = 0 BY <2>1 DEF Done
  <2>2. CASE k # 0
    <3>1. k \in 1 .. Len(msgs[d]) BY <1>1, <1>3, <2>2
    <3>2. msgs[d][k].no \in Nat BY <1>3, <3>1, MessageIs
    <3> QED BY <2>2, <3>2 DEF Done
  <2> QED BY <2>1, <2>2
<1>8. m.need <= r
  <2>1. m.at <= arrived[d] BY <1>1, <1>2
  <2>2. Seen(msgs[d], arrived[d], Count(Peer(d))) BY <1>3 DEF DirTurns
  <2> QED BY <1>1, <1>2, <2>1, <2>2 DEF Seen
<1>9. Queued(q, rq, r, done)
  <2>1. Peer(client) = d BY <1>2 DEF Peer, Dirs
  <2> QED BY <2>1 DEF Talk, TurnsInv, Queues, Count
<1> HIDE DEF done, rq
<1>10. r = done + 1 /\ r > 0 /\ (q = <<rq[r].head>> \/ (q = <<>> /\ ~rq[r].head))
  BY <1>4, <1>5, <1>6, <1>7, <1>8, <1>9 DEF Queued
<1>11. rq[r].head = m.head BY <1>6, <1>10
<1>12. Done(msgs[d], k + 1) = m.no BY <1>1 DEF Done
<1>13. Pops(d, h) <=> q # <<>>
  <2>1. h.status # "1xx" BY DEF Interim
  <2> QED BY <1>2, <2>1 DEF Pops
<1>14. <<m.head>> # <<>> OBVIOUS
<1> QED BY <1>2, <1>4, <1>5, <1>6, <1>10, <1>11, <1>12, <1>13, <1>14 DEF rq, done

(* So a message is taken to have no body when it has none.                 *)
LEMMA NoBodyIs ==
    ASSUME NEW msgs, NEW client, Talk(msgs, client), NEW d \in Dirs, Parsing(d),
           ParseResult(d) = "None", NEW h, h = Ahead(d, 1), NEW m, m = NextOf(msgs, d)
    PROVE  NoBody(d, h) <=> Bare(m, h)
<1>1. CASE h.request
  BY <1>1 DEF NoBody, HeadResponse, Pops, BodyForbidden, Bare
<1>2. CASE Interim(h)
  BY <1>2 DEF NoBody, BodyForbidden, Bare, Interim
<1>3. CASE ~h.request /\ ~Interim(h)
  <2> DEFINE q == app[client].pending_head_requests
  <2>1. /\ Peer(d) = client
        /\ (q = <<m.head>> /\ Pops(d, h)) \/ (q = <<>> /\ ~m.head /\ ~Pops(d, h))
    BY <1>3, FinalAtFront
  <2>2. HeadResponse(d, h) <=> m.head
    <3>1. CASE q = <<m.head>> /\ Pops(d, h)
      <4>1. Head(q) = m.head BY <3>1
      <4> QED BY <2>1, <3>1, <4>1 DEF HeadResponse
    <3>2. CASE ~m.head /\ ~Pops(d, h) BY <3>2 DEF HeadResponse
    <3> QED BY <2>1, <3>1, <3>2
  <2> QED BY <1>3, <2>2 DEF NoBody, Bare
<1> QED BY <1>1, <1>2, <1>3

-----------------------------------------------------------------------------
(* Conversations that take turns: bodies                                   *)

(* Max of a set of numbers with a bound is its greatest.                   *)
LEMMA MaxIsGreatest ==
    ASSUME NEW n \in Nat, NEW S \in SUBSET (0 .. n), 0 \in S, NEW y \in S
    PROVE  Max(S) \in S /\ y <= Max(S)
<1> DEFINE T == {n - z : z \in S}
<1>1. T \in SUBSET Nat /\ T # {} OBVIOUS
<1>2. PICK t \in T : \A z \in T : t <= z
  <2> HIDE DEF T
  <2> QED BY <1>1, LeastOf
<1>3. PICK x \in S : t = n - x OBVIOUS
<1>4. \A z \in S : x >= z
  <2> SUFFICES ASSUME NEW z \in S PROVE x >= z OBVIOUS
  <2>1. n - z \in T OBVIOUS
  <2>2. n - x <= n - z BY <1>2, <1>3, <2>1
  <2>3. x \in 0 .. n /\ z \in 0 .. n OBVIOUS
  <2> HIDE DEF T
  <2> QED BY <2>2, <2>3
<1> HIDE DEF T
<1>5. Max(S) \in S /\ \A z \in S : Max(S) >= z BY <1>4 DEF Max
<1>6. Max(S) >= y BY <1>5
<1>7. Max(S) \in 0 .. n /\ y \in 0 .. n BY <1>5
<1> QED BY <1>5, <1>6, <1>7

(* What is available of a message of n chunks at the front.                *)
Chunked(d, n) ==
    \A i \in 1 .. n : /\ 2 * i + 1 <= Avail(d) => Ahead(d, 2 * i + 1).t = "size"
                      /\ 2 * i + 2 <= Avail(d) => Ahead(d, 2 * i + 2).t = "data"

(* From the q-th chunk on those that are there are found, whole ones.      *)
LEMMA ChunksCounted ==
    ASSUME NEW d \in Dirs, Avail(d) \in Nat, NEW n \in Nat, Chunked(d, n),
           2 * n + 3 <= Avail(d) => Ahead(d, 2 * n + 3).t = "last",
           NEW q \in 0 .. n, 2 + 2 * q <= Avail(d),
           NEW c, c = ChunksFrom(d, 2 * q)
    PROVE  /\ c \in Nat /\ q + c <= n /\ 2 + 2 * (q + c) <= Avail(d)
           /\ 2 * n + 3 <= Avail(d) => q + c = n
           /\ Avail(d) < 2 * n + 3 => Avail(d) - 1 <= 2 + 2 * (q + c)
<1> DEFINE A == Avail(d)
           from == HeadUnits + 2 * q
           x == (A - from) \div 2
           P(z) == \A i \in 1 .. z : /\ Ahead(d, from + 2 * i - 1).t = "size"
                                     /\ Ahead(d, from + 2 * i).t = "data"
           S == {z \in 0 .. x : P(z)}
<1>1. c = Max(S) BY DEF ChunksFrom
<1>2. from = 2 + 2 * q /\ from \in Nat /\ from <= A /\ q \in Nat /\ q <= n BY DEF HeadUnits
<1>3. A \in Nat /\ x \in Nat /\ from + 2 * x <= A /\ A <= from + 2 * x + 1
  <2>1. A \in Nat /\ A - from \in Nat BY <1>2
  <2> HIDE DEF A, from
  <2> QED BY <1>2, <2>1
<1> HIDE DEF A, x
<1>4. S \in SUBSET (0 .. x) /\ 0 \in S
  <2>1. P(0) OBVIOUS
  <2> HIDE DEF P
  <2> QED BY <1>3, <2>1
<1>5. c \in S /\ \A y \in S : y <= c
  <2> HIDE DEF S
  <2> QED BY <1>1, <1>3, <1>4, MaxIsGreatest
<1>6. c \in Nat /\ c <= x /\ P(c)
  <2>1. c \in 0 .. x /\ P(c)
    <3> HIDE DEF P
    <3> QED BY <1>5
  <2>2. c \in Nat /\ c <= x BY <1>3, <2>1
  <2> QED BY <2>1, <2>2
<1>7. q + c <= n
  <2> SUFFICES ASSUME ~(q + c <= n) PROVE FALSE OBVIOUS
  <2> DEFINE i == n - q + 1
  <2>1. i \in 1 .. c /\ from + 2 * i - 1 = 2 * n + 3 /\ 2 * n + 3 <= A
    <3> HIDE DEF P, S, from
    <3> QED BY <1>2, <1>3, <1>6
  <2> HIDE DEF i
  <2>2. Ahead(d, from + 2 * i - 1).t = "size" BY <1>6, <2>1
  <2>3. Ahead(d, 2 * n + 3).t = "last" BY <2>1 DEF A
  <2> QED BY <2>1, <2>2, <2>3
<1>8. 2 + 2 * (q + c) <= A
  <2> HIDE DEF P, S, from
  <2> QED BY <1>2, <1>3, <1>6
<1>9. c = x \/ q + c = n
  <2> SUFFICES ASSUME c # x, q + c # n PROVE FALSE OBVIOUS
  <2>1. c + 1 \in 0 .. x /\ ~(c + 1 <= c)
    <3> HIDE DEF P, S, from
    <3> QED BY <1>3, <1>6
  <2>2. ASSUME NEW i \in 1 .. c + 1
        PROVE  Ahead(d, from + 2 * i - 1).t = "size" /\ Ahead(d, from + 2 * i).t = "data"
    <3>1. CASE i \in 1 .. c BY <1>6, <3>1
    <3>2. CASE i = c + 1
      <4> DEFINE j == q + c + 1
      <4>1. /\ j \in 1 .. n /\ from + 2 * i - 1 = 2 * j + 1 /\ from + 2 * i = 2 * j + 2
            /\ 2 * j + 1 <= A /\ 2 * j + 2 <= A
        <5> HIDE DEF P, S, from
        <5> QED BY <1>2, <1>3, <1>6, <1>7, <2>1, <3>2
      <4> HIDE DEF j, from
      <4>2. Ahead(d, 2 * j + 1).t = "size" /\ Ahead(d, 2 * j + 2).t = "data"
        BY <4>1 DEF Chunked, A
      <4> QED BY <4>1, <4>2
    <3> QED BY <1>6, <3>1, <3>2
  <2>3. c + 1 \in S
    <3>1. P(c + 1) BY <2>2
    <3> HIDE DEF P
    <3> QED BY <2>1, <3>1
  <2> QED BY <1>5, <2>1, <2>3
<1> HIDE DEF P, S, from
<1>10. 2 * n + 3 <= A => q + c = n BY <1>2, <1>3, <1>6, <1>7, <1>9
<1>11. A < 2 * n + 3 => A - 1 <= 2 + 2 * (q + c)
  BY <1>2, <1>3, <1>6, <1>7, <1>9
<1> QED BY <1>6, <1>7, <1>8, <1>10, <1>11 DEF A

(* So the body ends with the last chunk, or more is waited for.            *)
LEMMA ChunksEnd ==
    ASSUME NEW d \in Dirs, Avail(d) \in Nat, NEW n \in Nat, Chunked(d, n),
           2 * n + 3 <= Avail(d) => Ahead(d, 2 * n + 3).t = "last",
           NEW q \in 0 .. n, 2 + 2 * q <= Avail(d)
    PROVE  ChunkedUnits(d, 2 * q) = IF 2 * n + 3 <= Avail(d) THEN 2 * n + 1 ELSE -1
<1> DEFINE A == Avail(d)
           c == ChunksFrom(d, 2 * q)
           from == HeadUnits + 2 * q + 2 * c
<1>1. /\ c \in Nat /\ q + c <= n /\ 2 + 2 * (q + c) <= A
      /\ 2 * n + 3 <= A => q + c = n
      /\ A < 2 * n + 3 => A - 1 <= 2 + 2 * (q + c)
  BY ChunksCounted
<1>2. ChunkedResult(d, 2 * q) =
        (IF ~\E i \in from + 1 .. A : HasLine(Ahead(d, i)) THEN "UnexpectedEof"
         ELSE IF Ahead(d, from + 1).t = "last" THEN "None"
         ELSE IF Ahead(d, from + 1).t = "size" /\ A = from + 1 THEN "UnexpectedEof"
         ELSE "MalformedHeader")
  BY DEF ChunkedResult
<1>3. ChunkedUnits(d, 2 * q) =
        CASE ChunkedResult(d, 2 * q) = "None"            -> 2 * q + 2 * c + 1
          [] ChunkedResult(d, 2 * q) = "UnexpectedEof"   -> -1
          [] ChunkedResult(d, 2 * q) = "MalformedHeader" -> -2
  BY DEF ChunkedUnits
<1> HIDE DEF c
<1>4. from = 2 + 2 * (q + c) /\ from \in Nat /\ A \in Nat /\ q \in Nat BY <1>1 DEF HeadUnits
<1> HIDE DEF A, from
<1>5. CASE 2 * n + 3 <= A
  <2>1. from + 1 = 2 * n + 3 /\ from + 1 \in from + 1 .. A BY <1>1, <1>4, <1>5
  <2>2. Ahead(d, from + 1).t = "last" BY <1>5, <2>1 DEF A
  <2>3. HasLine(Ahead(d, from + 1)) BY <2>2 DEF HasLine
  <2>4. ChunkedResult(d, 2 * q) = "None" BY <1>2, <2>1, <2>2, <2>3
  <2>5. ChunkedUnits(d, 2 * q) = 2 * q + 2 * c + 1 BY <1>3, <2>4
  <2>6. 2 * q + 2 * c + 1 = 2 * n + 1 BY <1>1, <1>4, <1>5
  <2> QED BY <1>5, <2>5, <2>6 DEF A
<1>6. CASE ~(2 * n + 3 <= A)
  <2>1. ChunkedResult(d, 2 * q) = "UnexpectedEof"
    <3>1. A = from \/ A = from + 1 BY <1>1, <1>4, <1>6
    <3>2. CASE A = from
      <4>1. ~\E i \in from + 1 .. A : HasLine(Ahead(d, i)) BY <1>4, <3>2
      <4> QED BY <1>2, <4>1
    <3>3. CASE A = from + 1
      <4> DEFINE j == q + c + 1
      <4>1. j \in 1 .. n /\ 2 * j + 1 = from + 1 /\ 2 * j + 1 <= A BY <1>1, <1>4, <1>6, <3>3
      <4> HIDE DEF j
      <4>2. Ahead(d, from + 1).t = "size" BY <4>1 DEF Chunked, A
      <4> QED BY <1>2, <3>3, <4>2
    <3> QED BY <3>1, <3>2, <3>3
  <2> QED BY <1>3, <1>6, <2>1 DEF A
<1> QED BY <1>5, <1>6

(* The chunks of the message at the front.                                 *)
LEMMA ChunksAtFront ==
    ASSUME NEW msgs, NEW client, Talk(msgs, client), NEW d \in Dirs, Parsing(d),
           ParseResult(d) = "None", NEW h, h = Ahead(d, 1), NEW m, m = NextOf(msgs, d),
           h.chunked, ~Bare(m, h)
    PROVE  /\ ChunkedUnits(d, app[d].http_chunk_prefix) =
                 IF m.end <= arrived[d] THEN m.end - m.at - 1 ELSE -1
           /\ m.end - m.at <= MAX_HTTP_MESSAGE_BYTES
           /\ \E q \in Nat : app[d].http_chunk_prefix = 2 * q
           /\ HeadUnits + app[d].http_chunk_prefix <= Avail(d)
<1> DEFINE s == stream[d]
           p == pos[d]
           prefix == app[d].http_chunk_prefix
<1>1. /\ m = msgs[d][Count(d) + 1] /\ m.at = p + 1 /\ m.end \in Nat /\ p + 2 <= arrived[d]
      /\ h = s[m.at] /\ BodySound(s, m)
  BY HeaderIs
<1>2. /\ p \in Nat /\ arrived[d] \in Nat /\ Avail(d) \in Nat /\ Avail(d) = arrived[d] - p
      /\ prefix \in Nat /\ HInv
  BY Facts DEF Talk, Applications
<1>3. PICK n \in 0 .. m.end : Chunks(s, m, n) BY <1>1 DEF BodySound
<1>4. m.end - m.at <= MAX_HTTP_MESSAGE_BYTES BY <1>1 DEF BodySound
<1>5. n \in Nat /\ m.end = p + 2 * n + 3
  <2>1. m.end = m.at + 2 + 2 * n BY <1>3 DEF Chunks
  <2> HIDE DEF p
  <2> QED BY <1>1, <1>2, <2>1
<1>6. Chunked(d, n)
  <2> SUFFICES ASSUME NEW i \in 1 .. n
               PROVE  Ahead(d, 2 * i + 1).t = "size" /\ Ahead(d, 2 * i + 2).t = "data"
    BY DEF Chunked
  <2>1. s[m.at + 2 * i].t = "size" /\ s[m.at + 2 * i + 1].t = "data" BY <1>3 DEF Chunks
  <2>2. m.at + 2 * i = p + (2 * i + 1) /\ m.at + 2 * i + 1 = p + (2 * i + 2)
    <3> HIDE DEF p
    <3> QED BY <1>1, <1>2, <1>5
  <2>3. s[p + (2 * i + 1)].t = "size" /\ s[p + (2 * i + 2)].t = "data"
    <3> HIDE DEF p, s
    <3> QED BY <2>1, <2>2
  <2> QED BY <2>3 DEF Ahead
<1>7. Ahead(d, 2 * n + 3).t = "last"
  <2>1. s[m.end].t = "last" BY <1>3 DEF Chunks
  <2>2. m.end = p + (2 * n + 3)
    <3> HIDE DEF p
    <3> QED BY <1>2, <1>5
  <2>3. s[p + (2 * n + 3)].t = "last"
    <3> HIDE DEF p, s
    <3> QED BY <2>1, <2>2
  <2> QED BY <2>3 DEF Ahead
<1>8. PICK q \in 0 .. n : prefix = 2 * q /\ 2 + 2 * q <= Avail(d)
  <2>1. CASE prefix = 0
    <3>1. 0 \in 0 .. n /\ prefix = 2 * 0 /\ 2 + 2 * 0 <= Avail(d)
      <4> HIDE DEF p, prefix
      <4> QED BY <1>1, <1>2, <1>5, <2>1
    <3> QED BY <3>1
  <2>2. CASE prefix > 0
    <3>1. ChunksOfNext(app[d], s, msgs[d], Count(d)) BY TalkIs DEF DirTurns
    <3>2. (\E q \in 0 .. m.end : prefix = 2 * q) /\ m.at + 1 + prefix < m.end
      BY <1>1, <2>2, <3>1 DEF ChunksOfNext
    <3>3. PICK q \in 0 .. m.end : prefix = 2 * q BY <3>2
    <3>4. p + 2 + prefix <= arrived[d] BY <1>2, <2>2, PrefixAtHead DEF InChunks
    <3>5. q \in 0 .. n /\ 2 + 2 * q <= Avail(d)
      <4> HIDE DEF p, prefix
      <4> QED BY <1>1, <1>2, <1>5, <3>2, <3>3, <3>4
    <3> QED BY <3>3, <3>5
  <2> HIDE DEF prefix
  <2> QED BY <1>2, <2>1, <2>2
<1>9. ChunkedUnits(d, 2 * q) = IF 2 * n + 3 <= Avail(d) THEN 2 * n + 1 ELSE -1
  BY <1>2, <1>5, <1>6, <1>7, <1>8, ChunksEnd
<1>10. (2 * n + 3 <= Avail(d) <=> m.end <= arrived[d]) /\ 2 * n + 1 = m.end - m.at - 1
  <2> HIDE DEF p
  <2> QED BY <1>1, <1>2, <1>5
<1>11. ChunkedUnits(d, prefix) = IF m.end <= arrived[d] THEN m.end - m.at - 1 ELSE -1
  <2> HIDE DEF prefix
  <2> QED BY <1>8, <1>9, <1>10
<1>12. q \in Nat /\ HeadUnits + prefix <= Avail(d)
  <2> HIDE DEF prefix
  <2> QED BY <1>5, <1>8 DEF HeadUnits
<1> QED BY <1>4, <1>8, <1>11, <1>12

(* What the loop makes of the body at the front.                           *)
BodyJudged(m, h, n, p, arr, until, last) ==
    /\ n # -2
    /\ n \in Nat => \/ until /\ n = 0 /\ last
                    \/ ~until /\ p + 2 + n = m.end
    /\ n = -1 => /\ arr < m.end /\ ~Bare(m, h)
                 /\ h.chunked \/ (h.length \in Nat /\ p + 2 + h.length = m.end)
                 /\ h.chunked => m.end - m.at <= MAX_HTTP_MESSAGE_BYTES

LEMMA BodyIs ==
    ASSUME NEW msgs, NEW client, Talk(msgs, client), NEW d \in Dirs, Parsing(d),
           ParseResult(d) = "None", NEW h, h = Ahead(d, 1), NEW m, m = NextOf(msgs, d)
    PROVE  BodyJudged(m, h, BodyUnits(d, h), pos[d], arrived[d], UntilClose(d, h),
                      Count(d) + 1 = Len(msgs[d]))
<1> DEFINE s == stream[d]
           p == pos[d]
           n == BodyUnits(d, h)
           k == Count(d)
<1>1. /\ k \in Nat /\ k < Len(msgs[d]) /\ k + 1 \in 1 .. Len(msgs[d]) /\ m = msgs[d][k + 1]
      /\ m.at = p + 1 /\ m.end \in Nat /\ p + 2 <= arrived[d] /\ m.at < m.end
      /\ h = s[m.at] /\ BodySound(s, m) /\ h \in Heads /\ m.end <= Len(s)
  BY HeaderIs
<1>2. /\ p \in Nat /\ arrived[d] \in Nat /\ Avail(d) \in Nat /\ Avail(d) = arrived[d] - p
      /\ Len(s) \in Nat
  BY Facts DEF Talk
<1>3. NoBody(d, h) <=> Bare(m, h) BY NoBodyIs
<1>4. h.length \in Nat \cup {-1} /\ h.chunked \in BOOLEAN /\ h.request \in BOOLEAN
  BY <1>1 DEF Heads
<1>5. CASE Bare(m, h)
  <2>1. n = 0 /\ ~UntilClose(d, h) BY <1>3, <1>5 DEF BodyUnits, UntilClose
  <2>2. m.end = m.at + 1 BY <1>1, <1>5 DEF BodySound
  <2>3. p + 2 + n = m.end
    <3> HIDE DEF p, n
    <3> QED BY <1>1, <1>2, <2>1, <2>2
  <2> HIDE DEF p, n
  <2>4. n \in Nat /\ n # -1 /\ n # -2 BY <2>1
  <2> QED BY <2>1, <2>3, <2>4 DEF BodyJudged, n, p
<1>6. CASE ~Bare(m, h) /\ h.chunked
  <2>1. n = ChunkedUnits(d, app[d].http_chunk_prefix) /\ ~UntilClose(d, h)
    BY <1>3, <1>6 DEF BodyUnits, UntilClose
  <2>2. /\ n = (IF m.end <= arrived[d] THEN m.end - m.at - 1 ELSE -1)
        /\ m.end - m.at <= MAX_HTTP_MESSAGE_BYTES
    BY <1>6, <2>1, ChunksAtFront
  <2> HIDE DEF p, n
  <2>3. CASE m.end <= arrived[d]
    <3>1. n = m.end - m.at - 1 /\ n \in Nat BY <1>1, <1>2, <2>2, <2>3
    <3>0. m.at = p + 1 /\ p \in Nat /\ m.end \in Nat BY <1>1, <1>2
    <3>2. p + 2 + n = m.end BY <3>0, <3>1
    <3>3. n # -2 /\ n # -1 BY <3>1
    <3> QED BY <2>1, <3>1, <3>2, <3>3 DEF BodyJudged, n, p
  <2>4. CASE ~(m.end <= arrived[d])
    <3>1. n = -1 /\ arrived[d] < m.end BY <1>1, <1>2, <2>2, <2>4
    <3>2. n \notin Nat BY <3>1
    <3> QED BY <1>6, <2>2, <3>1, <3>2 DEF BodyJudged, n, p
  <2> QED BY <2>3, <2>4
<1>7. CASE ~Bare(m, h) /\ ~h.chunked /\ h.length >= 0
  <2>1. n = (IF h.length > Avail(d) - HeadUnits THEN -1 ELSE Max({h.length, 0}))
    BY <1>3, <1>7 DEF BodyUnits
  <2>2. m.end = m.at + 1 + h.length BY <1>1, <1>7 DEF BodySound
  <2>3. ~UntilClose(d, h)
    <3>1. ~(h.length < 0) BY <1>4, <1>7
    <3> QED BY <3>1 DEF UntilClose
  <2>4. h.length \in Nat /\ Max({h.length, 0}) = h.length
    <3>1. h.length \in Int BY <1>4
    <3> QED BY <1>4, <1>7, <3>1, MaxOfZero
  <2> HIDE DEF p, n
  <2>5. p + 2 + h.length = m.end BY <1>1, <1>2, <2>2, <2>4
  <2>6. CASE h.length > Avail(d) - HeadUnits
    <3>1. n = -1 /\ n \notin Nat BY <2>1, <2>6
    <3>2. arrived[d] < m.end BY <1>2, <2>4, <2>5, <2>6 DEF HeadUnits
    <3> QED BY <1>7, <2>4, <2>5, <3>1, <3>2 DEF BodyJudged, n, p
  <2>7. CASE ~(h.length > Avail(d) - HeadUnits)
    <3>1. n = h.length /\ n \in Nat /\ n # -1 /\ n # -2 BY <2>1, <2>4, <2>7
    <3> QED BY <2>3, <2>5, <3>1 DEF BodyJudged, n, p
  <2> QED BY <2>6, <2>7
<1>8. CASE ~Bare(m, h) /\ ~h.chunked /\ ~(h.length >= 0)
  <2>0. h.length = -1 /\ h.length < 0 BY <1>4, <1>8
  <2>1. n = (IF h.length > Avail(d) - HeadUnits THEN -1 ELSE Max({h.length, 0}))
    BY <1>3, <1>8 DEF BodyUnits
  <2>2. ~(h.length > Avail(d) - HeadUnits)
    <3> HIDE DEF p
    <3> QED BY <1>1, <1>2, <2>0 DEF HeadUnits
  <2>3. n = 0
    <3>1. h.length \in Int BY <2>0
    <3>2. Max({h.length, 0}) = 0 BY <2>0, <3>1, MaxOfZero
    <3> QED BY <2>1, <2>2, <3>2
  <2>4. CASE h.request
    <3>1. m.end = m.at + 1 /\ ~UntilClose(d, h) BY <1>1, <1>8, <2>4 DEF BodySound, UntilClose
    <3> HIDE DEF p, n
    <3>2. p + 2 + n = m.end BY <1>1, <1>2, <2>3, <3>1
    <3> QED BY <2>3, <3>1, <3>2 DEF BodyJudged, n, p
  <2>5. CASE ~h.request
    <3>1. m.end = Len(s) /\ UntilClose(d, h)
      BY <1>1, <1>3, <1>8, <2>0, <2>5 DEF BodySound, UntilClose
    <3>2. k + 1 = Len(msgs[d])
      <4> SUFFICES ASSUME k + 1 # Len(msgs[d]) PROVE FALSE OBVIOUS
      <4>1. /\ stream[d] \in Seq(Units) /\ msgs[d] \in Seq(Messages)
            /\ MessagesOf(stream[d], msgs[d]) /\ Len(msgs[d]) \in Nat
        BY TalkIs
      <4>2. k + 2 \in 1 .. Len(msgs[d]) /\ (k + 2) - 1 = k + 1 /\ k + 1 # 0
        <5> HIDE DEF k
        <5> QED BY <1>1, <4>1
      <4>3. /\ msgs[d][k + 2].at = Upto(msgs[d], (k + 2) - 1) + 1
            /\ msgs[d][k + 2].at < msgs[d][k + 2].end /\ msgs[d][k + 2].end <= Len(s)
            /\ msgs[d][k + 2].at \in Nat /\ msgs[d][k + 2].end \in Nat
        BY <4>1, <4>2, MessageIs
      <4>4. Upto(msgs[d], (k + 2) - 1) = Len(s)
        <5>1. Upto(msgs[d], k + 1) = msgs[d][k + 1].end BY <4>2 DEF Upto
        <5> QED BY <1>1, <3>1, <4>2, <5>1
      <4> HIDE DEF k, s
      <4> QED BY <1>2, <4>3, <4>4
    <3> HIDE DEF p, n, k
    <3> QED BY <2>3, <3>1, <3>2 DEF BodyJudged, n, p, k
  <2> QED BY <2>4, <2>5
<1> QED BY <1>5, <1>6, <1>7, <1>8

-----------------------------------------------------------------------------
(* Conversations that take turns: a turn of the loop                       *)

(* What a turn for one direction leaves of the other's Applications.       *)
Untouched(w, a) ==
    /\ w.http_messages = a.http_messages /\ w.http_chunk_prefix = a.http_chunk_prefix
    /\ w.http_skip = a.http_skip /\ w.http_body_until_close = a.http_body_until_close

(* What a turn has to show.                                                *)
LEMMA TurnTalks ==
    ASSUME NEW msgs, NEW client, Talk(msgs, client), NEW d \in Dirs, NEW apps, NEW eat, NEW go,
           go \in BOOLEAN, Turn(d, apps, eat, go), pos[d] + eat \in Nat,
           NEW v, v = apps[d], NEW j, j = Len(v.http_messages), j \in Nat, Count(d) <= j,
           Recording(v, stream[d], pos[d] + eat, arrived[d], msgs[d], j, go),
           ChunksOfNext(v, stream[d], msgs[d], j),
           Untouched(apps[Peer(d)], app[Peer(d)]), Queues(apps, msgs, client)
    PROVE  TurnsInv(msgs, client)'
<1> DEFINE e == Peer(d)
<1>1. /\ app' = apps /\ pos' = [pos EXCEPT ![d] = @ + eat] /\ stream' = stream
      /\ arrived' = arrived /\ polling = d /\ polling' = IF go THEN d ELSE "none"
  BY DEF Turn
<1>2. e \in Dirs /\ e # d /\ (\A f \in Dirs : f = d \/ f = e) /\ pos \in [Dirs -> Nat] /\ Peer(e) = d
  <2>1. Peer(Peer(d)) = d BY DEF Peer, Dirs
  <2> QED BY <2>1, Facts DEF Talk, HInv
<1>3. pos'[d] = pos[d] + eat /\ pos'[e] = pos[e] BY <1>1, <1>2
<1>4. (polling' = d) = go /\ (polling' = e) = FALSE /\ (polling = e) = FALSE
  <2>1. "none" \notin Dirs BY DEF Dirs
  <2> QED BY <1>1, <1>2, <2>1
<1>5. Count(d)' = j /\ Count(e)' = Count(e)
  BY <1>1, <1>2 DEF Count, Untouched
<1>6. DirTurns(d, msgs) /\ DirTurns(e, msgs) /\ Count(d) \in Nat /\ Count(e) \in Nat
      /\ msgs[e] \in Seq(Messages)
  BY <1>2, TalkIs
<1>7. DirTurns(d, msgs)'
  <2>1. Recording(app[d], stream[d], pos[d], arrived[d], msgs[d], Count(d), polling = d)'
    BY <1>1, <1>3, <1>4, <1>5
  <2>2. ChunksOfNext(app[d], stream[d], msgs[d], Count(d))' BY <1>1, <1>5
  <2>3. Seen(msgs[d], arrived[d], Count(e))' BY <1>1, <1>5, <1>6 DEF DirTurns
  <2> QED BY <2>1, <2>2, <2>3 DEF DirTurns
<1>8. DirTurns(e, msgs)'
  <2>1. Recording(app[e], stream[e], pos[e], arrived[e], msgs[e], Count(e), polling = e)'
    <3>1. Recording(app[e], stream[e], pos[e], arrived[e], msgs[e], Count(e), FALSE)
      BY <1>4, <1>6 DEF DirTurns
    <3>2. Recording(apps[e], stream[e], pos[e], arrived[e], msgs[e], Count(e), FALSE)
      BY <3>1 DEF Recording, Untouched
    <3> QED BY <1>1, <1>3, <1>4, <1>5, <3>2
  <2>2. ChunksOfNext(app[e], stream[e], msgs[e], Count(e))'
    <3>1. ChunksOfNext(apps[e], stream[e], msgs[e], Count(e)) BY <1>6 DEF DirTurns, ChunksOfNext, Untouched
    <3> QED BY <1>1, <1>5, <3>1
  <2>3. Seen(msgs[e], arrived[e], Count(d))'
    <3>1. Seen(msgs[e], arrived[e], Count(d)) BY <1>2, <1>6 DEF DirTurns
    <3>2. Seen(msgs[e], arrived[e], j)
      <4> SUFFICES ASSUME NEW i \in 1 .. Len(msgs[e]), msgs[e][i].at <= arrived[e]
                   PROVE  msgs[e][i].need <= j
        BY DEF Seen
      <4>1. msgs[e][i].need <= Count(d) BY <3>1 DEF Seen
      <4>2. msgs[e][i].need \in Nat
        <5>1. stream[e] \in Seq(Units) /\ MessagesOf(stream[e], msgs[e]) BY <1>2, TalkIs
        <5> QED BY <1>6, <5>1, MessageIs
      <4> QED BY <1>6, <4>1, <4>2
    <3> QED BY <1>1, <1>5, <3>2
  <2> QED BY <1>2, <2>1, <2>2, <2>3 DEF DirTurns
<1>9. Queues(app, msgs, client)' BY <1>1 DEF Queues
<1> QED BY <1>2, <1>7, <1>8, <1>9 DEF TurnsInv

(* A turn that changes neither the queues nor the messages.                *)
LEMMA QueuesStay ==
    ASSUME NEW msgs, NEW client, Talk(msgs, client), NEW d \in Dirs,
           NEW v, NEW apps, apps = [app EXCEPT ![d] = v],
           v.http_messages = app[d].http_messages,
           v.pending_head_requests = app[d].pending_head_requests
    PROVE  /\ apps[d] = v /\ Untouched(apps[Peer(d)], app[Peer(d)])
           /\ Queues(apps, msgs, client)
<1>1. /\ Peer(d) \in Dirs /\ Peer(d) # d /\ client \in Dirs /\ Peer(client) \in Dirs
      /\ app \in [Dirs -> Applications]
  BY Facts DEF Talk, HInv
<1>2. apps[d] = v /\ \A f \in Dirs : f # d => apps[f] = app[f] BY <1>1
<1>3. \A f \in Dirs : /\ apps[f].http_messages = app[f].http_messages
                      /\ apps[f].pending_head_requests = app[f].pending_head_requests
  BY <1>2
<1>4. Queues(app, msgs, client) BY DEF Talk, TurnsInv
<1>5. Queues(apps, msgs, client) BY <1>1, <1>3, <1>4 DEF Queues
<1> QED BY <1>1, <1>2, <1>5 DEF Untouched

-----------------------------------------------------------------------------
(* Conversations that take turns: the queue of HEAD requests               *)

(* The peer's queue when a header was parsed.                              *)
QueueLeft(d, h) ==
    LET q == app[Peer(d)].pending_head_requests IN IF Pops(d, h) THEN Tail(q) ELSE q

(* What there is of both Applications then, v being d's.                   *)
Popped(apps, d, h, v) ==
    /\ apps[d] = v /\ Untouched(apps[Peer(d)], app[Peer(d)])
    /\ apps[Peer(d)].pending_head_requests = QueueLeft(d, h)

LEMMA AfterPopIs ==
    ASSUME HInv, NEW d \in Dirs, NEW h, NEW v, NEW popped, popped = AfterPop(d, h),
           NEW apps, apps = [popped EXCEPT ![d] = v]
    PROVE  Popped(apps, d, h, v)
<1> DEFINE e == Peer(d)
           q == app[e].pending_head_requests
           w == [app[e] EXCEPT !.pending_head_requests = Tail(q)]
<1>1. e \in Dirs /\ e # d /\ app \in [Dirs -> Applications] /\ app[e] \in Applications
  BY Facts DEF HInv
<1>2. CASE Pops(d, h)
  <2>1. AfterPop(d, h) = [app EXCEPT ![e] = w]
    <3>1. AfterPop(d, h) = [app EXCEPT ![e].pending_head_requests = Tail(@)] BY <1>2 DEF AfterPop
    <3> HIDE DEF e
    <3> QED BY <1>1, <3>1 DEF Applications
  <2>2. Untouched(w, app[e]) /\ w.pending_head_requests = Tail(q)
    <3> HIDE DEF e, q
    <3> QED BY <1>1 DEF Applications, Untouched
  <2>3. apps[d] = v /\ apps[e] = w
    <3> HIDE DEF e, w
    <3> QED BY <1>1, <2>1
  <2>4. QueueLeft(d, h) = Tail(q) BY <1>2 DEF QueueLeft
  <2> HIDE DEF w
  <2> QED BY <2>2, <2>3, <2>4 DEF Popped
<1>3. CASE ~Pops(d, h)
  <2>1. apps = [app EXCEPT ![d] = v] BY <1>3 DEF AfterPop
  <2>2. apps[d] = v /\ apps[e] = app[e] BY <1>1, <2>1
  <2>3. QueueLeft(d, h) = q BY <1>3 DEF QueueLeft
  <2> QED BY <2>2, <2>3 DEF Untouched, Popped
<1> QED BY <1>2, <1>3

(* A turn that leaves v to d, the peer's messages and the queues right.    *)
Leaves(apps, d, v, msgs, client) ==
    apps[d] = v /\ Untouched(apps[Peer(d)], app[Peer(d)]) /\ Queues(apps, msgs, client)

(* A body that is waited for.                                              *)
LEMMA QueuesWait ==
    ASSUME NEW msgs, NEW client, Talk(msgs, client), NEW d \in Dirs, Parsing(d),
           ParseResult(d) = "None", NEW h, h = Ahead(d, 1), NEW m, m = NextOf(msgs, d),
           ~Bare(m, h), NEW v, v.http_messages = app[d].http_messages,
           v.pending_head_requests = app[d].pending_head_requests,
           NEW popped, popped = AfterPop(d, h),
           NEW apps, apps = [popped EXCEPT ![d] = v]
    PROVE  Leaves(apps, d, v, msgs, client)
<1>1. /\ apps[d] = v /\ Untouched(apps[Peer(d)], app[Peer(d)])
      /\ apps[Peer(d)].pending_head_requests = QueueLeft(d, h)
  <2>1. HInv BY DEF Talk
  <2>2. Popped(apps, d, h, v) BY <2>1, AfterPopIs
  <2> QED BY <2>2 DEF Popped
<1>2. CASE ~Pops(d, h)
  <2>1. apps = [app EXCEPT ![d] = v] BY <1>2 DEF AfterPop
  <2> QED BY <2>1, QueuesStay DEF Leaves
<1>3. CASE Pops(d, h)
  <2> DEFINE q == app[client].pending_head_requests
             r == Count(client)
  <2>1. ~h.request /\ ~Interim(h) BY <1>3 DEF Pops, Interim
  <2>2. /\ Peer(d) = client /\ r > 0 /\ msgs[client][r].head = m.head
        /\ Done(msgs[client], r) = Done(msgs[d], Count(d)) + 1 /\ q = <<m.head>>
    BY <1>3, <2>1, FinalAtFront
  <2>3. ~m.head BY <2>1 DEF Bare
  <2>4. QueueLeft(d, h) = <<>> BY <1>3, <2>2 DEF QueueLeft
  <2>5. Peer(client) = d BY <2>2 DEF Peer, Dirs
  <2>6. Len(apps[client].http_messages) = r /\ Len(apps[d].http_messages) = Count(d)
    BY <1>1, <2>2 DEF Untouched, Count
  <2>7. apps[d].pending_head_requests = <<>>
    <3>1. app[d].pending_head_requests = <<>> BY <2>5 DEF Talk, TurnsInv, Queues
    <3> QED BY <1>1, <3>1
  <2> HIDE DEF q, r
  <2>8. Queued(<<>>, msgs[client], r, Done(msgs[d], Count(d))) BY <2>2, <2>3 DEF Queued
  <2>9. Queues(apps, msgs, client)
    BY <1>1, <2>2, <2>4, <2>5, <2>6, <2>7, <2>8 DEF Queues
  <2> QED BY <1>1, <2>9 DEF Leaves
<1> QED BY <1>2, <1>3

(* The queue of the sender of a message when that is recorded.             *)
QueueWith(q, h) == IF h.request /\ Len(q) < MAX_PENDING_REQUESTS THEN Append(q, h.method_head) ELSE q

(* A message that is recorded.                                             *)
LEMMA QueuesRecord ==
    ASSUME NEW msgs, NEW client, Talk(msgs, client), NEW d \in Dirs, Parsing(d),
           ParseResult(d) = "None", NEW h, h = Ahead(d, 1),
           NEW v, Len(v.http_messages) = Count(d) + 1,
           v.pending_head_requests = QueueWith(app[d].pending_head_requests, h),
           NEW popped, popped = AfterPop(d, h),
           NEW apps, apps = [popped EXCEPT ![d] = v]
    PROVE  Leaves(apps, d, v, msgs, client)
<1> DEFINE k == Count(d)
           e == Peer(d)
           m == NextOf(msgs, d)
<1>1. /\ apps[d] = v /\ Untouched(apps[e], app[e])
      /\ apps[e].pending_head_requests = QueueLeft(d, h)
  <2>1. HInv BY DEF Talk
  <2>2. Popped(apps, d, h, v) BY <2>1, AfterPopIs
  <2> QED BY <2>2 DEF Popped
<1>2. /\ k \in Nat /\ k + 1 \in 1 .. Len(msgs[d]) /\ m = msgs[d][k + 1]
      /\ Turned(stream[d], msgs[d], msgs[e], k + 1) /\ (h.request <=> d = client)
      /\ h = stream[d][m.at]
  BY HeaderIs
<1>3. /\ Len(apps[d].http_messages) = k + 1 /\ Len(apps[e].http_messages) = Count(e)
      /\ apps[d].pending_head_requests = QueueWith(app[d].pending_head_requests, h)
  BY <1>1 DEF Untouched, Count
<1>4. Peer(e) = d /\ client \in Dirs /\ e # d /\ (client = d \/ client = e) /\ Queues(app, msgs, client)
  <2>1. Peer(e) = d BY DEF Peer, Dirs
  <2> QED BY <2>1, Facts DEF Talk, TurnsInv
<1>5. CASE h.request
  <2>1. /\ d = client /\ app[d].pending_head_requests = <<>>
        /\ Done(msgs[e], Count(e)) = k /\ Done(msgs[d], k + 1) = k + 1
        /\ m.head = h.method_head
    BY <1>5, RequestAtFront
  <2>2. ~Pops(d, h) BY <1>5 DEF Pops
  <2>3. apps[e].pending_head_requests = <<>>
    <3>1. app[e].pending_head_requests = <<>> BY <1>4, <2>1 DEF Queues
    <3> QED BY <1>1, <2>2, <3>1 DEF QueueLeft
  <2>4. apps[d].pending_head_requests = <<m.head>>
    <3>1. MAX_PENDING_REQUESTS > 0 BY DEF Talk, TurnsBy
    <3>2. Len(<<>>) = 0 /\ Append(<<>>, h.method_head) = <<h.method_head>> OBVIOUS
    <3>3. Len(<<>>) < MAX_PENDING_REQUESTS BY <3>1, <3>2, HttpAssumption
    <3> QED BY <1>3, <1>5, <2>1, <3>2, <3>3 DEF QueueWith
  <2>5. msgs[d][k + 1].head = m.head /\ k + 1 > 0
    <3> HIDE DEF k, m
    <3> QED BY <1>2
  <2> HIDE DEF k, e, m
  <2>6. Queued(<<m.head>>, msgs[d], k + 1, k) BY <2>1, <2>5 DEF Queued
  <2>7. Queues(apps, msgs, client) BY <1>3, <2>1, <2>3, <2>4, <2>6 DEF Queues, e
  <2> QED BY <1>1, <2>7 DEF Leaves, e
<1>6. CASE ~h.request /\ ~Interim(h)
  <2> DEFINE q == app[client].pending_head_requests
             r == Count(client)
  <2>1. /\ Peer(d) = client /\ Done(msgs[client], r) = Done(msgs[d], k + 1)
        /\ (q = <<m.head>> /\ Pops(d, h)) \/ (q = <<>> /\ ~Pops(d, h))
    <3> HIDE DEF q, r
    <3>1. m = NextOf(msgs, d) /\ q = app[client].pending_head_requests /\ r = Count(client) BY DEF q, r
    <3> HIDE DEF m
    <3> QED BY <1>6, <3>1, FinalAtFront
  <2>2. QueueLeft(d, h) = <<>>
    <3>1. \A x : Tail(<<x>>) = <<>> OBVIOUS
    <3>2. QueueLeft(d, h) = (IF Pops(d, h) THEN Tail(q) ELSE q) BY <2>1 DEF QueueLeft
    <3> HIDE DEF q, r, m
    <3> QED BY <2>1, <3>1, <3>2
  <2>3. apps[d].pending_head_requests = <<>>
    <3>1. app[d].pending_head_requests = <<>> BY <1>4, <2>1 DEF Queues
    <3> QED BY <1>3, <1>6, <3>1 DEF QueueWith
  <2>4. Queued(<<>>, msgs[client], r, Done(msgs[d], k + 1)) BY <2>1 DEF Queued
  <2>5. Queues(apps, msgs, client)
    <3> HIDE DEF k
    <3> QED BY <1>1, <1>3, <1>4, <2>1, <2>2, <2>3, <2>4 DEF Queues
  <2> QED BY <1>1, <2>5 DEF Leaves
<1>7. CASE Interim(h)
  <2>1. ~h.request /\ ~Pops(d, h) /\ client = e /\ d # client BY <1>2, <1>4, <1>7 DEF Interim, Pops
  <2>2. Done(msgs[d], k + 1) = Done(msgs[d], k)
    <3>1. m.no = (IF k + 1 = 1 THEN 0 ELSE msgs[d][(k + 1) - 1].no) BY <1>2, <1>7 DEF Turned
    <3> HIDE DEF k, m
    <3> QED BY <1>2, <3>1 DEF Done
  <2>3. /\ apps[d].pending_head_requests = app[d].pending_head_requests
        /\ apps[e].pending_head_requests = app[e].pending_head_requests
    BY <1>1, <1>3, <2>1 DEF QueueWith, QueueLeft
  <2>4. Queues(apps, msgs, client)
    <3> HIDE DEF k, e, m
    <3>1. Peer(e) = d BY <1>4
    <3> QED BY <1>3, <1>4, <2>1, <2>2, <2>3 DEF Queues, Count, k
  <2> QED BY <1>1, <2>4 DEF Leaves
<1> QED BY <1>5, <1>6, <1>7

-----------------------------------------------------------------------------
(* Conversations that take turns: the turns that record nothing            *)

(* A direction as the invariant has it.                                    *)
LEMMA RecordingIs ==
    ASSUME NEW msgs, NEW client, Talk(msgs, client), NEW d \in Dirs,
           NEW a, a = app[d], NEW k, k = Count(d)
    PROVE  /\ a \in Applications /\ a.http_skip \in Nat /\ a.http_chunk_prefix \in Nat
           /\ a.http_messages \in Seq(Nat) /\ k = Len(a.http_messages)
           /\ k \in Nat /\ Len(msgs[d]) \in Nat /\ k <= Len(msgs[d])
           /\ \A i \in 1 .. k : a.http_messages[i] = msgs[d][i].at
           /\ k > 0 => msgs[d][k].at < pos[d] /\ msgs[d][k].at \in Nat
           /\ IF a.http_body_until_close THEN k > 0 /\ k = Len(msgs[d]) /\ a.http_skip = 0
              ELSE pos[d] + a.http_skip = Upto(msgs[d], k)
           /\ ChunksOfNext(a, stream[d], msgs[d], k)
<1>1. HInv BY DEF Talk
<1>2. a \in Applications BY <1>1, Facts
<1>3. a.http_skip \in Nat /\ a.http_chunk_prefix \in Nat /\ a.http_messages \in Seq(Nat)
      /\ k = Len(a.http_messages)
  BY <1>2 DEF Applications, Count
<1>4. /\ DirTurns(d, msgs) /\ k \in Nat /\ Len(msgs[d]) \in Nat
      /\ stream[d] \in Seq(Units) /\ msgs[d] \in Seq(Messages) /\ MessagesOf(stream[d], msgs[d])
  BY TalkIs
<1>5. Recording(a, stream[d], pos[d], arrived[d], msgs[d], k, polling = d)
      /\ ChunksOfNext(a, stream[d], msgs[d], k)
  BY <1>4 DEF DirTurns
<1>6. k > 0 => msgs[d][k].at \in Nat
  <2>1. k > 0 => k \in 1 .. Len(msgs[d]) BY <1>4, <1>5 DEF Recording
  <2> QED BY <1>4, <2>1, MessageIs
<1> QED BY <1>2, <1>3, <1>4, <1>5, <1>6 DEF Recording

(* The message after the k-th starts behind that and has a header.         *)
LEMMA AfterIs ==
    ASSUME NEW msgs, NEW client, Talk(msgs, client), NEW d \in Dirs, Count(d) < Len(msgs[d])
    PROVE  /\ NextOf(msgs, d).end \in Nat /\ Upto(msgs[d], Count(d)) \in Nat
           /\ Upto(msgs[d], Count(d)) + 2 <= NextOf(msgs, d).end
<1> DEFINE k == Count(d)
<1>1. /\ stream[d] \in Seq(Units) /\ msgs[d] \in Seq(Messages) /\ MessagesOf(stream[d], msgs[d])
      /\ k \in Nat /\ Len(msgs[d]) \in Nat
  BY TalkIs
<1>2. k + 1 \in 1 .. Len(msgs[d]) /\ (k + 1) - 1 = k
  <2> HIDE DEF k
  <2>1. k < Len(msgs[d]) BY DEF k
  <2> QED BY <1>1, <2>1
<1>3. /\ msgs[d][k + 1].at = Upto(msgs[d], (k + 1) - 1) + 1 /\ msgs[d][k + 1].at < msgs[d][k + 1].end
      /\ msgs[d][k + 1].at \in Nat /\ msgs[d][k + 1].end \in Nat
      /\ Upto(msgs[d], (k + 1) - 1) \in Nat
  BY <1>1, <1>2, MessageIs
<1> HIDE DEF k
<1>4. Upto(msgs[d], k) \in Nat /\ Upto(msgs[d], k) + 2 <= msgs[d][k + 1].end BY <1>2, <1>3
<1> QED BY <1>3, <1>4 DEF k, NextOf

(* The rest of a body.                                                     *)
LEMMA SkipBodyTalks ==
    ASSUME NEW msgs, NEW client, Talk(msgs, client), NEW d \in Dirs, SkipBody(d)
    PROVE  TurnsInv(msgs, client)'
<1> DEFINE a == app[d]
           k == Count(d)
           n == Min({a.http_skip, Avail(d)})
           v == [a EXCEPT !.http_skip = @ - n]
           go == (a.http_skip = n)
           apps == [app EXCEPT ![d] = v]
<1>0. HInv BY DEF Talk
<1>1. /\ a \in Applications /\ a.http_skip \in Nat /\ k = Len(a.http_messages)
      /\ k \in Nat /\ Len(msgs[d]) \in Nat /\ k <= Len(msgs[d])
      /\ \A i \in 1 .. k : a.http_messages[i] = msgs[d][i].at
      /\ k > 0 => msgs[d][k].at < pos[d] /\ msgs[d][k].at \in Nat
      /\ IF a.http_body_until_close THEN k > 0 /\ k = Len(msgs[d]) /\ a.http_skip = 0
         ELSE pos[d] + a.http_skip = Upto(msgs[d], k)
      /\ ChunksOfNext(a, stream[d], msgs[d], k)
  BY RecordingIs
<1>2. /\ pos[d] \in Nat /\ arrived[d] \in Nat /\ Avail(d) \in Nat /\ Avail(d) = arrived[d] - pos[d]
  BY <1>0, Facts
<1>3. n \in Nat /\ n <= a.http_skip /\ n <= Avail(d) /\ n \in {a.http_skip, Avail(d)}
  BY <1>1, <1>2, MinOfTwo
<1>4. a.http_skip > 0 /\ Turn(d, apps, n, go)
  <2>1. Turn(d, [app EXCEPT ![d].http_skip = @ - n], n, go) /\ a.http_skip > 0 BY DEF SkipBody
  <2>2. [app EXCEPT ![d].http_skip = @ - n] = apps
    <3> HIDE DEF n
    <3> QED BY <1>0 DEF HInv
  <2> QED BY <2>1, <2>2
<1>5. ~a.http_body_until_close /\ pos[d] + a.http_skip = Upto(msgs[d], k) BY <1>1, <1>4
<1> HIDE DEF n
<1>6. /\ v.http_skip = a.http_skip - n /\ v.http_messages = a.http_messages
      /\ v.http_chunk_prefix = a.http_chunk_prefix
      /\ v.http_body_until_close = a.http_body_until_close
      /\ v.pending_head_requests = a.pending_head_requests
  BY <1>1 DEF Applications
<1>7. /\ apps[d] = v /\ Untouched(apps[Peer(d)], app[Peer(d)]) /\ Queues(apps, msgs, client)
  <2>1. apps = [app EXCEPT ![d] = v] OBVIOUS
  <2> HIDE DEF v, apps
  <2> QED BY <1>6, <2>1, QueuesStay DEF a
<1> HIDE DEF v, apps
<1>8. go \in BOOLEAN /\ pos[d] + n \in Nat BY <1>2, <1>3
<1>9. Recording(v, stream[d], pos[d] + n, arrived[d], msgs[d], k, go)
  <2>1. k <= Len(msgs[d]) /\ \A i \in 1 .. k : v.http_messages[i] = msgs[d][i].at BY <1>1, <1>6
  <2>2. k > 0 => msgs[d][k].at < pos[d] + n
    <3>1. k > 0 => msgs[d][k].at < pos[d] /\ msgs[d][k].at \in Nat BY <1>1
    <3> HIDE DEF k, a
    <3> QED BY <1>2, <1>3, <3>1
  <2>3. ~v.http_body_until_close BY <1>5, <1>6
  <2>4. pos[d] + n + v.http_skip = Upto(msgs[d], k)
    <3> HIDE DEF k, a
    <3> QED BY <1>1, <1>2, <1>3, <1>5, <1>6
  <2>5. ~go /\ k < Len(msgs[d]) => arrived[d] < msgs[d][k + 1].end
    <3> SUFFICES ASSUME ~go, k < Len(msgs[d]) PROVE arrived[d] < msgs[d][k + 1].end OBVIOUS
    <3>1. /\ msgs[d][k + 1].end \in Nat /\ Upto(msgs[d], k) \in Nat
          /\ Upto(msgs[d], k) + 2 <= msgs[d][k + 1].end
      BY AfterIs DEF NextOf
    <3>2. n = Avail(d) /\ n < a.http_skip /\ a.http_skip \in Nat BY <1>1, <1>3
    <3> HIDE DEF k, a
    <3>3. pos[d] + n = arrived[d] BY <1>2, <3>2
    <3>4. pos[d] + n < Upto(msgs[d], k) BY <1>2, <1>3, <1>5, <3>2
    <3> QED BY <1>2, <3>1, <3>3, <3>4
  <2> QED BY <2>1, <2>2, <2>3, <2>4, <2>5 DEF Recording
<1>10. ChunksOfNext(v, stream[d], msgs[d], k) BY <1>1, <1>6 DEF ChunksOfNext
<1>11. k = Len(v.http_messages) /\ k <= k BY <1>1, <1>6
<1> HIDE DEF go
<1> QED BY <1>1, <1>4, <1>7, <1>8, <1>9, <1>10, <1>11, TurnTalks

(* A turn that only eats.                                                  *)
LEMMA EatsTalk ==
    ASSUME NEW msgs, NEW client, Talk(msgs, client), NEW d \in Dirs, NEW eat \in Nat,
           Turn(d, app, eat, FALSE),
           Recording(app[d], stream[d], pos[d] + eat, arrived[d], msgs[d], Count(d), FALSE)
    PROVE  TurnsInv(msgs, client)'
<1> DEFINE a == app[d]
           k == Count(d)
<1>0. HInv BY DEF Talk
<1>1. app = [app EXCEPT ![d] = a] BY <1>0 DEF HInv
<1>2. /\ a.http_messages = app[d].http_messages
      /\ a.pending_head_requests = app[d].pending_head_requests
  OBVIOUS
<1>3. Untouched(app[Peer(d)], app[Peer(d)]) /\ Queues(app, msgs, client)
  BY DEF Untouched, Talk, TurnsInv
<1>4. /\ k = Len(a.http_messages) /\ k \in Nat /\ k <= k /\ ChunksOfNext(a, stream[d], msgs[d], k)
  <2>1. /\ k = Len(a.http_messages) /\ k \in Nat /\ ChunksOfNext(a, stream[d], msgs[d], k)
    BY RecordingIs
  <2> HIDE DEF k
  <2> QED BY <2>1
<1>5. pos[d] + eat \in Nat
  <2>1. pos[d] \in Nat BY <1>0, Facts
  <2> QED BY <2>1
<1> QED BY <1>3, <1>4, <1>5, TurnTalks

(* A body that lasts to the close.                                         *)
LEMMA EatTalks ==
    ASSUME NEW msgs, NEW client, Talk(msgs, client), NEW d \in Dirs, EatUntilClose(d)
    PROVE  TurnsInv(msgs, client)'
<1> DEFINE a == app[d]
           k == Count(d)
           n == Avail(d)
<1>0. HInv BY DEF Talk
<1>1. /\ k \in Nat /\ Len(msgs[d]) \in Nat /\ k <= Len(msgs[d])
      /\ \A i \in 1 .. k : a.http_messages[i] = msgs[d][i].at
      /\ k > 0 => msgs[d][k].at < pos[d] /\ msgs[d][k].at \in Nat
      /\ IF a.http_body_until_close THEN k > 0 /\ k = Len(msgs[d]) /\ a.http_skip = 0
         ELSE pos[d] + a.http_skip = Upto(msgs[d], k)
  BY RecordingIs
<1>2. pos[d] \in Nat /\ n \in Nat BY <1>0, Facts
<1>3. a.http_body_until_close /\ Turn(d, app, n, FALSE) BY DEF EatUntilClose
<1> HIDE DEF n
<1>4. k > 0 => msgs[d][k].at < pos[d] + n
  <2> HIDE DEF k
  <2> QED BY <1>1, <1>2
<1>5. k = Len(msgs[d]) /\ ~(k < Len(msgs[d])) /\ k > 0 /\ a.http_skip = 0
  <2> HIDE DEF k
  <2> QED BY <1>1, <1>3
<1>6. Recording(a, stream[d], pos[d] + n, arrived[d], msgs[d], k, FALSE)
  BY <1>1, <1>3, <1>4, <1>5 DEF Recording
<1> QED BY <1>2, <1>3, <1>6, EatsTalk

(* A header that is not there yet.                                         *)
LEMMA HeaderTalks ==
    ASSUME NEW msgs, NEW client, Talk(msgs, client), NEW d \in Dirs,
           HeaderIncomplete(d) \/ HeaderMalformed(d)
    PROVE  TurnsInv(msgs, client)'
<1> DEFINE a == app[d]
           k == Count(d)
<1>0. HInv BY DEF Talk
<1>1. Parsing(d) /\ ParseResult(d) \in {"UnexpectedEof", "MalformedHeader"}
  BY DEF HeaderIncomplete, HeaderMalformed
<1>2. Avail(d) < 2 /\ ParseResult(d) = "UnexpectedEof"
  <2>1. ParseResult(d) = IF Avail(d) < 2 THEN "UnexpectedEof" ELSE "None" BY <1>1, FrontParses
  <2> QED BY <1>1, <2>1
<1>3. MAX_HTTP_HEADER_BYTES \in Nat /\ MAX_HTTP_HEADER_BYTES >= 2
  BY HttpAssumption DEF Talk, TurnsBy, HeadUnits
<1>4. /\ pos[d] \in Nat /\ arrived[d] \in Nat /\ Avail(d) \in Nat /\ Avail(d) = arrived[d] - pos[d]
  BY <1>0, Facts
<1>5. Turn(d, app, 0, FALSE)
  <2>1. ~(Avail(d) > MAX_HTTP_HEADER_BYTES) BY <1>2, <1>3, <1>4
  <2> QED BY <1>2, <2>1 DEF HeaderIncomplete, HeaderMalformed
<1>6. /\ k \in Nat /\ Len(msgs[d]) \in Nat /\ k <= Len(msgs[d])
      /\ \A i \in 1 .. k : a.http_messages[i] = msgs[d][i].at
      /\ k > 0 => msgs[d][k].at < pos[d] /\ msgs[d][k].at \in Nat
      /\ IF a.http_body_until_close THEN k > 0 /\ k = Len(msgs[d]) /\ a.http_skip = 0
         ELSE pos[d] + a.http_skip = Upto(msgs[d], k)
  BY RecordingIs
<1>7. k < Len(msgs[d]) => arrived[d] < msgs[d][k + 1].end
  <2> SUFFICES ASSUME k < Len(msgs[d]) PROVE arrived[d] < msgs[d][k + 1].end OBVIOUS
  <2>1. /\ msgs[d][k + 1].end \in Nat /\ Upto(msgs[d], k) \in Nat
        /\ Upto(msgs[d], k) + 2 <= msgs[d][k + 1].end
    BY AfterIs DEF NextOf
  <2>2. pos[d] = Upto(msgs[d], k) BY <1>1, FrontIs
  <2> HIDE DEF k
  <2> QED BY <1>2, <1>4, <2>1, <2>2
<1>8. pos[d] + 0 = pos[d] BY <1>4
<1>9. Recording(a, stream[d], pos[d] + 0, arrived[d], msgs[d], k, FALSE)
  BY <1>6, <1>7, <1>8 DEF Recording
<1> DEFINE eat == 0
<1>10. eat \in Nat OBVIOUS
<1> HIDE DEF eat
<1>11. Turn(d, app, eat, FALSE)
       /\ Recording(app[d], stream[d], pos[d] + eat, arrived[d], msgs[d], Count(d), FALSE)
  BY <1>5, <1>9 DEF eat
<1> QED BY <1>10, <1>11, EatsTalk

-----------------------------------------------------------------------------
(* Conversations that take turns: the turns at a header                    *)

(* Recorded touches only the messages and the queue.                       *)
LEMMA RecordedQueues ==
    ASSUME NEW d, NEW a \in Applications, NEW h \in Heads, pos[d] \in Nat,
           NEW v, v = Recorded(a, d, h)
    PROVE  v.pending_head_requests = QueueWith(a.pending_head_requests, h)
<1> DEFINE m == Append(a.http_messages, pos[d] + 1)
           w == QueueWith(a.pending_head_requests, h)
<1>1. v = [a EXCEPT !.http_messages = m, !.pending_head_requests = w] BY DEF Recorded, QueueWith
<1> HIDE DEF m, w
<1>2. v.pending_head_requests = w BY <1>1 DEF Applications
<1> QED BY <1>2 DEF w

(* All up to the end of the k-th message is consumed, or will be.          *)
Behind(v, q, ms, k) ==
    IF v.http_body_until_close THEN k = Len(ms) /\ v.http_skip = 0
    ELSE q + v.http_skip = ms[k].end

(* The k messages recorded are the first of ms.                            *)
First(x, ms, k) ==
    x \in Seq(Nat) /\ k = Len(x) /\ k < Len(ms) /\ \A i \in 1 .. k : x[i] = ms[i].at

(* Another message recorded, up to which all is consumed or skipped.       *)
LEMMA RecordingNext ==
    ASSUME NEW x, NEW ms \in Seq(Messages), NEW k \in Nat, First(x, ms, k),
           NEW p \in Nat, ms[k + 1].at = p + 1, NEW v, v.http_messages = WithNext(x, p + 1),
           NEW q \in Nat, p + 1 < q, Behind(v, q, ms, k + 1), NEW s, NEW n
    PROVE  Len(v.http_messages) = k + 1 /\ Recording(v, s, q, n, ms, k + 1, TRUE)
<1> DEFINE y == v.http_messages
<1>1. y = Append(x, p + 1) BY DEF WithNext
<1>2. x \in Seq(Nat) /\ k = Len(x) /\ k < Len(ms) /\ \A i \in 1 .. k : x[i] = ms[i].at
  BY DEF First
<1> HIDE DEF y
<1>3. Len(y) = k + 1 /\ y[k + 1] = p + 1 /\ \A i \in 1 .. k : y[i] = x[i]
  BY <1>1, <1>2, AppendProperties
<1>4. \A i \in 1 .. k + 1 : y[i] = ms[i].at
  <2> SUFFICES ASSUME NEW i \in 1 .. k + 1 PROVE y[i] = ms[i].at OBVIOUS
  <2>1. CASE i \in 1 .. k BY <1>2, <1>3, <2>1
  <2>2. CASE i = k + 1 BY <1>3, <2>2
  <2> QED BY <2>1, <2>2
<1>5. Len(ms) \in Nat BY LenProperties
<1>6. k + 1 <= Len(ms) /\ k + 1 > 0 /\ k + 1 # 0 BY <1>2, <1>5
<1>7. ms[k + 1].at < q OBVIOUS
<1>8. Upto(ms, k + 1) = ms[k + 1].end BY <1>6 DEF Upto
<1>9. Recording(v, s, q, n, ms, k + 1, TRUE)
  BY <1>4, <1>6, <1>7, <1>8 DEF Recording, Behind, y
<1> QED BY <1>3, <1>9 DEF y

(* Without chunks there is no progress through them.                       *)
LEMMA NoProgress ==
    ASSUME NEW msgs, NEW client, Talk(msgs, client), NEW d \in Dirs, Parsing(d),
           ParseResult(d) = "None", NEW h, h = Ahead(d, 1), ~(h.chunked /\ ~NoBody(d, h))
    PROVE  app[d].http_chunk_prefix = 0
<1> DEFINE m == NextOf(msgs, d)
<1>1. h = stream[d][m.at] /\ m = msgs[d][Count(d) + 1] BY HeaderIs
<1>2. NoBody(d, h) <=> Bare(m, h) BY NoBodyIs
<1>3. app[d].http_chunk_prefix \in Nat /\ ChunksOfNext(app[d], stream[d], msgs[d], Count(d))
  BY RecordingIs
<1>4. ~(app[d].http_chunk_prefix > 0) BY <1>1, <1>2, <1>3 DEF ChunksOfNext
<1> QED BY <1>3, <1>4

(* A turn that records the message at the front.                           *)
LEMMA RecordTalks ==
    ASSUME NEW msgs, NEW client, Talk(msgs, client), NEW d \in Dirs, Parsing(d),
           ParseResult(d) = "None", NEW h, h = Ahead(d, 1), NEW m, m = NextOf(msgs, d),
           NEW v, v.http_messages = WithNext(app[d].http_messages, pos[d] + 1),
           v.http_chunk_prefix = 0,
           v.pending_head_requests = QueueWith(app[d].pending_head_requests, h),
           NEW popped, popped = AfterPop(d, h), NEW apps, apps = [popped EXCEPT ![d] = v],
           NEW eat \in Nat, eat >= 2, Turn(d, apps, eat, TRUE),
           Behind(v, pos[d] + eat, msgs[d], Count(d) + 1)
    PROVE  TurnsInv(msgs, client)'
<1> DEFINE k == Count(d)
           p == pos[d]
           q == pos[d] + eat
           go == TRUE
<1>0. HInv BY DEF Talk
<1>1. /\ k \in Nat /\ k < Len(msgs[d]) /\ m = msgs[d][k + 1] /\ m.at = p + 1
  BY HeaderIs
<1>2. /\ app[d].http_messages \in Seq(Nat) /\ k = Len(app[d].http_messages)
      /\ \A i \in 1 .. k : app[d].http_messages[i] = msgs[d][i].at
  BY RecordingIs
<1>3. p \in Nat /\ q \in Nat /\ p + 1 < q
  <2>1. p \in Nat BY <1>0, Facts
  <2> QED BY <2>1
<1>4. msgs[d] \in Seq(Messages) BY TalkIs
<1>5. Len(v.http_messages) = k + 1
      /\ Recording(v, stream[d], q, arrived[d], msgs[d], k + 1, TRUE)
  <2> DEFINE ms == msgs[d]
             x == app[d].http_messages
  <2>1. Behind(v, q, ms, k + 1) /\ ms[k + 1].at = p + 1 /\ ms \in Seq(Messages) BY <1>1, <1>4
  <2>2. First(x, ms, k) BY <1>1, <1>2 DEF First
  <2>3. v.http_messages = WithNext(x, p + 1) OBVIOUS
  <2> HIDE DEF q, k, p, ms, x
  <2>4. Len(v.http_messages) = k + 1
        /\ Recording(v, stream[d], q, arrived[d], ms, k + 1, TRUE)
    BY <1>1, <1>3, <2>1, <2>2, <2>3, RecordingNext
  <2> QED BY <2>4 DEF ms
<1>6. ChunksOfNext(v, stream[d], msgs[d], k + 1) BY DEF ChunksOfNext
<1>7. apps[d] = v /\ Untouched(apps[Peer(d)], app[Peer(d)]) /\ Queues(apps, msgs, client)
  <2>1. Len(v.http_messages) = Count(d) + 1 BY <1>5
  <2> HIDE DEF k, p, q
  <2>2. Leaves(apps, d, v, msgs, client) BY <2>1, QueuesRecord
  <2> QED BY <2>2 DEF Leaves
<1>8. k + 1 = Len(v.http_messages) /\ k + 1 \in Nat /\ k <= k + 1
  <2>1. k + 1 = Len(v.http_messages) BY <1>5
  <2> HIDE DEF k
  <2> QED BY <1>1, <2>1
<1> DEFINE j == k + 1
<1>9. /\ j = Len(v.http_messages) /\ j \in Nat /\ Count(d) <= j
      /\ Recording(v, stream[d], pos[d] + eat, arrived[d], msgs[d], j, TRUE)
      /\ ChunksOfNext(v, stream[d], msgs[d], j) /\ pos[d] + eat \in Nat
  BY <1>3, <1>5, <1>6, <1>8
<1> HIDE DEF j
<1>10. go \in BOOLEAN /\ Turn(d, apps, eat, go)
       /\ Recording(v, stream[d], pos[d] + eat, arrived[d], msgs[d], j, go)
  BY <1>9
<1> HIDE DEF go, k, p, q
<1> QED BY <1>7, <1>9, <1>10, TurnTalks

(* A turn that waits for more of the body.                                 *)
LEMMA WaitTalks ==
    ASSUME NEW msgs, NEW client, Talk(msgs, client), NEW d \in Dirs, Parsing(d),
           ParseResult(d) = "None", NEW h, h = Ahead(d, 1), NEW m, m = NextOf(msgs, d),
           ~Bare(m, h), arrived[d] < m.end,
           NEW v, Untouched([v EXCEPT !.http_chunk_prefix = app[d].http_chunk_prefix], app[d]),
           v \in Applications, v.pending_head_requests = app[d].pending_head_requests,
           ChunksOfNext(v, stream[d], msgs[d], Count(d)),
           NEW popped, popped = AfterPop(d, h), NEW apps, apps = [popped EXCEPT ![d] = v],
           NEW eat, eat = 0, Turn(d, apps, eat, FALSE)
    PROVE  TurnsInv(msgs, client)'
<1> DEFINE k == Count(d)
           a == app[d]
           go == FALSE
<1>0. HInv BY DEF Talk
<1>1. /\ v.http_messages = a.http_messages /\ v.http_skip = a.http_skip
      /\ v.http_body_until_close = a.http_body_until_close
  <2> HIDE DEF a
  <2> QED BY DEF Untouched, Applications, a
<1>2. apps[d] = v /\ Untouched(apps[Peer(d)], app[Peer(d)]) /\ Queues(apps, msgs, client)
  <2>1. Leaves(apps, d, v, msgs, client) BY <1>1, QueuesWait
  <2> QED BY <2>1 DEF Leaves
<1>3. /\ k \in Nat /\ k = Len(a.http_messages) /\ Len(msgs[d]) \in Nat /\ k <= Len(msgs[d])
      /\ \A i \in 1 .. k : a.http_messages[i] = msgs[d][i].at
      /\ k > 0 => msgs[d][k].at < pos[d]
      /\ IF a.http_body_until_close THEN k > 0 /\ k = Len(msgs[d]) /\ a.http_skip = 0
         ELSE pos[d] + a.http_skip = Upto(msgs[d], k)
  BY RecordingIs
<1>4. pos[d] \in Nat BY <1>0, Facts
<1>5. pos[d] + eat = pos[d] /\ pos[d] + eat \in Nat BY <1>4
<1>6. Recording(v, stream[d], pos[d] + eat, arrived[d], msgs[d], k, FALSE)
  BY <1>1, <1>3, <1>5 DEF Recording, NextOf
<1>7. k = Len(v.http_messages) /\ k <= k /\ k \in Nat
  <2>1. k = Len(v.http_messages) /\ k \in Nat BY <1>1, <1>3
  <2> HIDE DEF k
  <2> QED BY <2>1
<1>8. go \in BOOLEAN /\ Turn(d, apps, eat, go)
      /\ Recording(v, stream[d], pos[d] + eat, arrived[d], msgs[d], k, go)
  BY <1>6
<1> HIDE DEF go
<1> QED BY <1>2, <1>5, <1>7, <1>8, TurnTalks

(* A message whose header and body are there.                              *)
LEMMA CompleteTalks ==
    ASSUME NEW msgs, NEW client, Talk(msgs, client), NEW d \in Dirs, MessageComplete(d)
    PROVE  TurnsInv(msgs, client)'
<1> DEFINE h == Ahead(d, 1)
           m == NextOf(msgs, d)
           n == BodyUnits(d, h)
           o == app[d]
           p == pos[d]
           until == UntilClose(d, h)
           prefix == IF h.chunked /\ ~NoBody(d, h) THEN 0 ELSE o.http_chunk_prefix
           a == [o EXCEPT !.http_chunk_prefix = prefix, !.http_body_until_close = until]
           v == Recorded(a, d, h)
           popped == AfterPop(d, h)
           apps == [popped EXCEPT ![d] = v]
           eat == HeadUnits + n
<1>0. HInv BY DEF Talk
<1>1. Parsing(d) /\ ParseResult(d) = "None" /\ n >= 0 /\ Turn(d, apps, eat, TRUE)
  BY DEF MessageComplete
<1>2. o \in Applications /\ p \in Nat BY <1>0, Facts
<1>3. h \in Heads /\ o.http_skip = 0 /\ m = msgs[d][Count(d) + 1] BY <1>1, HeaderIs
<1>4. BodyJudged(m, h, n, p, arrived[d], until, Count(d) + 1 = Len(msgs[d])) BY <1>1, BodyIs
<1>5. n \in Nat /\ eat \in Nat /\ eat >= 2
  <2>1. n \in Nat \cup {-1, -2} BY <1>0, <1>1, BodyIsThere
  <2> HIDE DEF n
  <2> QED BY <1>1, <2>1 DEF HeadUnits
<1>6. prefix = 0
  <2>1. ~(h.chunked /\ ~NoBody(d, h)) => o.http_chunk_prefix = 0 BY <1>1, NoProgress
  <2> QED BY <2>1
<1>7. Behind(v, p + eat, msgs[d], Count(d) + 1) <=>
        IF v.http_body_until_close THEN Count(d) + 1 = Len(msgs[d]) /\ v.http_skip = 0
        ELSE p + eat + v.http_skip = m.end
  BY <1>3 DEF Behind
<1>8. until \in BOOLEAN BY DEF UntilClose
<1> HIDE DEF prefix, until
<1>9. /\ a \in Applications /\ a.http_messages = o.http_messages /\ a.http_skip = 0
      /\ a.http_chunk_prefix = 0 /\ a.http_body_until_close = until
      /\ a.pending_head_requests = o.pending_head_requests
  <2> HIDE DEF o, h
  <2> QED BY <1>2, <1>3, <1>6, <1>8 DEF Applications
<1>10. /\ v.http_messages = WithNext(o.http_messages, p + 1)
       /\ v.http_chunk_prefix = 0 /\ v.http_skip = 0 /\ v.http_body_until_close = until
       /\ v.pending_head_requests = QueueWith(o.pending_head_requests, h)
  <2>1. v = Recorded(a, d, h) /\ pos[d] \in Nat BY <1>2
  <2> HIDE DEF v, a, h, o
  <2>2. /\ v.http_messages = WithNext(a.http_messages, pos[d] + 1)
        /\ v.http_chunk_prefix = a.http_chunk_prefix /\ v.http_skip = a.http_skip
        /\ v.http_body_until_close = a.http_body_until_close
    BY <1>3, <1>9, <2>1, RecordedIs
  <2>3. v.pending_head_requests = QueueWith(a.pending_head_requests, h)
    BY <1>3, <1>9, <2>1, RecordedQueues
  <2> QED BY <1>9, <2>2, <2>3
<1> HIDE DEF v
<1>11. Behind(v, p + eat, msgs[d], Count(d) + 1)
  <2>1. \/ until /\ n = 0 /\ Count(d) + 1 = Len(msgs[d])
        \/ ~until /\ p + 2 + n = m.end
    BY <1>4, <1>5 DEF BodyJudged
  <2>2. ~until => p + eat + v.http_skip = m.end
    <3>1. p + eat + v.http_skip = p + 2 + n
      <4> HIDE DEF p, n
      <4> QED BY <1>2, <1>5, <1>10 DEF HeadUnits
    <3> QED BY <2>1, <3>1
  <2> QED BY <1>7, <1>10, <2>1, <2>2
<1>12. popped = AfterPop(d, h) /\ apps = [popped EXCEPT ![d] = v] OBVIOUS
<1> HIDE DEF eat, popped, apps, h, m
<1>13. h = Ahead(d, 1) /\ m = NextOf(msgs, d) BY DEF h, m
<1> QED BY <1>1, <1>5, <1>10, <1>11, <1>12, <1>13, RecordTalks

(* No chunks are malformed.                                                *)
LEMMA MalformedTalks ==
    ASSUME NEW msgs, NEW client, Talk(msgs, client), NEW d \in Dirs, ChunksMalformed(d)
    PROVE  TurnsInv(msgs, client)'
<1> DEFINE h == Ahead(d, 1)
           m == NextOf(msgs, d)
<1>1. Parsing(d) /\ ParseResult(d) = "None" /\ BodyUnits(d, h) = -2 BY DEF ChunksMalformed
<1>2. BodyJudged(m, h, BodyUnits(d, h), pos[d], arrived[d], UntilClose(d, h),
                 Count(d) + 1 = Len(msgs[d]))
  BY <1>1, BodyIs
<1> QED BY <1>1, <1>2 DEF BodyJudged

(* A body that is not all there.                                           *)
LEMMA IncompleteTalks ==
    ASSUME NEW msgs, NEW client, Talk(msgs, client), NEW d \in Dirs, BodyIncomplete(d)
    PROVE  TurnsInv(msgs, client)'
<1> DEFINE h == Ahead(d, 1)
           m == NextOf(msgs, d)
           n == BodyUnits(d, h)
           o == app[d]
           p == pos[d]
           old == o.http_chunk_prefix
           a == IF h.chunked
                THEN [o EXCEPT !.http_chunk_prefix = @ + 2 * ChunksFrom(d, @)]
                ELSE o
           r == ResyncHttp(d, a)
           rec == Recorded(a, d, h)
           big == [rec EXCEPT !.http_skip = h.length, !.http_bodies_skipped = @ + 1]
           popped == AfterPop(d, h)
<1>0. HInv BY DEF Talk
<1>1. /\ Parsing(d) /\ ParseResult(d) = "None" /\ n = -1
      /\ \/ Turn(d, [popped EXCEPT ![d] = a], 0, FALSE)
         \/ ~h.chunked /\ Turn(d, [popped EXCEPT ![d] = big], HeadUnits, TRUE)
         \/ h.chunked /\ ~(Avail(d) <= MAX_HTTP_MESSAGE_BYTES)
  BY DEF BodyIncomplete
<1>2. /\ o \in Applications /\ p \in Nat /\ arrived[d] \in Nat /\ Avail(d) = arrived[d] - p
      /\ Avail(d) \in Nat /\ MAX_HTTP_MESSAGE_BYTES \in Nat
  BY <1>0, Facts, HttpAssumption
<1>3. /\ h \in Heads /\ h = stream[d][m.at] /\ m = msgs[d][Count(d) + 1] /\ m.at = p + 1
      /\ m.end \in Nat /\ o.http_skip = 0 /\ ~o.http_body_until_close /\ Count(d) < Len(msgs[d])
  BY <1>1, HeaderIs
<1>4. /\ arrived[d] < m.end /\ ~Bare(m, h)
      /\ h.chunked \/ (h.length \in Nat /\ p + 2 + h.length = m.end)
      /\ h.chunked => m.end - m.at <= MAX_HTTP_MESSAGE_BYTES
  <2>1. BodyJudged(m, h, n, p, arrived[d], UntilClose(d, h), Count(d) + 1 = Len(msgs[d]))
    BY <1>1, BodyIs
  <2> QED BY <1>1, <2>1 DEF BodyJudged
<1>5. CASE Turn(d, [popped EXCEPT ![d] = a], 0, FALSE)
  <2> DEFINE apps == [popped EXCEPT ![d] = a]
             eat == 0
  <2>1. /\ a \in Applications /\ a.pending_head_requests = o.pending_head_requests
        /\ Untouched([a EXCEPT !.http_chunk_prefix = old], o)
        /\ ChunksOfNext(a, stream[d], msgs[d], Count(d))
    <3>1. CASE h.chunked
      <4> DEFINE c == ChunksFrom(d, old)
                 new == old + 2 * c
      <4>1. \E q \in Nat : old = 2 * q BY <1>1, <1>4, <3>1, ChunksAtFront
      <4>2. HeadUnits + old <= Avail(d) BY <1>1, <1>4, <3>1, ChunksAtFront
      <4>3. old \in Nat BY <1>2 DEF Applications
      <4> HIDE DEF old
      <4>4. c \in Nat /\ HeadUnits + old + 2 * c <= Avail(d) BY <1>0, <4>2, <4>3, ChunksAre
      <4> HIDE DEF c, p, m
      <4>5. new \in Nat /\ m.at + 1 + new < m.end /\ \E q \in 0 .. m.end : new = 2 * q
        <5>1. PICK q \in Nat : old = 2 * q BY <4>1
        <5>2. new = 2 * (q + c) /\ new \in Nat BY <4>3, <4>4, <5>1
        <5>3. m.at + 1 + new < m.end BY <1>2, <1>3, <1>4, <4>3, <4>4 DEF HeadUnits
        <5>4. q + c \in 0 .. m.end BY <1>2, <1>3, <4>4, <5>1, <5>2, <5>3
        <5> QED BY <5>2, <5>3, <5>4
      <4>6. a = [o EXCEPT !.http_chunk_prefix = new] BY <3>1 DEF c, old
      <4> HIDE DEF new, a, o
      <4>7. /\ a \in Applications /\ a.pending_head_requests = o.pending_head_requests
            /\ a.http_chunk_prefix = new /\ a.http_messages = o.http_messages
            /\ a.http_skip = o.http_skip /\ a.http_body_until_close = o.http_body_until_close
        BY <1>2, <4>5, <4>6 DEF Applications
      <4>8. Untouched([a EXCEPT !.http_chunk_prefix = old], o)
        BY <1>2, <4>7 DEF Applications, Untouched, old
      <4>9. ChunksOfNext(a, stream[d], msgs[d], Count(d))
        BY <1>3, <1>4, <3>1, <4>5, <4>7 DEF ChunksOfNext
      <4> QED BY <4>7, <4>8, <4>9
    <3>2. CASE ~h.chunked
      <4>1. a = o BY <3>2
      <4>2. ChunksOfNext(o, stream[d], msgs[d], Count(d)) BY RecordingIs
      <4> HIDE DEF a, o
      <4>3. Untouched([a EXCEPT !.http_chunk_prefix = old], o)
        BY <1>2, <4>1 DEF Applications, Untouched, old
      <4> QED BY <1>2, <4>1, <4>2, <4>3
    <3> QED BY <3>1, <3>2
  <2>2. popped = AfterPop(d, h) /\ apps = [popped EXCEPT ![d] = a] /\ Turn(d, apps, eat, FALSE)
        /\ eat = 0 /\ h = Ahead(d, 1) /\ m = NextOf(msgs, d)
    BY <1>5
  <2> HIDE DEF apps, popped, a, h, eat, m
  <2> QED BY <1>1, <1>4, <2>1, <2>2, WaitTalks DEF o, old
<1>6. CASE ~h.chunked /\ Turn(d, [popped EXCEPT ![d] = big], HeadUnits, TRUE)
  <2> DEFINE apps == [popped EXCEPT ![d] = big]
             eat == HeadUnits
  <2>1. a = o /\ h.length \in Nat /\ p + 2 + h.length = m.end BY <1>4, <1>6
  <2>2. o.http_chunk_prefix = 0 BY <1>1, <1>6, NoProgress
  <2>3. /\ rec \in Applications /\ rec.http_messages = WithNext(o.http_messages, p + 1)
        /\ rec.http_chunk_prefix = 0 /\ ~rec.http_body_until_close
        /\ rec.pending_head_requests = QueueWith(o.pending_head_requests, h)
    <3>1. rec = Recorded(o, d, h) /\ h \in Heads /\ o \in Applications /\ pos[d] \in Nat
      BY <1>2, <1>3, <2>1
    <3> HIDE DEF rec, o, h
    <3>2. /\ rec.http_messages = WithNext(o.http_messages, pos[d] + 1)
          /\ rec.http_chunk_prefix = o.http_chunk_prefix /\ rec.http_skip = o.http_skip
          /\ rec.http_body_until_close = o.http_body_until_close
      BY <3>1, RecordedIs
    <3>4. rec \in Applications BY <3>1, RecordedIs
    <3>3. rec.pending_head_requests = QueueWith(o.pending_head_requests, h)
      BY <3>1, RecordedQueues
    <3> QED BY <1>3, <2>2, <3>2, <3>3, <3>4
  <2> HIDE DEF rec
  <2>4. /\ big.http_messages = WithNext(o.http_messages, p + 1)
        /\ big.http_chunk_prefix = 0 /\ ~big.http_body_until_close /\ big.http_skip = h.length
        /\ big.pending_head_requests = QueueWith(o.pending_head_requests, h)
    <3> HIDE DEF h, o
    <3> QED BY <2>3 DEF Applications
  <2> HIDE DEF big
  <2>5. eat \in Nat /\ eat >= 2 /\ p + eat + big.http_skip = m.end
    <3> HIDE DEF p, m, h
    <3> QED BY <1>2, <2>1, <2>4 DEF HeadUnits
  <2>6. Behind(big, p + eat, msgs[d], Count(d) + 1) BY <1>3, <2>4, <2>5 DEF Behind
  <2>7. popped = AfterPop(d, h) /\ apps = [popped EXCEPT ![d] = big] /\ Turn(d, apps, eat, TRUE)
        /\ h = Ahead(d, 1) /\ m = NextOf(msgs, d)
    BY <1>6
  <2> HIDE DEF apps, popped, h, eat, m, a
  <2> QED BY <1>1, <2>4, <2>5, <2>6, <2>7, RecordTalks DEF o, p
<1>7. CASE h.chunked /\ ~(Avail(d) <= MAX_HTTP_MESSAGE_BYTES)
  <2>1. m.end - m.at <= MAX_HTTP_MESSAGE_BYTES BY <1>4, <1>7
  <2>2. Avail(d) > MAX_HTTP_MESSAGE_BYTES BY <1>2, <1>7
  <2> HIDE DEF p, m
  <2> QED BY <1>2, <1>3, <1>4, <2>1, <2>2
<1> QED BY <1>1, <1>5, <1>6, <1>7

-----------------------------------------------------------------------------
(* Conversations that take turns: every step                               *)

(* What arrives was sent when all its sender had to see was recorded.      *)
LEMMA SeenIsRecorded ==
    ASSUME NEW msgs, NEW client, Talk(msgs, client), NEW d \in Dirs, polling # Peer(d),
           NEW i \in 1 .. Len(msgs[d]),
           stream[d][msgs[d][i].at].after <= arrived[Peer(d)]
    PROVE  msgs[d][i].need <= Count(Peer(d))
<1> DEFINE e == Peer(d)
           k == Count(e)
           need == msgs[d][i].need
           after == stream[d][msgs[d][i].at].after
<1>0. HInv BY DEF Talk
<1>1. e \in Dirs BY <1>0, Facts
<1>2. arrived[e] \in Nat BY <1>0, <1>1, Facts
<1>3. /\ stream[d] \in Seq(Units) /\ msgs[d] \in Seq(Messages) /\ MessagesOf(stream[d], msgs[d])
      /\ Turned(stream[d], msgs[d], msgs[e], i)
  <2>1. /\ stream[d] \in Seq(Units) /\ msgs[d] \in Seq(Messages) /\ MessagesOf(stream[d], msgs[d])
        /\ \A j \in DOMAIN msgs[d] : Turned(stream[d], msgs[d], msgs[Peer(d)], j)
    BY TalkIs
  <2>2. i \in DOMAIN msgs[d] BY <2>1, LenProperties
  <2> QED BY <2>1, <2>2
<1>4. need \in Nat /\ after \in Nat
  <2>1. need \in Nat /\ stream[d][msgs[d][i].at] \in Heads BY <1>3, MessageIs
  <2> QED BY <2>1 DEF Heads
<1>5. /\ stream[e] \in Seq(Units) /\ msgs[e] \in Seq(Messages) /\ MessagesOf(stream[e], msgs[e])
      /\ k \in Nat /\ Len(msgs[e]) \in Nat /\ DirTurns(e, msgs)
  BY <1>1, TalkIs
<1>6. need \in 0 .. Len(msgs[e]) /\ (need > 0 => msgs[e][need].end <= after) BY <1>3 DEF Turned
<1> SUFFICES ASSUME ~(need <= k) PROVE FALSE OBVIOUS
<1> HIDE DEF k, need, after
<1>7. k + 1 \in 1 .. Len(msgs[e]) /\ need \in 1 .. Len(msgs[e]) /\ k + 1 <= need /\ need > 0
      /\ k < Len(msgs[e])
  BY <1>4, <1>5, <1>6
<1>8. arrived[e] < msgs[e][k + 1].end
  <2>1. Recording(app[e], stream[e], pos[e], arrived[e], msgs[e], k, polling = e)
    BY <1>5 DEF DirTurns, k
  <2> QED BY <1>7, <2>1 DEF Recording
<1>9. msgs[e][k + 1].end <= msgs[e][need].end BY <1>5, <1>7, EndsGrow
<1>10. msgs[e][k + 1].end \in Nat /\ msgs[e][need].end \in Nat BY <1>5, <1>7, MessageIs
<1>11. msgs[e][need].end <= arrived[e]
  <2>1. after <= arrived[e] BY DEF after
  <2> QED BY <1>2, <1>4, <1>6, <1>7, <1>10, <2>1
<1> QED BY <1>2, <1>8, <1>9, <1>10, <1>11

(* More of a direction's stream arrives.                                   *)
LEMMA SegmentTalks ==
    ASSUME NEW msgs, NEW client, Talk(msgs, client), NEW d \in Dirs, Segment(d)
    PROVE  TurnsInv(msgs, client)'
<1> DEFINE e == Peer(d)
<1>0. HInv BY DEF Talk
<1>1. PICK n \in arrived[d] + 1 .. Len(stream[d]) :
         /\ polling = "none"
         /\ \A i \in arrived[d] + 1 .. n : stream[d][i].after <= arrived[e]
         /\ arrived' = [arrived EXCEPT ![d] = n] /\ polling' = d
         /\ UNCHANGED <<stream, pos, app>>
  BY DEF Segment
<1>2. /\ e \in Dirs /\ e # d /\ (\A f \in Dirs : f = d \/ f = e) /\ Peer(e) = d
      /\ arrived \in [Dirs -> Nat] /\ arrived[d] \in Nat /\ Len(stream[d]) \in Nat
  <2>1. Peer(Peer(d)) = d BY DEF Peer, Dirs
  <2> QED BY <1>0, <2>1, Facts DEF HInv
<1>3. n \in Nat BY <1>2
<1>4. arrived'[d] = n /\ arrived'[e] = arrived[e] BY <1>1, <1>2
<1>5. (polling' = d) = TRUE /\ (polling' = e) = FALSE /\ (polling = e) = FALSE
  <2>1. "none" \notin Dirs BY DEF Dirs
  <2> QED BY <1>1, <1>2, <2>1
<1>6. Count(d)' = Count(d) /\ Count(e)' = Count(e) BY <1>1 DEF Count
<1>7. DirTurns(d, msgs) /\ DirTurns(e, msgs) BY <1>2, TalkIs
<1>8. DirTurns(d, msgs)'
  <2>1. Recording(app[d], stream[d], pos[d], arrived[d], msgs[d], Count(d), polling = d)'
    <3>1. Recording(app[d], stream[d], pos[d], n, msgs[d], Count(d), TRUE)
      BY <1>7 DEF DirTurns, Recording
    <3> QED BY <1>1, <1>4, <1>5, <1>6, <3>1
  <2>2. ChunksOfNext(app[d], stream[d], msgs[d], Count(d))'
    <3>1. ChunksOfNext(app[d], stream[d], msgs[d], Count(d)) BY <1>7 DEF DirTurns
    <3> QED BY <1>1, <1>6, <3>1
  <2>3. Seen(msgs[d], arrived[d], Count(e))'
    <3>1. Seen(msgs[d], n, Count(e))
      <4> SUFFICES ASSUME NEW i \in 1 .. Len(msgs[d]), msgs[d][i].at <= n
                   PROVE  msgs[d][i].need <= Count(e)
        BY DEF Seen
      <4>1. CASE msgs[d][i].at <= arrived[d] BY <1>7, <4>1 DEF DirTurns, Seen
      <4>2. CASE ~(msgs[d][i].at <= arrived[d])
        <5>1. msgs[d][i].at \in Nat
          <6>1. /\ stream[d] \in Seq(Units) /\ msgs[d] \in Seq(Messages)
                /\ MessagesOf(stream[d], msgs[d])
            BY TalkIs
          <6> QED BY <6>1, MessageIs
        <5>2. msgs[d][i].at \in arrived[d] + 1 .. n BY <1>2, <1>3, <4>2, <5>1
        <5>3. stream[d][msgs[d][i].at].after <= arrived[e] BY <1>1, <5>2
        <5>4. polling # e BY <1>5
        <5> QED BY <5>3, <5>4, SeenIsRecorded
      <4> QED BY <4>1, <4>2
    <3> QED BY <1>4, <1>6, <3>1
  <2> QED BY <2>1, <2>2, <2>3 DEF DirTurns
<1>9. DirTurns(e, msgs)'
  <2>1. Recording(app[e], stream[e], pos[e], arrived[e], msgs[e], Count(e), polling = e)'
    BY <1>1, <1>4, <1>5, <1>6, <1>7 DEF DirTurns
  <2>2. ChunksOfNext(app[e], stream[e], msgs[e], Count(e))'
    <3>1. ChunksOfNext(app[e], stream[e], msgs[e], Count(e)) BY <1>7 DEF DirTurns
    <3> QED BY <1>1, <1>6, <3>1
  <2>3. Seen(msgs[e], arrived[e], Count(d))'
    <3>1. Seen(msgs[e], arrived[e], Count(d)) BY <1>2, <1>7 DEF DirTurns
    <3> QED BY <1>4, <1>6, <3>1
  <2> QED BY <1>2, <2>1, <2>2, <2>3 DEF DirTurns
<1>10. Queues(app, msgs, client)'
  <2>1. Queues(app, msgs, client) BY DEF Talk, TurnsInv
  <2> QED BY <1>1, <2>1 DEF Queues
<1> QED BY <1>2, <1>8, <1>9, <1>10 DEF TurnsInv

(* So every step keeps to the conversation.                                *)
LEMMA NextVInv == HInv /\ VInv /\ [Next]_vars => VInv'
<1> SUFFICES ASSUME HInv, VInv, [Next]_vars, TakesTurns(stream')
             PROVE  \E msgs \in [Dirs -> Seq(Messages)], client \in Dirs :
                       TurnsBy(stream', msgs, client) /\ TurnsInv(msgs, client)'
  BY DEF VInv
<1>1. stream' = stream
  BY DEF Next, vars, Segment, Poll, SkipBody, EatUntilClose, HeaderIncomplete, HeaderMalformed,
         MessageComplete, ChunksMalformed, BodyIncomplete, Turn
<1>2. PICK msgs \in [Dirs -> Seq(Messages)], client \in Dirs :
         TurnsBy(stream, msgs, client) /\ TurnsInv(msgs, client)
  BY <1>1 DEF VInv
<1>3. Talk(msgs, client) BY <1>2 DEF Talk
<1>4. TurnsInv(msgs, client)'
  <2>1. ASSUME NEW d \in Dirs, Segment(d) \/ Poll(d) PROVE TurnsInv(msgs, client)'
    BY <1>3, <2>1, SegmentTalks, SkipBodyTalks, EatTalks, HeaderTalks, CompleteTalks,
       MalformedTalks, IncompleteTalks DEF Poll
  <2>2. CASE UNCHANGED vars
    <3>1. /\ app' = app /\ stream' = stream /\ pos' = pos /\ arrived' = arrived
          /\ polling' = polling
      BY <2>2 DEF vars
    <3> QED BY <1>2, <3>1 DEF TurnsInv, DirTurns, Queues, Count
  <2> QED BY <2>1, <2>2 DEF Next
<1>5. TurnsBy(stream', msgs, client) BY <1>1, <1>2
<1> QED BY <1>4, <1>5

(* At the start nothing is recorded.                                       *)
LEMMA InitVInv == Init => VInv
<1> SUFFICES ASSUME Init, TakesTurns(stream)
             PROVE  \E msgs \in [Dirs -> Seq(Messages)], client \in Dirs :
                       TurnsBy(stream, msgs, client) /\ TurnsInv(msgs, client)
  BY DEF VInv
<1>1. PICK msgs \in [Dirs -> Seq(Messages)], client \in Dirs : TurnsBy(stream, msgs, client)
  BY DEF TakesTurns
<1> DEFINE a == NewApplications
<1>2. /\ a.http_messages = <<>> /\ a.http_chunk_prefix = 0 /\ a.http_skip = 0
      /\ a.pending_head_requests = <<>> /\ ~a.http_body_until_close
  BY DEF NewApplications
<1>3. /\ app = [d \in Dirs |-> a] /\ pos = [d \in Dirs |-> 0] /\ arrived = [d \in Dirs |-> 0]
      /\ polling = "none"
  BY DEF Init
<1> HIDE DEF a
<1>4. HInv BY InitHInv
<1>5. \A d \in Dirs : /\ app[d] = a /\ pos[d] = 0 /\ arrived[d] = 0 /\ Count(d) = 0
                      /\ Peer(d) \in Dirs
  BY <1>2, <1>3 DEF Count, Peer, Dirs
<1>6. ASSUME NEW d \in Dirs PROVE DirTurns(d, msgs)
  <2>1. stream[d] \in Seq(Units) /\ msgs[d] \in Seq(Messages) /\ MessagesOf(stream[d], msgs[d])
    BY <1>1, <1>4, Facts DEF TurnsBy
  <2>2. Len(msgs[d]) \in Nat BY <2>1, LenProperties
  <2>3. Recording(a, stream[d], 0, 0, msgs[d], 0, polling = d)
    <3>1. 0 < Len(msgs[d]) => 0 < msgs[d][0 + 1].end
      <4> SUFFICES ASSUME 0 < Len(msgs[d]) PROVE 0 < msgs[d][1].end OBVIOUS
      <4>1. 1 \in 1 .. Len(msgs[d]) BY <2>2
      <4>2. msgs[d][1].at \in Nat /\ msgs[d][1].end \in Nat /\ msgs[d][1].at < msgs[d][1].end
        BY <2>1, <4>1, MessageIs
      <4> QED BY <4>2
    <3> QED BY <1>2, <2>2, <3>1 DEF Recording, Upto
  <2>4. ChunksOfNext(a, stream[d], msgs[d], 0) BY <1>2 DEF ChunksOfNext
  <2>5. Seen(msgs[d], 0, 0)
    <3> SUFFICES ASSUME NEW i \in 1 .. Len(msgs[d]), msgs[d][i].at <= 0 PROVE FALSE BY DEF Seen
    <3>1. msgs[d][i].at \in Nat /\ msgs[d][i].at > 0 BY <2>1, MessageIs
    <3> QED BY <3>1
  <2> QED BY <1>5, <2>3, <2>4, <2>5 DEF DirTurns
<1>7. Queues(app, msgs, client)
  <2>1. Queued(<<>>, msgs[client], 0, Done(msgs[Peer(client)], 0)) BY DEF Queued, Done
  <2>2. Len(a.http_messages) = 0 BY <1>2
  <2> QED BY <1>2, <1>5, <2>1, <2>2 DEF Queues
<1>8. TurnsInv(msgs, client) BY <1>6, <1>7 DEF TurnsInv
<1> QED BY <1>1, <1>8

(* The sound messages in what is behind the recorded ones are recorded.    *)
LEMMA SoundIsRecorded ==
    ASSUME NEW msgs, NEW client, Talk(msgs, client), NEW d \in Dirs,
           NEW i \in 1 .. Len(stream[d]), IsSound(d, i),
           \A j \in 1 .. Len(msgs[d]) : i = msgs[d][j].at => j <= Count(d)
    PROVE  i \in Range(app[d].http_messages)
<1> DEFINE x == app[d].http_messages
           k == Count(d)
<1>1. /\ msgs[d] \in Seq(Messages) /\ MessagesOf(stream[d], msgs[d]) /\ Len(msgs[d]) \in Nat
      /\ DOMAIN msgs[d] = 1 .. Len(msgs[d])
  BY TalkIs, LenProperties
<1>2. PICK j \in DOMAIN msgs[d] : i = msgs[d][j].at BY <1>1 DEF MessagesOf, IsSound
<1>3. x \in Seq(Nat) /\ k = Len(x) /\ k \in Nat /\ \A n \in 1 .. k : x[n] = msgs[d][n].at
  BY RecordingIs
<1>4. j \in 1 .. k
  <2>1. j <= k BY <1>1, <1>2
  <2> HIDE DEF k
  <2> QED BY <1>1, <1>3, <2>1
<1>5. x[j] = i BY <1>2, <1>3, <1>4
<1>6. j \in DOMAIN x BY <1>3, <1>4, LenProperties
<1> HIDE DEF x
<1>7. i \in Range(x) BY <1>5, <1>6 DEF Range
<1> QED BY <1>7 DEF x

(* A message that starts in what was consumed is recorded.                 *)
LEMMA ConsumedIsRecorded ==
    ASSUME NEW msgs, NEW client, Talk(msgs, client), NEW d \in Dirs,
           NEW j \in 1 .. Len(msgs[d]), msgs[d][j].at <= pos[d]
    PROVE  j <= Count(d)
<1> DEFINE k == Count(d)
<1> SUFFICES ASSUME ~(j <= k) PROVE FALSE OBVIOUS
<1>0. HInv BY DEF Talk
<1>1. /\ stream[d] \in Seq(Units) /\ msgs[d] \in Seq(Messages) /\ MessagesOf(stream[d], msgs[d])
      /\ Len(msgs[d]) \in Nat /\ k \in 0 .. Len(msgs[d]) /\ k \in Nat
  BY TalkIs
<1>2. /\ app[d].http_skip \in Nat
      /\ IF app[d].http_body_until_close
         THEN k > 0 /\ k = Len(msgs[d]) /\ app[d].http_skip = 0
         ELSE pos[d] + app[d].http_skip = Upto(msgs[d], k)
  BY RecordingIs
<1>3. pos[d] \in Nat BY <1>0, Facts
<1> DEFINE skip == app[d].http_skip
<1>4. skip \in Nat /\ (k < Len(msgs[d]) => pos[d] + skip = Upto(msgs[d], k))
  <2> HIDE DEF k
  <2> QED BY <1>1, <1>2
<1> HIDE DEF k, skip
<1>5. j \in Nat /\ k < j /\ k < Len(msgs[d]) /\ j - 1 \in 0 .. Len(msgs[d]) /\ k <= j - 1
  BY <1>1
<1>6. Upto(msgs[d], k) \in Nat /\ Upto(msgs[d], j - 1) \in Nat BY <1>1, <1>5, UptoIs
<1>7. Upto(msgs[d], k) <= Upto(msgs[d], j - 1)
  <2>1. CASE k = 0
    <3>1. Upto(msgs[d], k) = 0 BY <2>1 DEF Upto
    <3> QED BY <1>6, <3>1
  <2>2. CASE k # 0
    <3>1. /\ k \in 1 .. Len(msgs[d]) /\ j - 1 \in 1 .. Len(msgs[d]) /\ j - 1 # 0
      BY <1>1, <1>5, <2>2
    <3>2. msgs[d][k].end <= msgs[d][j - 1].end BY <1>1, <1>5, <3>1, EndsGrow
    <3> QED BY <2>2, <3>1, <3>2 DEF Upto
  <2> QED BY <2>1, <2>2
<1>8. msgs[d][j].at = Upto(msgs[d], j - 1) + 1 BY <1>1, MessageIs
<1> QED BY <1>3, <1>4, <1>5, <1>6, <1>7, <1>8

(* So the messages recorded are the sound ones of what was consumed.       *)
LEMMA TalkIsFramed == ASSUME NEW msgs, NEW client, Talk(msgs, client) PROVE FramingExact
<1> SUFFICES ASSUME NEW d \in Dirs
             PROVE  LET x == app[d].http_messages
                    IN  /\ \A i \in DOMAIN x : /\ stream[d][x[i]].t = "head"
                                               /\ \A j \in 1 .. i - 1 : x[j] < x[i]
                        /\ SoundRecorded(d) = SoundStarts(d, pos[d])
  BY DEF FramingExact
<1> DEFINE x == app[d].http_messages
<1>0. HInv BY DEF Talk
<1>1. InOrder(x, stream[d], pos[d]) BY <1>0 DEF HInv, DirOK
<1>2. x \in Seq(Nat) BY RecordingIs
<1>3. pos[d] \in Nat /\ pos[d] <= Len(stream[d]) /\ Len(stream[d]) \in Nat
  <2>1. pos[d] \in Nat /\ pos[d] <= arrived[d] /\ arrived[d] <= Len(stream[d])
        /\ arrived[d] \in Nat /\ Len(stream[d]) \in Nat
    BY <1>0, Facts
  <2> QED BY <2>1
<1>4. DOMAIN x = 1 .. Len(x)
  <2> HIDE DEF x
  <2> QED BY <1>2, LenProperties
<1>5. \A i \in DOMAIN x : /\ stream[d][x[i]].t = "head" /\ \A j \in 1 .. i - 1 : x[j] < x[i]
                          /\ x[i] \in 1 .. pos[d]
  <2> HIDE DEF x
  <2> QED BY <1>1, <1>4 DEF InOrder
<1>6. ASSUME NEW i \in SoundRecorded(d) PROVE i \in SoundStarts(d, pos[d])
  <2>1. i \in Range(x) /\ IsSound(d, i) BY <1>6 DEF SoundRecorded
  <2>2. i \in 1 .. pos[d]
    <3> HIDE DEF x
    <3> QED BY <1>5, <2>1 DEF Range
  <2> QED BY <2>1, <2>2 DEF SoundStarts
<1>7. ASSUME NEW i \in SoundStarts(d, pos[d]) PROVE i \in SoundRecorded(d)
  <2>1. i \in 1 .. pos[d] /\ IsSound(d, i) BY <1>7 DEF SoundStarts
  <2>2. i \in 1 .. Len(stream[d]) /\ i <= pos[d] BY <1>3, <2>1
  <2>3. \A j \in 1 .. Len(msgs[d]) : i = msgs[d][j].at => j <= Count(d)
    BY <2>2, ConsumedIsRecorded
  <2>4. i \in Range(x) BY <2>1, <2>2, <2>3, SoundIsRecorded
  <2> QED BY <2>1, <2>4 DEF SoundRecorded
<1> QED BY <1>5, <1>6, <1>7

(* And all of it when all has arrived.                                     *)
LEMMA TalkIsDecoded == ASSUME NEW msgs, NEW client, Talk(msgs, client) PROVE AllDecoded
<1> SUFFICES ASSUME polling = "none", NEW d \in Dirs, arrived[d] = Len(stream[d])
             PROVE  SoundRecorded(d) = SoundStarts(d, Len(stream[d]))
  BY DEF AllDecoded
<1> DEFINE k == Count(d)
           x == app[d].http_messages
<1>0. HInv BY DEF Talk
<1>1. /\ stream[d] \in Seq(Units) /\ msgs[d] \in Seq(Messages) /\ MessagesOf(stream[d], msgs[d])
      /\ DirTurns(d, msgs) /\ k \in Nat /\ k \in 0 .. Len(msgs[d]) /\ Len(msgs[d]) \in Nat
  BY TalkIs
<1>2. Len(stream[d]) \in Nat /\ pos[d] \in Nat /\ pos[d] <= Len(stream[d])
  BY <1>0, Facts
<1>3. k = Len(msgs[d])
  <2> SUFFICES ASSUME k # Len(msgs[d]) PROVE FALSE OBVIOUS
  <2>1. Recording(app[d], stream[d], pos[d], arrived[d], msgs[d], k, polling = d)
    BY <1>1 DEF DirTurns
  <2>2. polling # d BY DEF Dirs
  <2> HIDE DEF k
  <2>3. k < Len(msgs[d]) /\ k + 1 \in 1 .. Len(msgs[d]) BY <1>1
  <2>4. arrived[d] < msgs[d][k + 1].end BY <2>1, <2>2, <2>3 DEF Recording
  <2>5. msgs[d][k + 1].end \in Nat /\ msgs[d][k + 1].end <= Len(stream[d])
    BY <1>1, <2>3, MessageIs
  <2> QED BY <1>2, <2>4, <2>5
<1>4. ASSUME NEW i \in SoundRecorded(d) PROVE i \in SoundStarts(d, Len(stream[d]))
  <2>1. i \in SoundStarts(d, pos[d]) BY <1>4, TalkIsFramed DEF FramingExact
  <2>2. i \in 1 .. pos[d] /\ IsSound(d, i) BY <2>1 DEF SoundStarts
  <2>3. i \in 1 .. Len(stream[d]) BY <1>2, <2>2
  <2> QED BY <2>2, <2>3 DEF SoundStarts
<1>5. ASSUME NEW i \in SoundStarts(d, Len(stream[d])) PROVE i \in SoundRecorded(d)
  <2>1. i \in 1 .. Len(stream[d]) /\ IsSound(d, i) BY <1>5 DEF SoundStarts
  <2>2. \A j \in 1 .. Len(msgs[d]) : i = msgs[d][j].at => j <= k BY <1>1, <1>3
  <2>3. i \in Range(x) BY <2>1, <2>2, SoundIsRecorded
  <2> QED BY <2>1, <2>3 DEF SoundRecorded
<1> QED BY <1>4, <1>5

-----------------------------------------------------------------------------
(* Theorems                                                                *)

(* pollStream consumes only what has been reassembled, and its counters    *)
(* and queues keep their types: http_skip, a size_t that is counted down,  *)
(* never goes below zero.                                                  *)
THEOREM TypeCorrect == Spec => []TypeOK
<1>1. HInv => TypeOK
  <2> SUFFICES ASSUME HInv PROVE TypeOK OBVIOUS
  <2>1. \A d \in Dirs : pos[d] <= arrived[d] /\ arrived[d] <= Len(stream[d]) BY Facts
  <2> QED BY <2>1 DEF HInv, TypeOK
<1> QED BY <1>1, InitHInv, NextHInv, PTL DEF Spec

(* When pollStream comes to subspan(http_chunk_prefix), the prefix is that *)
(* of the message at the front, in bounds and at a chunk's end, whatever   *)
(* the streams are and however they are cut: also when the queue of HEAD   *)
(* requests told the message to have no body in between.                   *)
THEOREM PrefixIsValid == Spec => []ChunkPrefixValid
<1>1. HInv => ChunkPrefixValid
  <2> SUFFICES ASSUME HInv, NEW d \in Dirs, ParseResult(d) = "None", app[d].http_chunk_prefix > 0
               PROVE  /\ HeadUnits + app[d].http_chunk_prefix <= Avail(d)
                      /\ Ahead(d, 1).chunked
                      /\ Ahead(d, HeadUnits + app[d].http_chunk_prefix).t = "data"
    BY DEF ChunkPrefixValid
  <2> DEFINE x == app[d].http_chunk_prefix
  <2>1. InChunks(x, stream[d], pos[d], arrived[d]) BY PrefixAtHead
  <2>2. x \in Nat BY Facts DEF Applications
  <2>3. Avail(d) = arrived[d] - pos[d] /\ arrived[d] \in Nat /\ pos[d] \in Nat BY Facts
  <2> HIDE DEF x
  <2>4. HeadUnits + x <= Avail(d) /\ pos[d] + (HeadUnits + x) = pos[d] + 2 + x
    BY <2>1, <2>2, <2>3 DEF InChunks, HeadUnits
  <2>5. Ahead(d, 1).chunked /\ Ahead(d, HeadUnits + x).t = "data" BY <2>1, <2>4 DEF InChunks, Ahead
  <2> QED BY <2>4, <2>5 DEF x
<1> QED BY <1>1, InitHInv, NextHInv, PTL DEF Spec

(* The messages of each direction are recorded in the order of the stream, *)
(* no two at the same place, each where a header starts in what pollStream *)
(* has consumed.                                                           *)
THEOREM RecordedInOrder ==
    Spec => [](\A d \in Dirs : InOrder(app[d].http_messages, stream[d], pos[d]))
<1>1. HInv => \A d \in Dirs : InOrder(app[d].http_messages, stream[d], pos[d])
  BY DEF HInv, DirOK
<1> QED BY <1>1, InitHInv, NextHInv, PTL DEF Spec

(* Where the two sides take turns, a request being sent when the one       *)
(* before it was answered, pollStream finds the messages exactly: what it  *)
(* has recorded are the sound messages of what it has consumed, in order   *)
(* and once each, whatever their bodies are (counted, chunked, none, those *)
(* a HEAD asked for, past the limit, up to the close) and however the      *)
(* segments cut and interleave the two streams.                            *)
THEOREM TurnsAreFramed == Spec => [](TakesTurns(stream) => FramingExact)
<1>1. HInv /\ VInv => (TakesTurns(stream) => FramingExact)
  BY TalkIsFramed DEF VInv, Talk
<1>2. Init => HInv /\ VInv BY InitHInv, InitVInv
<1>3. HInv /\ VInv /\ [Next]_vars => HInv' /\ VInv' BY NextHInv, NextVInv
<1> QED BY <1>1, <1>2, <1>3, PTL DEF Spec

(* And when all of both streams has arrived and been polled, it has found  *)
(* every sound message: none is still waited for.                          *)
THEOREM TurnsAreDecoded == Spec => [](TakesTurns(stream) => AllDecoded)
<1>1. HInv /\ VInv => (TakesTurns(stream) => AllDecoded)
  BY TalkIsDecoded DEF VInv, Talk
<1>2. Init => HInv /\ VInv BY InitHInv, InitVInv
<1>3. HInv /\ VInv /\ [Next]_vars => HInv' /\ VInv' BY NextHInv, NextVInv
<1> QED BY <1>1, <1>2, <1>3, PTL DEF Spec

=============================================================================
