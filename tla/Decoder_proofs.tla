--------------------------- MODULE Decoder_proofs ---------------------------
(***************************************************************************)
(* What holds of Decoder for every capture: the flow table's keys are      *)
(* normalized and a flow with an application state has its Applications,   *)
(* the filter is directional, every accepted packet is counted once, a     *)
(* flow that began with a polled packet holds its own messages, and, when  *)
(* timestamps do not go back, a flow is retired exactly when its timeouts  *)
(* say.                                                                    *)
(***************************************************************************)
EXTENDS Decoder, SequenceTheorems, FiniteSetTheorems, WellFoundedInduction, TLAPS

-----------------------------------------------------------------------------
(* Greatest elements                                                       *)

(* A non-empty set of numbers up to n has a greatest element, and Max is   *)
(* it.                                                                     *)
LEMMA GreatestUpTo ==
    ASSUME NEW n \in Nat, NEW S \in SUBSET (1 .. n), S # {}
    PROVE  Max(S) \in S /\ \A y \in S : y <= Max(S)
<1> DEFINE T == {n - y : y \in S}
<1>1. T \in SUBSET Nat /\ T # {} OBVIOUS
<1>2. PICK t \in T : \A y \in T : ~(<<y, t>> \in OpToRel(<, Nat))
  <2> HIDE DEF T
  <2> QED BY <1>1, NatLessThanWellFounded, WFMin, Zenon
<1>3. \A y \in T : ~(y < t)
  <2>1. \A a, b \in Nat : a < b => <<a, b>> \in OpToRel(<, Nat) BY DEF OpToRel
  <2> HIDE DEF T
  <2> QED BY <1>1, <1>2, <2>1
<1>4. PICK x \in S : t = n - x OBVIOUS
<1>5. \A y \in S : y <= x
  <2> SUFFICES ASSUME NEW y \in S PROVE y <= x OBVIOUS
  <2>1. n - y \in T OBVIOUS
  <2>2. ~(n - y < n - x) BY <1>3, <1>4, <2>1
  <2>3. x \in 1 .. n /\ y \in 1 .. n OBVIOUS
  <2> HIDE DEF T
  <2> QED BY <2>2, <2>3
<1>6. x \in S /\ \A y \in S : x >= y BY <1>5
<1> HIDE DEF T
<1>7. Max(S) \in S /\ \A y \in S : Max(S) >= y BY <1>6 DEF Max
<1> QED BY <1>7

(* It does not change when the set gets smaller elements only, and a new   *)
(* greatest element is it.                                                 *)
LEMMA GreatestIs ==
    ASSUME NEW n \in Nat, NEW S \in SUBSET (1 .. n), NEW x \in S, \A y \in S : y <= x
    PROVE  Max(S) = x
<1>1. Max(S) \in S /\ \A y \in S : y <= Max(S) BY GreatestUpTo
<1>2. x \in Int /\ Max(S) \in Int
  <2>1. \A y \in S : y \in Int OBVIOUS
  <2> HIDE DEF Max
  <2> QED BY <1>1, <2>1
<1>3. x <= Max(S) /\ Max(S) <= x BY <1>1
<1> HIDE DEF Max
<1> QED BY <1>2, <1>3

-----------------------------------------------------------------------------
(* Sums                                                                    *)

(* A non-empty set of numbers has a least one.                             *)
LEMMA LeastOf == ASSUME NEW T \in SUBSET Nat, T # {} PROVE \E t \in T : \A y \in T : t <= y
<1>1. PICK t \in T : \A y \in T : ~(<<y, t>> \in OpToRel(<, Nat))
  BY NatLessThanWellFounded, WFMin
<1>2. \A y \in T : ~(y < t) BY <1>1 DEF OpToRel
<1>3. \A y \in T : t <= y BY <1>2
<1> QED BY <1>3

(* What SumFunction folds: the sum over s takes any element of s and adds  *)
(* the sum over the others.                                                *)
AnyOf(s) == CHOOSE x \in s : TRUE
IsSum(f, g) == g = [s \in SUBSET DOMAIN f |-> IF s = {} THEN 0 ELSE f[AnyOf(s)] + g[s \ {AnyOf(s)}]]

(* f[x] units for each x of s: as many as the sum over s says.             *)
Units(f, s) == {p \in s \X Nat : 1 <= p[2] /\ p[2] <= f[p[1]]}

(* Units of an element.                                                    *)
LEMMA ColumnOf ==
    ASSUME NEW x, NEW v \in Nat
    PROVE  IsFiniteSet({x} \X (1 .. v)) /\ Cardinality({x} \X (1 .. v)) = v
<1>1. IsFiniteSet(1 .. v) /\ Cardinality(1 .. v) = v BY FS_Interval
<1>2. IsFiniteSet({x}) /\ Cardinality({x}) = 1 BY FS_Singleton
<1>3. IsFiniteSet({x} \X (1 .. v)) /\ Cardinality({x} \X (1 .. v)) = Cardinality({x}) * Cardinality(1 .. v)
  BY <1>1, <1>2, FS_Product
<1> QED BY <1>1, <1>2, <1>3

(* One more element adds its units.                                        *)
LEMMA UnitsAdd ==
    ASSUME NEW f, NEW s, NEW x \in s, f[x] \in Nat, IsFiniteSet(Units(f, s \ {x}))
    PROVE  /\ IsFiniteSet(Units(f, s))
           /\ Cardinality(Units(f, s)) = Cardinality(Units(f, s \ {x})) + f[x]
<1> DEFINE U == Units(f, s \ {x})
           C == {x} \X (1 .. f[x])
<1>1. Units(f, s) = U \cup C BY DEF Units
<1>2. U \cap C = {} BY DEF Units
<1>3. IsFiniteSet(C) /\ Cardinality(C) = f[x] BY ColumnOf
<1> HIDE DEF U, C
<1>4. IsFiniteSet(U) BY DEF U
<1>5. IsFiniteSet(U \cup C) /\ Cardinality(U \cup C) = Cardinality(U) + Cardinality(C) - Cardinality(U \cap C)
  BY <1>3, <1>4, FS_Union
<1>6. Cardinality(U \cap C) = 0 BY <1>2, FS_EmptySet
<1>7. Cardinality(U) \in Nat BY <1>4, FS_CardinalityType
<1>8. Cardinality(U \cup C) = Cardinality(U) + f[x] BY <1>3, <1>5, <1>6, <1>7
<1> QED BY <1>1, <1>5, <1>8 DEF U

(* A property of the empty set that a set has when it has it without one   *)
(* of its elements is a property of every finite set: G holds the sets     *)
(* that have it.                                                           *)
LEMMA FiniteGrows ==
    ASSUME NEW D, IsFiniteSet(D), NEW G, {} \in G,
           \A s \in SUBSET D : s # {} /\ s \ {AnyOf(s)} \in G => s \in G
    PROVE  SUBSET D \subseteq G
<1> SUFFICES ASSUME NEW s0 \in SUBSET D, s0 \notin G PROVE FALSE OBVIOUS
<1> DEFINE B == {s \in SUBSET D : s \notin G}
           T == {Cardinality(s) : s \in B}
<1>1. \A s \in SUBSET D : IsFiniteSet(s) /\ Cardinality(s) \in Nat BY FS_Subset, FS_CardinalityType
<1>2. T \in SUBSET Nat /\ T # {} BY <1>1
<1>3. PICK t \in T : \A y \in T : t <= y
  <2> HIDE DEF T
  <2> QED BY <1>2, LeastOf
<1>4. PICK s \in B : t = Cardinality(s) OBVIOUS
<1>5. s # {} BY <1>4
<1> DEFINE x == AnyOf(s)
<1>6. x \in s BY <1>5 DEF AnyOf
<1> HIDE DEF x
<1>7. s \ {x} \in SUBSET D /\ Cardinality(s \ {x}) = Cardinality(s) - 1
  <2>1. IsFiniteSet(s) BY <1>1, <1>4
  <2> QED BY <1>4, <1>6, <2>1, FS_RemoveElement
<1>8. s \ {x} \notin G BY <1>4, <1>5 DEF x
<1>9. Cardinality(s \ {x}) \in T BY <1>7, <1>8
<1>10. Cardinality(s) \in Nat BY <1>1, <1>4
<1>11. t <= Cardinality(s \ {x}) BY <1>3, <1>9
<1> HIDE DEF T
<1> QED BY <1>4, <1>7, <1>10, <1>11

(* Finitely many elements have finitely many units.                        *)
LEMMA UnitsFinite ==
    ASSUME NEW f, IsFiniteSet(DOMAIN f), \A x \in DOMAIN f : f[x] \in Nat,
           NEW s \in SUBSET DOMAIN f
    PROVE  IsFiniteSet(Units(f, s)) /\ Cardinality(Units(f, s)) \in Nat
<1> DEFINE G == {u \in SUBSET DOMAIN f : IsFiniteSet(Units(f, u))}
<1>1. {} \in G
  <2>1. Units(f, {}) = {} BY DEF Units
  <2> QED BY <2>1, FS_EmptySet
<1>2. ASSUME NEW u \in SUBSET DOMAIN f, u # {}, u \ {AnyOf(u)} \in G PROVE u \in G
  <2>1. AnyOf(u) \in u BY <1>2 DEF AnyOf
  <2>2. IsFiniteSet(Units(f, u \ {AnyOf(u)})) BY <1>2
  <2>3. IsFiniteSet(Units(f, u)) BY <2>1, <2>2, UnitsAdd
  <2> QED BY <2>3
<1> HIDE DEF G
<1>3. SUBSET DOMAIN f \subseteq G BY <1>1, <1>2, FiniteGrows
<1>4. IsFiniteSet(Units(f, s)) BY <1>3 DEF G
<1> QED BY <1>4, FS_CardinalityType

(* The sum over a function's domain is the number of its units.            *)
LEMMA SumIsUnits ==
    ASSUME NEW f, IsFiniteSet(DOMAIN f), \A x \in DOMAIN f : f[x] \in Nat
    PROVE  SumFunction(f) = Cardinality(Units(f, DOMAIN f))
<1> DEFINE D == DOMAIN f
           c == [s \in SUBSET D |-> Cardinality(Units(f, s))]
           h == CHOOSE g : IsSum(f, g)
<1>1. SumFunction(f) = h[D]
  BY DEF SumFunction, SumFunctionOnSet, FoldFunctionOnSet, MapThenFoldSet, IsSum, AnyOf
<1>2. Cardinality(Units(f, {})) = 0
  <2>1. Units(f, {}) = {} BY DEF Units
  <2> QED BY <2>1, FS_EmptySet
<1>3. ASSUME NEW s \in SUBSET D, s # {}
      PROVE  /\ AnyOf(s) \in D /\ s \ {AnyOf(s)} \in SUBSET D
             /\ Cardinality(Units(f, s)) = f[AnyOf(s)] + Cardinality(Units(f, s \ {AnyOf(s)}))
  <2>1. AnyOf(s) \in s BY <1>3 DEF AnyOf
  <2>2. /\ IsFiniteSet(Units(f, s \ {AnyOf(s)})) /\ Cardinality(Units(f, s \ {AnyOf(s)})) \in Nat
    BY UnitsFinite
  <2>3. Cardinality(Units(f, s)) = Cardinality(Units(f, s \ {AnyOf(s)})) + f[AnyOf(s)]
    BY <2>1, <2>2, UnitsAdd
  <2> QED BY <2>1, <2>2, <2>3
<1>4. IsSum(f, c)
  <2>1. \A s \in SUBSET D : c[s] = IF s = {} THEN 0 ELSE f[AnyOf(s)] + c[s \ {AnyOf(s)}]
    BY <1>2, <1>3
  <2>2. c = [s \in SUBSET D |-> IF s = {} THEN 0 ELSE f[AnyOf(s)] + c[s \ {AnyOf(s)}]]
    <3>1. c = [s \in SUBSET D |-> c[s]] OBVIOUS
    <3> HIDE DEF c
    <3> QED BY <2>1, <3>1
  <2> HIDE DEF c
  <2> QED BY <2>2 DEF IsSum
<1>5. IsSum(f, h) BY <1>4
<1> DEFINE G == {s \in SUBSET D : h[s] = Cardinality(Units(f, s))}
<1> HIDE DEF h, c
<1>6. \A s \in SUBSET D : h[s] = IF s = {} THEN 0 ELSE f[AnyOf(s)] + h[s \ {AnyOf(s)}]
  BY <1>5 DEF IsSum
<1>7. {} \in G BY <1>2, <1>6
<1>8. \A s \in SUBSET D : s # {} /\ s \ {AnyOf(s)} \in G => s \in G BY <1>3, <1>6
<1> HIDE DEF G
<1>9. SUBSET D \subseteq G BY <1>7, <1>8, FiniteGrows
<1>10. D \in G BY <1>9
<1> QED BY <1>1, <1>10 DEF G

(* A function that differs from f at x only, where f may not be defined.   *)
LEMMA SumChange ==
    ASSUME NEW f, IsFiniteSet(DOMAIN f), \A y \in DOMAIN f : f[y] \in Nat,
           NEW g, NEW x, DOMAIN g = {x} \cup DOMAIN f, g[x] \in Nat,
           \A y \in DOMAIN f : y # x => g[y] = f[y]
    PROVE  /\ SumFunction(f) \in Nat
           /\ SumFunction(g) = SumFunction(f) + g[x] - (IF x \in DOMAIN f THEN f[x] ELSE 0)
<1> DEFINE D == DOMAIN f
           E == DOMAIN g
           R == D \ {x}
<1>1. IsFiniteSet(E) /\ \A y \in E : g[y] \in Nat
  <2>1. E = D \cup {x} OBVIOUS
  <2> QED BY <2>1, FS_AddElement
<1>2. SumFunction(f) = Cardinality(Units(f, D)) /\ SumFunction(g) = Cardinality(Units(g, E))
  BY <1>1, SumIsUnits
<1>3. Units(g, R) = Units(f, R) BY DEF Units
<1>4. R \in SUBSET D /\ R = E \ {x} /\ x \in E OBVIOUS
<1>5. IsFiniteSet(Units(f, R)) /\ Cardinality(Units(f, R)) \in Nat BY <1>4, UnitsFinite
<1>6. Cardinality(Units(g, E)) = Cardinality(Units(f, R)) + g[x]
  <2>1. IsFiniteSet(Units(g, E \ {x})) BY <1>3, <1>4, <1>5
  <2>2. Cardinality(Units(g, E)) = Cardinality(Units(g, E \ {x})) + g[x] BY <1>4, <2>1, UnitsAdd
  <2> QED BY <1>3, <1>4, <2>2
<1>7. CASE x \in D
  <2>1. Cardinality(Units(f, D)) = Cardinality(Units(f, R)) + f[x] BY <1>5, <1>7, UnitsAdd
  <2>2. f[x] \in Nat BY <1>7
  <2> QED BY <1>2, <1>5, <1>6, <1>7, <2>1, <2>2
<1>8. CASE x \notin D
  <2>1. R = D BY <1>8
  <2> QED BY <1>2, <1>5, <1>6, <1>8, <2>1
<1> QED BY <1>7, <1>8

(* It is a number.                                                         *)
LEMMA SumIsNat ==
    ASSUME NEW f, IsFiniteSet(DOMAIN f), \A x \in DOMAIN f : f[x] \in Nat
    PROVE  SumFunction(f) \in Nat
BY SumIsUnits, UnitsFinite

(* Nothing to add.                                                         *)
LEMMA SumOfNothing == ASSUME NEW f, DOMAIN f = {} PROVE SumFunction(f) = 0
<1>1. SumFunction(f) = Cardinality(Units(f, {})) BY FS_EmptySet, SumIsUnits
<1>2. Units(f, {}) = {} BY DEF Units
<1> QED BY <1>1, <1>2, FS_EmptySet

-----------------------------------------------------------------------------
(* Keys                                                                    *)

(* A key with its ends exchanged.                                          *)
LEMMA SwapKey ==
    ASSUME NEW k \in FlowKeys
    PROVE  /\ Swap(k) \in FlowKeys /\ Swap(Swap(k)) = k
           /\ Swap(k).src_ip = k.dst_ip /\ Swap(k).dst_ip = k.src_ip
           /\ Swap(k).src_port = k.dst_port /\ Swap(k).dst_port = k.src_port
<1>1. /\ Swap(k) \in FlowKeys
      /\ Swap(k).src_ip = k.dst_ip /\ Swap(k).dst_ip = k.src_ip
      /\ Swap(k).src_port = k.dst_port /\ Swap(k).dst_port = k.src_port
      /\ Swap(k).isIpv4 = k.isIpv4 /\ Swap(k).protocol = k.protocol
  BY DEF Swap, FlowKeys
<1> DEFINE s == Swap(k)
<1>2. /\ Swap(s) \in FlowKeys
      /\ Swap(s).src_ip = s.dst_ip /\ Swap(s).dst_ip = s.src_ip
      /\ Swap(s).src_port = s.dst_port /\ Swap(s).dst_port = s.src_port
      /\ Swap(s).isIpv4 = s.isIpv4 /\ Swap(s).protocol = s.protocol
  <2> HIDE DEF s
  <2>1. s \in FlowKeys BY <1>1 DEF s
  <2> QED BY <2>1 DEF Swap, FlowKeys
<1>3. \A a, b \in FlowKeys :
         /\ a.src_ip = b.src_ip /\ a.dst_ip = b.dst_ip /\ a.src_port = b.src_port
         /\ a.dst_port = b.dst_port /\ a.isIpv4 = b.isIpv4 /\ a.protocol = b.protocol
         => a = b
  BY DEF FlowKeys
<1>4. Swap(s) = k BY <1>1, <1>2, <1>3
<1> QED BY <1>1, <1>4

(* Of two keys that are each other's swap at most one is reversed, and     *)
(* neither only when they are the same.                                    *)
LEMMA OneReversed ==
    ASSUME NEW k \in FlowKeys
    PROVE  /\ IsReverse(k) \in BOOLEAN
           /\ IsReverse(k) => ~IsReverse(Swap(k))
           /\ ~IsReverse(k) /\ ~IsReverse(Swap(k)) => Swap(k) = k
<1> DEFINE s == Swap(k)
<1>1. /\ s \in FlowKeys /\ s.src_ip = k.dst_ip /\ s.dst_ip = k.src_ip
      /\ s.src_port = k.dst_port /\ s.dst_port = k.src_port
  BY SwapKey
<1>2. /\ k.src_ip \in Nat /\ k.dst_ip \in Nat /\ k.src_port \in Nat /\ k.dst_port \in Nat
  BY DEF FlowKeys
<1>3. IsReverse(k) \in BOOLEAN BY DEF IsReverse
<1>4. ~IsReverse(k) /\ ~IsReverse(s) => k.src_ip = k.dst_ip /\ k.src_port = k.dst_port
  <2> HIDE DEF s
  <2> QED BY <1>1, <1>2 DEF IsReverse
<1>5. IsReverse(k) => ~IsReverse(s)
  <2> HIDE DEF s
  <2> QED BY <1>1, <1>2 DEF IsReverse
<1>6. k.src_ip = k.dst_ip /\ k.src_port = k.dst_port => s = k BY DEF Swap, FlowKeys
<1> QED BY <1>3, <1>4, <1>5, <1>6

(* The normalized key, and how the packet's own key comes back from it.    *)
LEMMA NormalizedKey ==
    ASSUME NEW k \in FlowKeys
    PROVE  /\ Normalized(k) \in FlowKeys /\ ~IsReverse(Normalized(k))
           /\ k = (IF IsReverse(k) THEN Swap(Normalized(k)) ELSE Normalized(k))
<1>1. CASE IsReverse(k)
  <2>1. Normalized(k) = Swap(k) BY <1>1 DEF Normalized
  <2> QED BY <1>1, <2>1, SwapKey, OneReversed
<1>2. CASE ~IsReverse(k)
  <2>1. Normalized(k) = k BY <1>2 DEF Normalized
  <2> QED BY <1>2, <2>1
<1> QED BY <1>1, <1>2, OneReversed

(* Two keys have one normalized key exactly when they are the same or each *)
(* other's swap.                                                           *)
LEMMA SameConversation ==
    ASSUME NEW a \in FlowKeys, NEW b \in FlowKeys
    PROVE  Normalized(a) = Normalized(b) <=> a \in {b, Swap(b)}
<1>1. ASSUME Normalized(a) = Normalized(b) PROVE a \in {b, Swap(b)}
  <2> DEFINE n == Normalized(b)
  <2>1. n \in FlowKeys /\ a \in {n, Swap(n)} /\ b \in {n, Swap(n)} BY <1>1, NormalizedKey
  <2>2. Swap(Swap(n)) = n BY <2>1, SwapKey
  <2> HIDE DEF n
  <2> QED BY <2>1, <2>2
<1>2. ASSUME a = Swap(b) PROVE Normalized(a) = Normalized(b)
  <2>1. CASE IsReverse(b) BY <1>2, <2>1, OneReversed DEF Normalized
  <2>2. CASE ~IsReverse(b) /\ IsReverse(a)
    <3>1. Normalized(a) = Swap(Swap(b)) /\ Normalized(b) = b BY <1>2, <2>2 DEF Normalized
    <3> QED BY <3>1, SwapKey
  <2>3. CASE ~IsReverse(b) /\ ~IsReverse(a) BY <1>2, <2>3, OneReversed
  <2> QED BY <2>1, <2>2, <2>3, OneReversed
<1> QED BY <1>1, <1>2

-----------------------------------------------------------------------------
(* A flow                                                                  *)

(* The flows there can be.  Nothing is said of the reassemblers.           *)
FlowsWith(tcp) == [first_seen : Nat, last_seen : Nat,
                   stats : [Dirs -> [packets : Nat, bytes : Nat]],
                   tcp : {tcp}, is_reverse : BOOLEAN, app_state : BOOLEAN]
IsFlow(f) == f \in FlowsWith(f.tcp)

(* Two flows that differ in their reassemblers and their app_state only.   *)
SameCounts(f, g) == /\ f.first_seen = g.first_seen /\ f.last_seen = g.last_seen
                    /\ f.stats = g.stats /\ f.is_reverse = g.is_reverse

(* A new flow has counted nothing.                                         *)
LEMMA NewFlowIs ==
    ASSUME NEW key, NEW ts \in Nat, NEW f, f = NewFlow(key, ts)
    PROVE  /\ IsFlow(f) /\ f.first_seen = ts /\ ~f.app_state
           /\ \A d \in Dirs : f.stats[d].packets = 0
           /\ TotalOf(f, "packets") = 0 /\ TotalOf(f, "bytes") = 0
<1> DEFINE tcp == [d \in Dirs |-> Fresh(PortHasAppDecoder(key))]
           stats == [d \in Dirs |-> [packets |-> 0, bytes |-> 0]]
<1>1. f = [first_seen |-> ts, last_seen |-> ts, stats |-> stats, tcp |-> tcp,
           is_reverse |-> FALSE, app_state |-> FALSE]
  BY DEF NewFlow
<1>2. stats \in [Dirs -> [packets : Nat, bytes : Nat]] /\ \A d \in Dirs : stats[d].packets = 0
  OBVIOUS
<1> HIDE DEF tcp, stats
<1>3. IsFlow(f) BY <1>1, <1>2 DEF IsFlow, FlowsWith
<1>4. f.stats = stats BY <1>1
<1>5. TotalOf(f, "packets") = 0 /\ TotalOf(f, "bytes") = 0 BY <1>4 DEF TotalOf, stats, Dirs
<1> QED BY <1>1, <1>2, <1>3, <1>5

(* A packet counted for a flow.                                            *)
Recount(f, rev, ts, n) ==
    [f EXCEPT !.last_seen = ts, !.is_reverse = rev,
              !.stats[DirOf(rev)].packets = @ + 1,
              !.stats[DirOf(rev)].bytes = @ + n]

(* Only the packet's direction counts more.                                *)
LEMMA CountedIs ==
    ASSUME NEW f, IsFlow(f), NEW rev \in BOOLEAN, NEW ts \in Nat, NEW n \in Nat,
           NEW g, g = Recount(f, rev, ts, n)
    PROVE  /\ IsFlow(g) /\ g.last_seen = ts /\ g.first_seen = f.first_seen
           /\ g.is_reverse = rev /\ g.app_state = f.app_state
           /\ \A d \in Dirs : d # DirOf(rev) => g.stats[d].packets = f.stats[d].packets
           /\ TotalOf(g, "packets") = TotalOf(f, "packets") + 1
           /\ TotalOf(g, "bytes") = TotalOf(f, "bytes") + n
<1> DEFINE D == DirOf(rev)
           s1 == [f.stats EXCEPT ![D].packets = @ + 1]
           s2 == [s1 EXCEPT ![D].bytes = @ + n]
           h1 == [f EXCEPT !.last_seen = ts]
           h2 == [h1 EXCEPT !.is_reverse = rev]
           h3 == [h2 EXCEPT !.stats = s1]
           h4 == [h3 EXCEPT !.stats = s2]
<1>1. D \in Dirs BY DEF DirOf, Dirs
<1>2. f \in FlowsWith(f.tcp) /\ f.stats \in [Dirs -> [packets : Nat, bytes : Nat]]
  BY DEF IsFlow, FlowsWith
<1>3. g = h4
  <2> HIDE DEF D
  <2>1. g = [f EXCEPT !.last_seen = ts, !.is_reverse = rev,
                      !.stats[D].packets = @ + 1, !.stats[D].bytes = @ + n]
    BY DEF D, Recount
  <2> QED BY <1>1, <1>2, <2>1 DEF FlowsWith
<1>4. s1 \in [Dirs -> [packets : Nat, bytes : Nat]] /\ \A d \in Dirs : d # D => s1[d] = f.stats[d]
  <2> HIDE DEF D
  <2> QED BY <1>1, <1>2
<1>5. s2 \in [Dirs -> [packets : Nat, bytes : Nat]] /\ \A d \in Dirs : d # D => s2[d] = s1[d]
  <2> HIDE DEF D, s1
  <2> QED BY <1>1, <1>4
<1>6. \A d \in Dirs : /\ s2[d].packets = f.stats[d].packets + (IF d = D THEN 1 ELSE 0)
                      /\ s2[d].bytes = f.stats[d].bytes + (IF d = D THEN n ELSE 0)
  <2> HIDE DEF D
  <2> QED BY <1>1, <1>2
<1> HIDE DEF D, s1, s2
<1>7. h4 \in FlowsWith(f.tcp) /\ h4.tcp = f.tcp /\ h4.last_seen = ts /\ h4.first_seen = f.first_seen
      /\ h4.is_reverse = rev /\ h4.app_state = f.app_state /\ h4.stats = s2
  BY <1>2, <1>4, <1>5 DEF FlowsWith
<1> HIDE DEF h4
<1>8. TotalOf(g, "packets") = TotalOf(f, "packets") + 1 /\ TotalOf(g, "bytes") = TotalOf(f, "bytes") + n
  <2>1. D = "fwd" \/ D = "rev" BY <1>1 DEF Dirs
  <2>2. \A d \in Dirs : f.stats[d].packets \in Nat /\ f.stats[d].bytes \in Nat BY <1>2
  <2>3. g.stats = s2 BY <1>3, <1>7
  <2>4. {"fwd", "rev"} = Dirs BY DEF Dirs
  <2> QED BY <1>6, <2>1, <2>2, <2>3, <2>4 DEF TotalOf
<1> QED BY <1>3, <1>4, <1>5, <1>7, <1>8 DEF IsFlow, D

(* The reassemblers of a flow written anew.                                *)
LEMMA TcpWritten ==
    ASSUME NEW f, IsFlow(f), NEW tcp, NEW g, g = [f EXCEPT !.tcp = tcp]
    PROVE  IsFlow(g) /\ SameCounts(g, f) /\ g.app_state = f.app_state
<1>1. f \in FlowsWith(f.tcp) BY DEF IsFlow
<1>2. g \in FlowsWith(tcp) /\ g.tcp = tcp /\ SameCounts(g, f) /\ g.app_state = f.app_state
  BY <1>1 DEF FlowsWith, SameCounts
<1> QED BY <1>2 DEF IsFlow

(* The segment given to the two reassemblers.                              *)
LEMMA ReassembledIs ==
    ASSUME NEW f, IsFlow(f), NEW pkt, NEW g, g = Reassembled(f, pkt)
    PROVE  IsFlow(g) /\ SameCounts(g, f) /\ g.app_state = f.app_state
<1>1. CASE pkt.transport.kind # "tcp"
  <2>1. g = f BY <1>1 DEF Reassembled
  <2> QED BY <2>1 DEF SameCounts
<1>2. CASE pkt.transport.kind = "tcp"
  <2> DEFINE d == DirOf(f.is_reverse)
             h == pkt.transport.header
             tcp == [e \in Dirs |-> IF e = d THEN OnSentAll(f.tcp[e], h, pkt.payload)
                                    ELSE OnReceived(f.tcp[e], h)]
  <2>1. g = [f EXCEPT !.tcp = tcp] BY <1>2 DEF Reassembled
  <2> HIDE DEF tcp
  <2> QED BY <2>1, TcpWritten
<1> QED BY <1>1, <1>2

(* The flow that was polled.                                               *)
LEMMA PolledIs ==
    ASSUME NEW f, IsFlow(f), NEW pkt, NEW g, g = Polled(f, pkt)
    PROVE  IsFlow(g) /\ SameCounts(g, f)
<1> DEFINE d == DirOf(f.is_reverse)
           t == f.tcp[d]
           v == IF pkt.transport.kind = "tcp" /\ HasReadableData(t)
                THEN Consume(t, Available(t)) ELSE t
           e == [f EXCEPT !.app_state = TRUE]
           tcp == [f.tcp EXCEPT ![d] = v]
<1>1. g = [f EXCEPT !.app_state = TRUE, !.tcp[d] = v] BY DEF Polled
<1>2. f \in FlowsWith(f.tcp) BY DEF IsFlow
<1>3. e \in FlowsWith(f.tcp) /\ e.tcp = f.tcp /\ SameCounts(e, f)
  BY <1>2 DEF FlowsWith, SameCounts
<1> HIDE DEF d, v
<1>4. g = [e EXCEPT !.tcp = tcp] BY <1>1, <1>2 DEF FlowsWith
<1> HIDE DEF e, tcp
<1>5. IsFlow(e) BY <1>3 DEF IsFlow
<1>6. IsFlow(g) /\ SameCounts(g, e) BY <1>4, <1>5, TcpWritten
<1>7. SameCounts(g, f) BY <1>3, <1>6 DEF SameCounts
<1> QED BY <1>6, <1>7

-----------------------------------------------------------------------------
(* The invariant                                                           *)

(* Each flow under a normalized key, with its Applications when it has an  *)
(* application state, counting only directions that the filter matches.    *)
DInv == /\ decoded \in Nat /\ skipped \in Nat /\ dropped \in Nat /\ arps \in Nat
        /\ table.total_bytes \in Nat
        /\ \A k \in DOMAIN table.flows :
              /\ k \in FlowKeys /\ ~IsReverse(k) /\ IsFlow(table.flows[k])
              /\ table.flows[k].app_state => k \in DOMAIN apps
        /\ FilterDirectional

(* A map with one entry written, and written once more.                    *)
PutTwice(m, key, c, v) == [Put(m, key, c) EXCEPT ![key] = v]

(* It has the last value there, and the other entries as they were.        *)
IsPut(p, m, key, v) == /\ DOMAIN p = {key} \cup DOMAIN m /\ p[key] = v
                       /\ \A k \in DOMAIN m : k # key => p[k] = m[k]

(* That is so of every map, key and value.                                 *)
LEMMA PutIs ==
    ASSUME NEW m, NEW key, NEW c, NEW v, NEW p, p = PutTwice(m, key, c, v)
    PROVE  IsPut(p, m, key, v)
<1>1. Put(m, key, c) = [k \in {key} \cup DOMAIN m |-> IF k = key THEN c ELSE m[k]] BY DEF Put
<1> QED BY <1>1 DEF PutTwice, IsPut

(* The completed flows, with the one that a packet's time retires.         *)
Retired(key, ts) ==
    IF Expires(table, key, ts)
    THEN Append(table.completed, [key |-> key, flow |-> table.flows[key]]) ELSE table.completed

(* What a packet of a flow does to the flow table and the Applications.    *)
Entered(pkt, ts, own, key, is_new) ==
    LET new == table'.flows[key]
        old == table.flows[key]
    IN  /\ DOMAIN table'.flows = {key} \cup DOMAIN table.flows
        /\ \A k \in DOMAIN table.flows : k # key => table'.flows[k] = table.flows[k]
        /\ IsFlow(new) /\ new.last_seen = ts
        /\ new.first_seen = (IF is_new THEN ts ELSE old.first_seen)
        /\ \A d \in Dirs : d # DirOf(IsReverse(own)) /\ new.stats[d].packets > 0 =>
                              ~is_new /\ old.stats[d].packets > 0
        /\ DOMAIN apps \subseteq DOMAIN apps' /\ (new.app_state => key \in DOMAIN apps')
        /\ table'.total_bytes \in Nat
        /\ table'.total_bytes = table.total_bytes + pkt.incl_len
        /\ table'.completed = Retired(key, ts)
        /\ TotalOf(new, "packets") = (IF is_new THEN 0 ELSE TotalOf(old, "packets")) + 1
        /\ TotalOf(new, "bytes") = (IF is_new THEN 0 ELSE TotalOf(old, "bytes")) + pkt.incl_len
        /\ is_new \in BOOLEAN /\ (~is_new => key \in DOMAIN table.flows)

(* It is entered under its key as long as every flow is in order.          *)
LEMMA TrackEffect ==
    ASSUME DInv, NEW pkt \in Packets, NEW ts \in 0 .. MaxTime, Track(pkt, ts),
           NEW own, own = KeyFromPacket(pkt), NEW key, key = Normalized(own),
           NEW is_new, is_new = IsNew(table, key, ts)
    PROVE  /\ own \in FlowKeys /\ HasKey(pkt)
           /\ Entered(pkt, ts, own, key, is_new)
<1> DEFINE rev   == IsReverse(own)
           n     == pkt.incl_len
           base  == IF is_new THEN NewFlow(key, ts) ELSE table.flows[key]
           added == AddPacket(table, key, rev, ts, n)
           c     == Counted(table, key, rev, ts, n)
           flow  == Reassembled(added.flows[key], pkt)
           polls == Polls(key, pkt)
           v     == IF polls THEN Polled(flow, pkt) ELSE flow
<1>1. own \in FlowKeys /\ HasKey(pkt)
  <2>1. ~pkt.err /\ pkt.network # "arp" BY DEF Track
  <2> QED BY <2>1, PacketsAssumption DEF HasKey
<1>2. ts \in Nat /\ n \in Nat BY DecoderAssumption, PacketsAssumption
<1>3. rev \in BOOLEAN /\ key \in FlowKeys BY <1>1, OneReversed, NormalizedKey
<1>4. is_new \in BOOLEAN /\ (~is_new => key \in DOMAIN table.flows)
  BY DEF IsNew, Expires, IsExpired
<1>5. /\ IsFlow(base) /\ base.first_seen = (IF is_new THEN ts ELSE table.flows[key].first_seen)
      /\ base.app_state => key \in DOMAIN apps
      /\ is_new => \A d \in Dirs : base.stats[d].packets = 0
      /\ is_new => TotalOf(base, "packets") = 0 /\ TotalOf(base, "bytes") = 0
  <2>1. CASE is_new
    <3>1. base = NewFlow(key, ts) BY <2>1
    <3> HIDE DEF base
    <3>2. /\ IsFlow(base) /\ base.first_seen = ts /\ ~base.app_state
          /\ \A d \in Dirs : base.stats[d].packets = 0
          /\ TotalOf(base, "packets") = 0 /\ TotalOf(base, "bytes") = 0
      BY <1>2, <3>1, NewFlowIs
    <3> QED BY <2>1, <3>2
  <2>2. CASE ~is_new
    <3>1. base = table.flows[key] /\ key \in DOMAIN table.flows BY <1>4, <2>2
    <3> HIDE DEF base
    <3> QED BY <2>2, <3>1 DEF DInv
  <2> QED BY <1>4, <2>1, <2>2
<1>6. c = Recount(base, rev, ts, n) BY DEF Counted, Recount
<1> HIDE DEF base, c
<1>7. /\ IsFlow(c) /\ c.last_seen = ts /\ c.first_seen = base.first_seen
      /\ c.is_reverse = rev /\ c.app_state = base.app_state
      /\ \A d \in Dirs : d # DirOf(rev) => c.stats[d].packets = base.stats[d].packets
      /\ TotalOf(c, "packets") = TotalOf(base, "packets") + 1
      /\ TotalOf(c, "bytes") = TotalOf(base, "bytes") + n
  <2> HIDE DEF rev, n
  <2>1. IsFlow(base) /\ rev \in BOOLEAN /\ n \in Nat /\ ts \in Nat BY <1>2, <1>3, <1>5
  <2>2. /\ IsFlow(c) /\ c.last_seen = ts /\ c.first_seen = base.first_seen
        /\ c.is_reverse = rev /\ c.app_state = base.app_state
        /\ \A d \in Dirs : d # DirOf(rev) => c.stats[d].packets = base.stats[d].packets
    BY <1>6, <2>1, CountedIs
  <2>3. /\ TotalOf(c, "packets") = TotalOf(base, "packets") + 1
        /\ TotalOf(c, "bytes") = TotalOf(base, "bytes") + n
    BY <1>6, <2>1, CountedIs
  <2> QED BY <2>2, <2>3
<1>8. /\ added.flows = Put(table.flows, key, c) /\ added.total_bytes = table.total_bytes + n
      /\ added.completed = Retired(key, ts)
  BY DEF AddPacket, c, Retired
<1>9. added.flows[key] = c BY <1>8 DEF Put
<1>10. DOMAIN added = {"total_bytes", "completed", "flows"} BY DEF AddPacket
<1>11. IsFlow(flow) /\ SameCounts(flow, c) /\ flow.app_state = c.app_state
  <2>1. flow = Reassembled(c, pkt) BY <1>9
  <2> HIDE DEF flow
  <2> QED BY <1>7, <2>1, ReassembledIs
<1>12. IsFlow(v) /\ SameCounts(v, c) /\ (~polls => v.app_state = c.app_state)
  <2>1. CASE polls
    <3>1. v = Polled(flow, pkt) BY <2>1
    <3> HIDE DEF v, flow
    <3>2. IsFlow(v) /\ SameCounts(v, flow) BY <1>11, <3>1, PolledIs
    <3> QED BY <1>11, <2>1, <3>2 DEF SameCounts
  <2>2. CASE ~polls
    <3>1. v = flow BY <2>2
    <3> HIDE DEF v, flow
    <3> QED BY <1>11, <3>1
  <2> QED BY <2>1, <2>2
<1>13. /\ table' = [added EXCEPT !.flows[key] = v]
       /\ polls => \E s : apps' = Put(apps, key, s)
       /\ ~polls => apps' = apps
  <2>1. CASE polls
    <3> HIDE DEF added, flow
    <3>1. table' = [added EXCEPT !.flows[key] = Polled(flow, pkt)] /\ \E s : apps' = Put(apps, key, s)
      BY <2>1 DEF Track, added, flow, rev, n
    <3> QED BY <2>1, <3>1
  <2>2. CASE ~polls
    <3> HIDE DEF added, flow
    <3>1. table' = [added EXCEPT !.flows[key] = flow] /\ apps' = apps
      BY <2>2 DEF Track, added, flow, rev, n
    <3> QED BY <2>2, <3>1
  <2> QED BY <2>1, <2>2
<1> HIDE DEF v, added, flow, polls
<1>14. /\ table'.flows = [Put(table.flows, key, c) EXCEPT ![key] = v]
       /\ table'.total_bytes = table.total_bytes + n /\ table'.completed = Retired(key, ts)
  BY <1>8, <1>10, <1>13
<1>15. /\ DOMAIN table'.flows = {key} \cup DOMAIN table.flows /\ table'.flows[key] = v
       /\ \A k \in DOMAIN table.flows : k # key => table'.flows[k] = table.flows[k]
  <2> DEFINE p == table'.flows
  <2>1. p = PutTwice(table.flows, key, c, v) BY <1>14 DEF PutTwice
  <2> HIDE DEF p
  <2>2. IsPut(p, table.flows, key, v) BY <2>1, PutIs
  <2> QED BY <2>2 DEF p, IsPut
<1>16. v.last_seen = ts /\ v.first_seen = base.first_seen /\ v.stats = c.stats
  BY <1>7, <1>12 DEF SameCounts
<1>17. DOMAIN apps \subseteq DOMAIN apps' /\ (polls => key \in DOMAIN apps') BY <1>13 DEF Put
<1>18. v.app_state => key \in DOMAIN apps' BY <1>5, <1>7, <1>12, <1>17
<1>19. table'.total_bytes \in Nat
  <2>1. table.total_bytes \in Nat BY DEF DInv
  <2> QED BY <1>2, <1>14, <2>1
<1>20. ASSUME NEW d \in Dirs, d # DirOf(rev), v.stats[d].packets > 0
       PROVE  ~is_new /\ table.flows[key].stats[d].packets > 0
  <2>1. base.stats[d].packets > 0 BY <1>7, <1>16, <1>20
  <2>2. ~is_new
    <3>1. ~(0 > 0) OBVIOUS
    <3> QED BY <1>5, <2>1, <3>1
  <2>3. base = table.flows[key] BY <2>2 DEF base
  <2> QED BY <2>1, <2>2, <2>3
<1>21. /\ TotalOf(v, "packets") = (IF is_new THEN 0 ELSE TotalOf(table.flows[key], "packets")) + 1
       /\ TotalOf(v, "bytes") = (IF is_new THEN 0 ELSE TotalOf(table.flows[key], "bytes")) + n
  <2>1. TotalOf(v, "packets") = TotalOf(c, "packets") /\ TotalOf(v, "bytes") = TotalOf(c, "bytes")
    BY <1>16 DEF TotalOf
  <2>2. ~is_new => base = table.flows[key] BY DEF base
  <2> HIDE DEF n
  <2> QED BY <1>5, <1>7, <2>1, <2>2
<1> QED BY <1>1, <1>4, <1>5, <1>12, <1>14, <1>15, <1>16, <1>17, <1>18, <1>19, <1>20, <1>21 DEF Entered, rev, n

(* A packet of a flow keeps the invariant.                                 *)
LEMMA TrackKeeps ==
    ASSUME DInv, NEW pkt \in Packets, NEW ts \in 0 .. MaxTime, Track(pkt, ts)
    PROVE  DInv'
<1> DEFINE own    == KeyFromPacket(pkt)
           key    == Normalized(own)
           is_new == IsNew(table, key, ts)
           rev    == IsReverse(own)
<1>1. own \in FlowKeys /\ HasKey(pkt) /\ Entered(pkt, ts, own, key, is_new) BY TrackEffect
<1>2. /\ decoded' = decoded + 1 /\ filter' = filter
      /\ UNCHANGED <<skipped, dropped, arps>> /\ ~Filtered(pkt)
  BY DEF Track, Reads
<1>3. key \in FlowKeys /\ ~IsReverse(key) /\ own = (IF rev THEN Swap(key) ELSE key)
  BY <1>1, NormalizedKey
<1>4. rev \in BOOLEAN BY <1>1, OneReversed
<1>5. decoded' \in Nat /\ skipped' \in Nat /\ dropped' \in Nat /\ arps' \in Nat
  BY <1>2 DEF DInv
<1>6. IsNonZero(filter) => Matches(filter, own) BY <1>2 DEF Filtered
<1> HIDE DEF own, key, is_new, rev
<1>7. ASSUME NEW k \in DOMAIN table'.flows
      PROVE  /\ k \in FlowKeys /\ ~IsReverse(k) /\ IsFlow(table'.flows[k])
             /\ table'.flows[k].app_state => k \in DOMAIN apps'
  <2>1. CASE k = key BY <1>1, <1>3, <2>1 DEF Entered
  <2>2. CASE k # key
    <3>1. k \in DOMAIN table.flows /\ table'.flows[k] = table.flows[k] /\ DOMAIN apps \subseteq DOMAIN apps'
      BY <1>1, <2>2 DEF Entered
    <3> QED BY <3>1 DEF DInv
  <2> QED BY <2>1, <2>2
<1>8. ASSUME IsNonZero(filter), NEW k \in DOMAIN table'.flows, NEW d \in Dirs,
             table'.flows[k].stats[d].packets > 0
      PROVE  Matches(filter, IF d = "fwd" THEN k ELSE Swap(k))
  <2>0. \A j \in DOMAIN table.flows, e \in Dirs :
           table.flows[j].stats[e].packets > 0 => Matches(filter, IF e = "fwd" THEN j ELSE Swap(j))
    BY <1>8 DEF DInv, FilterDirectional
  <2>1. CASE k # key
    <3>1. k \in DOMAIN table.flows /\ table'.flows[k] = table.flows[k]
      BY <1>1, <2>1 DEF Entered
    <3> QED BY <1>8, <2>0, <3>1
  <2>2. CASE k = key /\ d = DirOf(rev)
    <3>1. (IF d = "fwd" THEN k ELSE Swap(k)) = own BY <1>3, <1>4, <2>2 DEF DirOf
    <3> QED BY <1>6, <1>8, <3>1
  <2>3. CASE k = key /\ d # DirOf(rev)
    <3>1. key \in DOMAIN table.flows /\ table.flows[key].stats[d].packets > 0
      BY <1>1, <1>8, <2>3 DEF Entered, rev
    <3> QED BY <2>0, <2>3, <3>1
  <2> QED BY <2>1, <2>2, <2>3
<1>9. FilterDirectional' BY <1>2, <1>8 DEF FilterDirectional
<1>10. table'.total_bytes \in Nat BY <1>1 DEF Entered
<1> QED BY <1>5, <1>7, <1>9, <1>10 DEF DInv

(* So does every other step.                                               *)
LEMMA NextDInv == DInv /\ [Next]_vars => DInv'
<1> SUFFICES ASSUME DInv, [Next]_vars PROVE DInv' OBVIOUS
<1>1. ASSUME NEW pkt \in Packets, NEW ts \in 0 .. MaxTime, Track(pkt, ts) PROVE DInv'
  BY <1>1, TrackKeeps
<1>2. ASSUME NEW pkt \in Packets, NEW ts \in 0 .. MaxTime,
             Skip(pkt, ts) \/ Drop(pkt, ts) \/ Arp(pkt, ts)
      PROVE  DInv'
  <2>1. /\ UNCHANGED <<table, apps, filter>>
        /\ decoded' \in Nat /\ skipped' \in Nat /\ dropped' \in Nat /\ arps' \in Nat
    BY <1>2 DEF Skip, Drop, Arp, Reads, DInv
  <2> QED BY <2>1 DEF DInv, FilterDirectional
<1>3. CASE Stop \/ UNCHANGED vars
  <2>1. UNCHANGED <<table, apps, filter, decoded, skipped, dropped, arps>>
    BY <1>3 DEF Stop, vars
  <2> QED BY <2>1 DEF DInv, FilterDirectional
<1> QED BY <1>1, <1>2, <1>3 DEF Next

(* It holds at the start.                                                  *)
LEMMA InitDInv == Init => DInv
<1> SUFFICES ASSUME Init PROVE DInv OBVIOUS
<1>1. table.flows = << >> /\ table.total_bytes = 0 BY DEF Init, NewTable
<1>2. DOMAIN table.flows = {} BY <1>1
<1> QED BY <1>1, <1>2 DEF Init, DInv, FilterDirectional

-----------------------------------------------------------------------------
(* Time                                                                    *)

(* The packets in the log l before the i-th that are of its conversation,  *)
(* and RetiredOnTime for packet i.                                         *)
BeforeIn(l, i) == {j \in 1 .. i - 1 : l[j].own \in {l[i].own, Swap(l[i].own)}}
StartIn(l, i)  == {j \in BeforeIn(l, i) : l[j].is_new}
OnTime(l, i) ==
    l[i].is_new <=>
       \/ BeforeIn(l, i) = {}
       \/ l[i].ts - l[Max(BeforeIn(l, i))].ts > idle_timeout_us
       \/ /\ active_timeout_us # 0
          /\ l[i].ts - l[Max(StartIn(l, i))].ts > active_timeout_us

(* The packets of the conversation with key k, and those that began a flow.*)
Of(l, k)     == {j \in 1 .. Len(l) : Normalized(l[j].own) = k}
Starts(l, k) == {j \in Of(l, k) : l[j].is_new}

(* A flow's times are those of its conversation's last packet and of the   *)
(* packet that last began a flow.                                          *)
Timed(l, flow, k) ==
    /\ Starts(l, k) # {}
    /\ flow.last_seen = l[Max(Of(l, k))].ts
    /\ flow.first_seen = l[Max(Starts(l, k))].ts

TInv == /\ \E S : log \in Seq(S)
        /\ clock \in 0 .. MaxTime
        /\ \A i \in 1 .. Len(log) :
              /\ log[i].own \in FlowKeys /\ log[i].is_new \in BOOLEAN
              /\ log[i].ts \in Nat /\ log[i].ts <= clock
        /\ \A k : k \in DOMAIN table.flows <=> Of(log, k) # {}
        /\ \A k \in DOMAIN table.flows : Timed(log, table.flows[k], k)
        /\ \A i \in 1 .. Len(log) :
              OnTime(log, i) /\ (BeforeIn(log, i) # {} => StartIn(log, i) # {})

(* It says when flows are retired.                                         *)
LEMMA TInvImplies == TInv => RetiredOnTime
<1>1. \A i : Before(i) = BeforeIn(log, i) BY DEF Before, BeforeIn
<1> SUFFICES ASSUME TInv, NEW i \in 1 .. Len(log)
             PROVE  log[i].is_new <=>
                       \/ Before(i) = {}
                       \/ log[i].ts - log[Max(Before(i))].ts > idle_timeout_us
                       \/ /\ active_timeout_us # 0
                          /\ log[i].ts - log[Max({j \in Before(i) : log[j].is_new})].ts
                               > active_timeout_us
  BY DEF RetiredOnTime
<1>2. OnTime(log, i) BY DEF TInv
<1> QED BY <1>1, <1>2 DEF OnTime, StartIn

(* What was said of a packet stays so when the log grows.                  *)
LEMMA EarlierOnTime ==
    ASSUME NEW n \in Nat, NEW l, NEW m, \A j \in 1 .. n : m[j] = l[j], NEW i \in 1 .. n,
           OnTime(l, i), BeforeIn(l, i) # {} => StartIn(l, i) # {}
    PROVE  OnTime(m, i) /\ (BeforeIn(m, i) # {} => StartIn(m, i) # {})
<1> DEFINE B == BeforeIn(l, i)
           S == StartIn(l, i)
<1>1. B \in SUBSET (1 .. n) /\ S \in SUBSET B BY DEF BeforeIn, StartIn
<1>2. m[i] = l[i] /\ \A j \in B : m[j] = l[j] BY <1>1
<1>3. BeforeIn(m, i) = B BY <1>2 DEF BeforeIn
<1>4. StartIn(m, i) = S BY <1>2, <1>3 DEF StartIn
<1>5. OnTime(l, i) = (l[i].is_new <=>
         \/ B = {}
         \/ l[i].ts - l[Max(B)].ts > idle_timeout_us
         \/ active_timeout_us # 0 /\ l[i].ts - l[Max(S)].ts > active_timeout_us)
  BY DEF OnTime
<1>6. OnTime(m, i) = (m[i].is_new <=>
         \/ B = {}
         \/ m[i].ts - m[Max(B)].ts > idle_timeout_us
         \/ active_timeout_us # 0 /\ m[i].ts - m[Max(S)].ts > active_timeout_us)
  BY <1>3, <1>4 DEF OnTime
<1> HIDE DEF B, S
<1>7. CASE B = {} BY <1>2, <1>3, <1>5, <1>6, <1>7
<1>8. CASE B # {}
  <2>1. S # {} BY <1>8 DEF B, S
  <2>2. S \in SUBSET (1 .. n) BY <1>1
  <2>3. Max(B) \in B /\ Max(S) \in S BY <1>1, <1>8, <2>1, <2>2, GreatestUpTo
  <2>4. m[Max(B)] = l[Max(B)] /\ m[Max(S)] = l[Max(S)] BY <1>1, <1>2, <2>3
  <2>5. OnTime(m, i) BY <1>2, <1>5, <1>6, <2>4
  <2> QED BY <1>3, <1>4, <2>1, <2>5
<1> QED BY <1>7, <1>8

(* Times below TimeSpace do not wrap.                                      *)
LEMMA U64Small == \A x \in 0 .. TimeSpace - 1 : U64(x) = x
BY TimeAssumption DEF U64

(* The log after a packet.                                                 *)
LEMMA Longer ==
    ASSUME NEW l, \E S : l \in Seq(S), NEW e, NEW m, m = Append(l, e)
    PROVE  /\ \E S : m \in Seq(S)
           /\ Len(l) \in Nat /\ Len(m) = Len(l) + 1 /\ m[Len(l) + 1] = e
           /\ \A j \in 1 .. Len(l) : m[j] = l[j]
<1>1. PICK S : l \in Seq(S) OBVIOUS
<1> DEFINE T == S \cup {e}
<1>2. l \in Seq(T)
  <2>1. Len(l) \in Nat /\ l \in [1 .. Len(l) -> S] BY <1>1, LenProperties
  <2>2. l \in [1 .. Len(l) -> T] BY <2>1
  <2> HIDE DEF T
  <2> QED BY <2>1, <2>2, IsASeq
<1> HIDE DEF T
<1>3. e \in T BY DEF T
<1>4. m \in Seq(T) /\ Len(m) = Len(l) + 1 /\ \A j \in 1 .. Len(l) : m[j] = l[j]
  BY <1>2, <1>3, AppendProperties
<1>5. m[Len(l) + 1] = e BY <1>2, <1>3, AppendProperties
<1>6. Len(l) \in Nat BY <1>2, LenProperties
<1> QED BY <1>4, <1>5, <1>6

(* Its packets of a conversation: one more in the packet's own.            *)
LEMMA OfLonger ==
    ASSUME NEW n \in Nat, NEW l, NEW m, Len(l) = n, Len(m) = n + 1,
           \A j \in 1 .. n : m[j] = l[j], NEW k
    PROVE  /\ Of(l, k) \in SUBSET (1 .. n) /\ Starts(l, k) \in SUBSET Of(l, k)
           /\ Of(m, k) = (IF Normalized(m[n + 1].own) = k THEN Of(l, k) \cup {n + 1} ELSE Of(l, k))
           /\ Starts(m, k) = (IF Normalized(m[n + 1].own) = k /\ m[n + 1].is_new
                              THEN Starts(l, k) \cup {n + 1} ELSE Starts(l, k))
<1>1. Of(l, k) \in SUBSET (1 .. n) /\ Starts(l, k) \in SUBSET Of(l, k) BY DEF Of, Starts
<1>2. 1 .. n + 1 = (1 .. n) \cup {n + 1} /\ n + 1 \notin 1 .. n OBVIOUS
<1>3. Of(m, k) = {j \in (1 .. n) \cup {n + 1} : Normalized(m[j].own) = k} BY <1>2 DEF Of
<1>4. Of(m, k) = (IF Normalized(m[n + 1].own) = k THEN Of(l, k) \cup {n + 1} ELSE Of(l, k))
  BY <1>2, <1>3 DEF Of
<1>5. \A j \in Of(l, k) : m[j].is_new = l[j].is_new BY <1>1
<1>6. Starts(m, k) = (IF Normalized(m[n + 1].own) = k /\ m[n + 1].is_new
                      THEN Starts(l, k) \cup {n + 1} ELSE Starts(l, k))
  BY <1>4, <1>5 DEF Starts
<1> QED BY <1>1, <1>4, <1>6

(* A packet of another conversation changes nothing for a flow.            *)
LEMMA OtherTimed ==
    ASSUME NEW n \in Nat, NEW l, NEW m, Len(l) = n, Len(m) = n + 1,
           \A j \in 1 .. n : m[j] = l[j], NEW k, Normalized(m[n + 1].own) # k,
           NEW flow, Timed(l, flow, k)
    PROVE  Timed(m, flow, k)
<1>1. /\ Of(l, k) \in SUBSET (1 .. n) /\ Starts(l, k) \in SUBSET Of(l, k)
      /\ Of(m, k) = Of(l, k) /\ Starts(m, k) = Starts(l, k)
  BY OfLonger
<1>2. Starts(l, k) # {} /\ Of(l, k) # {} BY <1>1 DEF Timed
<1>3. Max(Of(l, k)) \in Of(l, k) /\ Max(Starts(l, k)) \in Starts(l, k)
  <2>1. Starts(l, k) \in SUBSET (1 .. n) BY <1>1
  <2> QED BY <1>1, <1>2, <2>1, GreatestUpTo
<1>4. m[Max(Of(l, k))] = l[Max(Of(l, k))] /\ m[Max(Starts(l, k))] = l[Max(Starts(l, k))]
  BY <1>1, <1>3
<1> QED BY <1>1, <1>2, <1>4 DEF Timed

(* One of its own gives it the packet's time.                              *)
LEMMA OwnTimed ==
    ASSUME NEW n \in Nat, NEW l, NEW m, Len(l) = n, Len(m) = n + 1,
           \A j \in 1 .. n : m[j] = l[j], NEW k, Normalized(m[n + 1].own) = k,
           m[n + 1].is_new \in BOOLEAN,
           NEW old, NEW new, ~m[n + 1].is_new => Timed(l, old, k),
           new.last_seen = m[n + 1].ts,
           new.first_seen = (IF m[n + 1].is_new THEN m[n + 1].ts ELSE old.first_seen)
    PROVE  Timed(m, new, k)
<1>1. /\ Of(l, k) \in SUBSET (1 .. n) /\ Starts(l, k) \in SUBSET Of(l, k)
      /\ Of(m, k) = Of(l, k) \cup {n + 1}
      /\ Starts(m, k) = (IF m[n + 1].is_new THEN Starts(l, k) \cup {n + 1} ELSE Starts(l, k))
  BY OfLonger
<1>2. n + 1 \in Nat /\ \A j \in 1 .. n + 1 : j <= n + 1 OBVIOUS
<1>3. Of(m, k) \in SUBSET (1 .. n + 1) BY <1>1
<1>4. Max(Of(m, k)) = n + 1
  <2>1. n + 1 \in Of(m, k) /\ \A j \in Of(m, k) : j <= n + 1 BY <1>1, <1>2, <1>3
  <2> QED BY <1>2, <1>3, <2>1, GreatestIs
<1>5. CASE m[n + 1].is_new
  <2>1. Starts(m, k) \in SUBSET (1 .. n + 1) /\ n + 1 \in Starts(m, k) BY <1>1, <1>5
  <2>2. \A j \in Starts(m, k) : j <= n + 1 BY <1>2, <2>1
  <2>3. Max(Starts(m, k)) = n + 1 BY <1>2, <2>1, <2>2, GreatestIs
  <2> QED BY <1>4, <1>5, <2>1, <2>3 DEF Timed
<1>6. CASE ~m[n + 1].is_new
  <2>1. Starts(m, k) = Starts(l, k) /\ Starts(l, k) # {} /\ old.first_seen = l[Max(Starts(l, k))].ts
    BY <1>1, <1>6 DEF Timed
  <2>2. Starts(l, k) \in SUBSET (1 .. n) BY <1>1
  <2>3. Max(Starts(l, k)) \in 1 .. n BY <2>1, <2>2, GreatestUpTo
  <2>4. m[Max(Starts(l, k))] = l[Max(Starts(l, k))] BY <2>3
  <2> QED BY <1>4, <1>6, <2>1, <2>4 DEF Timed
<1> QED BY <1>5, <1>6

(* A packet begins a flow when it is the first, or too late.               *)
LEMMA ExpiredOnTime ==
    ASSUME NEW first \in Nat, NEW last \in Nat, NEW now \in 0 .. MaxTime,
           NEW ts \in now .. MaxTime, first <= now, last <= now,
           NEW flow, flow.first_seen = first, flow.last_seen = last
    PROVE  IsExpired(flow, ts) <=>
              \/ ts - last > idle_timeout_us
              \/ active_timeout_us # 0 /\ ts - first > active_timeout_us
<1>1. /\ MaxTime \in Nat /\ MaxTime <= TimeSpace - 1 /\ TimeSpace \in Nat
      /\ now \in Nat /\ ts \in Nat /\ ts <= MaxTime /\ now <= ts
  BY DecoderAssumption, TimeAssumption
<1>2. ts >= last /\ ts - last \in 0 .. TimeSpace - 1 /\ ts - first \in 0 .. TimeSpace - 1 BY <1>1
<1>3. U64(ts - last) = ts - last /\ U64(ts - first) = ts - first BY <1>2, U64Small
<1> QED BY <1>2, <1>3 DEF IsExpired

(* RetiredOnTime for the packet itself.                                    *)
LEMMA NewestOnTime ==
    ASSUME TInv, NEW ts \in clock .. MaxTime, NEW own \in FlowKeys,
           NEW m, Len(m) = Len(log) + 1, \A j \in 1 .. Len(log) : m[j] = log[j],
           NEW i, i = Len(log) + 1, Len(log) \in Nat,
           m[i].own = own, m[i].ts = ts, m[i].is_new = IsNew(table, Normalized(own), ts)
    PROVE  OnTime(m, i) /\ (BeforeIn(m, i) # {} => StartIn(m, i) # {})
<1> DEFINE k == Normalized(own)
           n == Len(log)
           B == Of(log, k)
           S == Starts(log, k)
<1>1. BeforeIn(m, i) = B
  <2>1. i - 1 = n OBVIOUS
  <2>2. \A j \in 1 .. n : m[j].own \in FlowKeys /\ m[j].own = log[j].own BY DEF TInv
  <2>3. \A j \in 1 .. n : Normalized(m[j].own) = k <=> m[j].own \in {own, Swap(own)}
    BY <2>2, SameConversation
  <2>4. BeforeIn(m, i) = {j \in 1 .. n : m[j].own \in {own, Swap(own)}} BY <2>1 DEF BeforeIn
  <2> HIDE DEF k, n
  <2> QED BY <2>2, <2>3, <2>4 DEF Of, n
<1>2. B \in SUBSET (1 .. n) /\ S \in SUBSET B /\ S \in SUBSET (1 .. n) BY DEF Of, Starts
<1>3. StartIn(m, i) = S
  <2>1. \A j \in B : m[j] = log[j] BY <1>2
  <2> HIDE DEF k, n
  <2> QED BY <1>1, <2>1 DEF StartIn, Starts
<1>4. OnTime(m, i) = (m[i].is_new <=>
         \/ B = {}
         \/ m[i].ts - m[Max(B)].ts > idle_timeout_us
         \/ active_timeout_us # 0 /\ m[i].ts - m[Max(S)].ts > active_timeout_us)
  <2> HIDE DEF B, S
  <2> QED BY <1>1, <1>3 DEF OnTime
<1>5. k \in DOMAIN table.flows <=> B # {} BY DEF TInv
<1>6. CASE B = {}
  <2>1. m[i].is_new BY <1>5, <1>6 DEF IsNew
  <2> HIDE DEF B, S
  <2> QED BY <1>1, <1>4, <1>6, <2>1
<1>7. CASE B # {}
  <2> DEFINE flow == table.flows[k]
             last == log[Max(B)].ts
             first == log[Max(S)].ts
  <2>1. S # {} /\ flow.last_seen = last /\ flow.first_seen = first
    BY <1>5, <1>7 DEF TInv, Timed
  <2>2. Max(B) \in 1 .. n /\ Max(S) \in 1 .. n BY <1>2, <1>7, <2>1, GreatestUpTo
  <2>3. first \in Nat /\ last \in Nat /\ first <= clock /\ last <= clock BY <2>2 DEF TInv
  <2>4. clock \in 0 .. MaxTime BY DEF TInv
  <2>5. m[Max(B)].ts = last /\ m[Max(S)].ts = first BY <2>2
  <2>6. m[i].is_new <=> IsExpired(flow, ts) BY <1>5, <1>7 DEF IsNew, Expires, IsExpired
  <2> HIDE DEF B, S, flow, last, first
  <2>7. IsExpired(flow, ts) <=>
           \/ ts - last > idle_timeout_us
           \/ active_timeout_us # 0 /\ ts - first > active_timeout_us
    BY <2>1, <2>3, <2>4, ExpiredOnTime
  <2> QED BY <1>1, <1>3, <1>4, <1>7, <2>1, <2>5, <2>6, <2>7
<1> QED BY <1>6, <1>7


-----------------------------------------------------------------------------
(* Every step                                                              *)

(* A packet of a flow keeps the times in order.                            *)
LEMMA TrackTimes ==
    ASSUME Backwards = FALSE, DInv, TInv,
           NEW pkt \in Packets, NEW ts \in 0 .. MaxTime, Track(pkt, ts)
    PROVE  TInv'
<1> DEFINE own    == KeyFromPacket(pkt)
           key    == Normalized(own)
           is_new == IsNew(table, key, ts)
           m      == log'
           n      == Len(log)
           new    == m[n + 1]
<1>1. own \in FlowKeys /\ Entered(pkt, ts, own, key, is_new) BY TrackEffect
<1>2. clock' = ts /\ ts \in clock .. MaxTime BY DEF Track, Reads
<1>3. PICK e : /\ m = Append(log, e) /\ e.own = own /\ e.ts = ts /\ e.is_new = is_new
  BY DEF Track
<1> HIDE DEF own, key, is_new, m
<1>4. /\ \E S : m \in Seq(S)
      /\ n \in Nat /\ Len(m) = n + 1 /\ new = e
      /\ \A j \in 1 .. n : m[j] = log[j]
  <2>1. \E S : log \in Seq(S) BY DEF TInv
  <2> QED BY <1>3, <2>1, Longer
<1>5. new.own = own /\ new.ts = ts /\ new.is_new = is_new /\ Normalized(new.own) = key
  BY <1>3, <1>4 DEF key
<1>6. is_new \in BOOLEAN /\ (~is_new => key \in DOMAIN table.flows) BY <1>1 DEF Entered
<1>7. clock \in 0 .. MaxTime /\ MaxTime \in Nat /\ ts \in Nat /\ clock <= ts
  BY <1>2, DecoderAssumption, TimeAssumption DEF TInv
<1>8. \A i \in 1 .. n + 1 : i \in 1 .. n \/ i = n + 1 BY <1>4
<1>9. \A i \in 1 .. n + 1 :
         /\ m[i].own \in FlowKeys /\ m[i].is_new \in BOOLEAN
         /\ m[i].ts \in Nat /\ m[i].ts <= ts
  <2>1. \A i \in 1 .. n :
           /\ m[i].own \in FlowKeys /\ m[i].is_new \in BOOLEAN
           /\ m[i].ts \in Nat /\ m[i].ts <= clock
    BY <1>4 DEF TInv
  <2>2. \A x \in Nat : x <= clock => x <= ts BY <1>7
  <2>3. ts <= ts BY <1>7
  <2> HIDE DEF n, new
  <2> QED BY <1>1, <1>5, <1>6, <1>7, <1>8, <2>1, <2>2, <2>3 DEF new
<1>10. ASSUME NEW k PROVE k \in DOMAIN table'.flows <=> Of(m, k) # {}
  <2>1. Of(m, k) = (IF Normalized(new.own) = k THEN Of(log, k) \cup {n + 1} ELSE Of(log, k))
    <3> HIDE DEF n
    <3>1. Len(log) = n BY DEF n
    <3>2. \A j \in 1 .. n : m[j] = log[j] BY <1>4
    <3> QED BY <1>4, <3>1, <3>2, OfLonger DEF new
  <2>2. k \in DOMAIN table.flows <=> Of(log, k) # {} BY DEF TInv
  <2>3. DOMAIN table'.flows = {key} \cup DOMAIN table.flows BY <1>1 DEF Entered
  <2> HIDE DEF n, new
  <2> QED BY <1>5, <2>1, <2>2, <2>3
<1>11. ASSUME NEW k \in DOMAIN table'.flows PROVE Timed(m, table'.flows[k], k)
  <2>1. CASE k # key
    <3>1. k \in DOMAIN table.flows /\ table'.flows[k] = table.flows[k]
      BY <1>1, <2>1 DEF Entered
    <3>2. Timed(log, table.flows[k], k) BY <3>1 DEF TInv
    <3>3. Timed(m, table.flows[k], k) BY <1>4, <1>5, <2>1, <3>2, OtherTimed
    <3> QED BY <3>1, <3>3
  <2>2. CASE k = key
    <3> DEFINE old == table.flows[key]
               now == table'.flows[key]
    <3>1. now.last_seen = ts /\ now.first_seen = (IF is_new THEN ts ELSE old.first_seen)
      BY <1>1 DEF Entered
    <3>2. ~is_new => Timed(log, old, key) BY <1>6 DEF TInv
    <3> HIDE DEF old, now
    <3>3. Timed(m, now, key) BY <1>4, <1>5, <1>6, <3>1, <3>2, OwnTimed
    <3> QED BY <2>2, <3>3 DEF now
  <2> QED BY <2>1, <2>2
<1>12. ASSUME NEW i \in 1 .. n + 1
       PROVE  OnTime(m, i) /\ (BeforeIn(m, i) # {} => StartIn(m, i) # {})
  <2>1. CASE i \in 1 .. n
    <3>1. OnTime(log, i) /\ (BeforeIn(log, i) # {} => StartIn(log, i) # {}) BY <2>1 DEF TInv
    <3> QED BY <1>4, <2>1, <3>1, EarlierOnTime
  <2>2. CASE i = n + 1
    <3>1. m[i].own = own /\ m[i].ts = ts /\ m[i].is_new = IsNew(table, Normalized(own), ts)
      BY <1>5, <2>2 DEF is_new, key
    <3> QED BY <1>1, <1>2, <1>4, <2>2, <3>1, NewestOnTime
  <2> QED BY <1>8, <2>1, <2>2
<1>13. clock' \in 0 .. MaxTime BY <1>2
<1> HIDE DEF n, new
<1>14. Len(m) = n + 1 BY <1>4
<1>15. /\ \A i \in 1 .. Len(m) :
             /\ m[i].own \in FlowKeys /\ m[i].is_new \in BOOLEAN
             /\ m[i].ts \in Nat /\ m[i].ts <= clock'
       /\ \A i \in 1 .. Len(m) :
             OnTime(m, i) /\ (BeforeIn(m, i) # {} => StartIn(m, i) # {})
  BY <1>2, <1>9, <1>12, <1>14, Zenon
<1> QED BY <1>4, <1>10, <1>11, <1>13, <1>15, Zenon DEF TInv, m

(* So does every other step: only the clock may change.                    *)
LEMMA NextTInv == ASSUME Backwards = FALSE PROVE DInv /\ TInv /\ [Next]_vars => TInv'
<1> SUFFICES ASSUME DInv, TInv, [Next]_vars PROVE TInv' OBVIOUS
<1>1. ASSUME NEW pkt \in Packets, NEW ts \in 0 .. MaxTime, Track(pkt, ts) PROVE TInv'
  BY <1>1, TrackTimes
<1>2. ASSUME UNCHANGED <<table, log>>, clock' \in 0 .. MaxTime, clock <= clock' PROVE TInv'
  <2>1. clock \in 0 .. MaxTime /\ MaxTime \in Nat
    BY DecoderAssumption, TimeAssumption DEF TInv
  <2>2. \A x \in Nat : x <= clock => x <= clock' BY <1>2, <2>1
  <2>3. \A i \in 1 .. Len(log) : log[i].ts \in Nat /\ log[i].ts <= clock' BY <2>2 DEF TInv
  <2> QED BY <1>2, <2>3 DEF TInv
<1>3. ASSUME NEW pkt \in Packets, NEW ts \in 0 .. MaxTime,
             Skip(pkt, ts) \/ Drop(pkt, ts) \/ Arp(pkt, ts)
      PROVE  TInv'
  <2>1. UNCHANGED <<table, log>> /\ clock' = ts /\ ts \in clock .. MaxTime
    BY <1>3 DEF Skip, Drop, Arp, Reads
  <2>2. clock' \in 0 .. MaxTime /\ clock <= clock'
    BY <2>1, DecoderAssumption, TimeAssumption DEF TInv
  <2> QED BY <1>2, <2>1, <2>2
<1>4. CASE Stop \/ UNCHANGED vars
  <2>1. UNCHANGED <<table, log, clock>> BY <1>4 DEF Stop, vars
  <2>2. clock' \in 0 .. MaxTime /\ clock <= clock'
    BY <2>1, DecoderAssumption, TimeAssumption DEF TInv
  <2> QED BY <1>2, <2>1, <2>2
<1> QED BY <1>1, <1>3, <1>4 DEF Next

(* At the start there is no packet and no flow.                            *)
LEMMA InitTInv == Init => TInv
<1> SUFFICES ASSUME Init PROVE TInv OBVIOUS
<1>1. log = <<>> /\ clock = 0 /\ DOMAIN table.flows = {} BY DEF Init, NewTable
<1>2. Len(log) = 0 /\ 1 .. Len(log) = {} BY <1>1
<1>3. log \in Seq({}) BY <1>1
<1>4. \A k : Of(log, k) = {} BY <1>2 DEF Of
<1>5. clock \in 0 .. MaxTime BY <1>1, DecoderAssumption, TimeAssumption
<1> QED BY <1>1, <1>2, <1>3, <1>4, <1>5 DEF TInv

-----------------------------------------------------------------------------
(* Counts                                                                  *)

Fields == {"packets", "bytes"}

(* The retired flows are a list of flows, the active ones are finitely     *)
(* many, and together they count what was counted in total.                *)
CInv == /\ IsFiniteSet(DOMAIN table.flows)
        /\ \E S : table.completed \in Seq(S)
        /\ \A i \in DOMAIN table.completed : IsFlow(table.completed[i].flow)
        /\ CountsConserved

(* A flow counts a number of each.                                         *)
LEMMA TotalIsNat ==
    ASSUME NEW f, IsFlow(f), NEW field \in Fields PROVE TotalOf(f, field) \in Nat
<1>1. f.stats \in [Dirs -> [packets : Nat, bytes : Nat]] BY DEF IsFlow, FlowsWith
<1>2. \A d \in Dirs : f.stats[d].packets \in Nat /\ f.stats[d].bytes \in Nat BY <1>1
<1>3. "fwd" \in Dirs /\ "rev" \in Dirs BY DEF Dirs
<1>4. CASE field = "packets" BY <1>2, <1>3, <1>4 DEF TotalOf
<1>5. CASE field = "bytes" BY <1>2, <1>3, <1>5 DEF TotalOf
<1> QED BY <1>4, <1>5 DEF Fields

(* The total of each flow of a map, and of each flow of a list.            *)
Active(m, field) == [k \in DOMAIN m |-> TotalOf(m[k], field)]
Listed(q, field) == [i \in DOMAIN q |-> TotalOf(q[i].flow, field)]

(* The list r is the list q with e at its end, and the map p is the map m  *)
(* with another value at key.                                              *)
Lists(r, q, e, field) ==
    /\ \E S : q \in Seq(S)
    /\ r = Append(q, e)
    /\ \A i \in DOMAIN q : TotalOf(q[i].flow, field) \in Nat
    /\ TotalOf(e.flow, field) \in Nat
Enters(p, m, key, field) ==
    /\ IsFiniteSet(DOMAIN m)
    /\ DOMAIN p = {key} \cup DOMAIN m
    /\ \A k \in DOMAIN m : k # key => p[k] = m[k]
    /\ \A k \in DOMAIN m : TotalOf(m[k], field) \in Nat
    /\ TotalOf(p[key], field) \in Nat

(* A flow at the end of a list adds its total.                             *)
LEMMA ListGrows ==
    ASSUME NEW q, NEW e, NEW r, NEW field, Lists(r, q, e, field)
    PROVE  /\ SumFunction(Listed(q, field)) \in Nat
           /\ SumFunction(Listed(r, field)) = SumFunction(Listed(q, field)) + TotalOf(e.flow, field)
<1> DEFINE n == Len(q)
           f == Listed(q, field)
           g == Listed(r, field)
<1> USE DEF Lists
<1>0. PICK S : q \in Seq(S) OBVIOUS
<1>1. n \in Nat /\ DOMAIN q = 1 .. n BY <1>0
<1>2. DOMAIN r = 1 .. n + 1 /\ r[n + 1] = e /\ \A i \in 1 .. n : r[i] = q[i]
  <2>1. q \in Seq(S \cup {e}) /\ e \in S \cup {e} BY <1>0
  <2>2. Len(r) = n + 1 /\ r \in Seq(S \cup {e}) BY <2>1
  <2> QED BY <2>1, <2>2
<1> HIDE DEF n
<1>3. DOMAIN f = 1 .. n /\ \A i \in 1 .. n : f[i] = TotalOf(q[i].flow, field) BY <1>1 DEF Listed
<1>4. DOMAIN g = 1 .. n + 1 /\ \A i \in 1 .. n + 1 : g[i] = TotalOf(r[i].flow, field) BY <1>2 DEF Listed
<1>5. n + 1 \in 1 .. n + 1 /\ n + 1 \notin 1 .. n /\ 1 .. n + 1 = {n + 1} \cup 1 .. n BY <1>1
<1> HIDE DEF f, g
<1>6. g[n + 1] = TotalOf(e.flow, field) BY <1>2, <1>4, <1>5
<1>7. \A i \in DOMAIN f : f[i] \in Nat /\ (i # n + 1 => g[i] = f[i]) BY <1>1, <1>2, <1>3, <1>4, <1>5
<1>8. IsFiniteSet(DOMAIN f) BY <1>1, <1>3, FS_Interval
<1>9. DOMAIN g = {n + 1} \cup DOMAIN f /\ n + 1 \notin DOMAIN f BY <1>3, <1>4, <1>5
<1> DEFINE x == n + 1
<1> HIDE DEF x
<1>10. /\ DOMAIN g = {x} \cup DOMAIN f /\ x \notin DOMAIN f /\ g[x] = TotalOf(e.flow, field)
       /\ \A i \in DOMAIN f : f[i] \in Nat /\ (i # x => g[i] = f[i])
  BY <1>6, <1>7, <1>9 DEF x
<1>11. /\ SumFunction(f) \in Nat
       /\ SumFunction(g) = SumFunction(f) + g[x] - (IF x \in DOMAIN f THEN f[x] ELSE 0)
  BY <1>8, <1>10, SumChange
<1> QED BY <1>10, <1>11 DEF f, g

(* A flow entered under its key adds its total, less that of the flow it   *)
(* replaces.                                                               *)
LEMMA MapGrows ==
    ASSUME NEW m, NEW key, NEW p, NEW field, Enters(p, m, key, field)
    PROVE  /\ SumFunction(Active(m, field)) \in Nat
           /\ SumFunction(Active(p, field)) =
                 SumFunction(Active(m, field)) + TotalOf(p[key], field)
                 - (IF key \in DOMAIN m THEN TotalOf(m[key], field) ELSE 0)
<1> DEFINE f == Active(m, field)
           g == Active(p, field)
<1> USE DEF Enters
<1>1. DOMAIN f = DOMAIN m /\ \A k \in DOMAIN m : f[k] = TotalOf(m[k], field) BY DEF Active
<1>2. DOMAIN g = DOMAIN p /\ \A k \in DOMAIN p : g[k] = TotalOf(p[k], field) BY DEF Active
<1> HIDE DEF f, g
<1>3. DOMAIN g = {key} \cup DOMAIN f /\ g[key] = TotalOf(p[key], field) BY <1>1, <1>2
<1>4. \A k \in DOMAIN f : f[k] \in Nat /\ (k # key => g[k] = f[k]) BY <1>1, <1>2
<1>5. IsFiniteSet(DOMAIN f) BY <1>1
<1>6. /\ SumFunction(f) \in Nat
      /\ SumFunction(g) = SumFunction(f) + g[key] - (IF key \in DOMAIN f THEN f[key] ELSE 0)
  BY <1>3, <1>4, <1>5, SumChange
<1> QED BY <1>1, <1>3, <1>6 DEF f, g

(* A packet of a flow adds to the sum over the flows what it adds to its   *)
(* own flow, also when it retires a flow.                                  *)
LEMMA SumGrows ==
    ASSUME DInv, CInv, NEW key, NEW ts, NEW field \in Fields, NEW a \in Nat,
           DOMAIN table'.flows = {key} \cup DOMAIN table.flows,
           \A k \in DOMAIN table.flows : k # key => table'.flows[k] = table.flows[k],
           table'.completed = Retired(key, ts),
           TotalOf(table'.flows[key], field) =
              (IF IsNew(table, key, ts) THEN 0 ELSE TotalOf(table.flows[key], field)) + a
    PROVE  /\ SumOverFlows(table, field) \in Nat
           /\ SumOverFlows(table', field) = SumOverFlows(table, field) + a
<1> DEFINE m == table.flows
           p == table'.flows
           q == table.completed
           r == table'.completed
           was == TotalOf(m[key], field)
           e == [key |-> key, flow |-> m[key]]
<1>1. \A k \in DOMAIN m : TotalOf(m[k], field) \in Nat
  <2>1. \A k \in DOMAIN m : IsFlow(m[k]) BY DEF DInv
  <2> QED BY <2>1, TotalIsNat
<1>2. \A i \in DOMAIN q : TotalOf(q[i].flow, field) \in Nat
  <2>1. \A i \in DOMAIN q : IsFlow(q[i].flow) BY DEF CInv
  <2> QED BY <2>1, TotalIsNat
<1>3. PICK S : q \in Seq(S) BY DEF CInv
<1>4. IsFiniteSet(DOMAIN m) BY DEF CInv
<1>5. \A tb : SumOverFlows(tb, field) =
                 SumFunction(Listed(tb.completed, field)) + SumFunction(Active(tb.flows, field))
  BY DEF SumOverFlows, Listed, Active
<1>6. key \in DOMAIN m => was \in Nat BY <1>1
<1>7. TotalOf(p[key], field) = (IF IsNew(table, key, ts) THEN 0 ELSE was) + a OBVIOUS
<1>8. ~IsNew(table, key, ts) => key \in DOMAIN m BY DEF IsNew
<1>9. TotalOf(p[key], field) \in Nat
  <2> HIDE DEF m, p, was
  <2> QED BY <1>6, <1>7, <1>8
<1>10. /\ SumFunction(Active(m, field)) \in Nat
       /\ SumFunction(Active(p, field)) = SumFunction(Active(m, field)) + TotalOf(p[key], field)
                                          - (IF key \in DOMAIN m THEN was ELSE 0)
  <2>1. DOMAIN p = {key} \cup DOMAIN m /\ \A k \in DOMAIN m : k # key => p[k] = m[k] OBVIOUS
  <2>2. was = TotalOf(m[key], field) OBVIOUS
  <2> HIDE DEF m, p, was
  <2>3. Enters(p, m, key, field) BY <1>1, <1>4, <1>9, <2>1 DEF Enters
  <2> QED BY <2>2, <2>3, MapGrows
<1>11. SumFunction(Listed(q, field)) \in Nat
  <2> DEFINE f == Listed(q, field)
  <2>1. DOMAIN f = DOMAIN q /\ \A i \in DOMAIN q : f[i] \in Nat BY <1>2 DEF Listed
  <2>2. DOMAIN q = 1 .. Len(q) /\ Len(q) \in Nat BY <1>3
  <2> HIDE DEF q, f
  <2>3. IsFiniteSet(DOMAIN f) BY <2>1, <2>2, FS_Interval
  <2>4. SumFunction(f) \in Nat BY <2>1, <2>3, SumIsNat
  <2> QED BY <2>4 DEF f
<1>12. CASE Expires(table, key, ts)
  <2>1. key \in DOMAIN m /\ IsNew(table, key, ts) BY <1>12 DEF Expires, IsNew
  <2>2. r = Append(q, e) BY <1>12 DEF Retired
  <2>3. e.flow = m[key] OBVIOUS
  <2>4. TotalOf(e.flow, field) = was /\ was \in Nat BY <1>6, <2>1, <2>3
  <2> HIDE DEF m, p, q, r, e, was
  <2>5. SumFunction(Listed(r, field)) = SumFunction(Listed(q, field)) + was
    <3>1. Lists(r, q, e, field) BY <1>2, <1>3, <2>2, <2>4 DEF Lists
    <3> QED BY <2>4, <3>1, ListGrows
  <2>6. SumFunction(Active(p, field)) = SumFunction(Active(m, field)) + a - was BY <1>7, <1>10, <2>1, <2>4
  <2>7. SumFunction(Listed(r, field)) + SumFunction(Active(p, field))
           = (SumFunction(Listed(q, field)) + SumFunction(Active(m, field))) + a
    BY <1>10, <1>11, <2>4, <2>5, <2>6
  <2> QED BY <1>5, <1>10, <1>11, <2>7 DEF m, p, q, r
<1>13. CASE ~Expires(table, key, ts)
  <2>1. r = q BY <1>13 DEF Retired
  <2>2. IsNew(table, key, ts) <=> key \notin DOMAIN m BY <1>13 DEF IsNew
  <2> HIDE DEF m, p, q, r, was
  <2>3. SumFunction(Active(p, field)) = SumFunction(Active(m, field)) + a BY <1>6, <1>7, <1>10, <2>2
  <2>4. SumFunction(Listed(r, field)) + SumFunction(Active(p, field))
           = (SumFunction(Listed(q, field)) + SumFunction(Active(m, field))) + a
    BY <1>10, <1>11, <2>1, <2>3
  <2> QED BY <1>5, <1>10, <1>11, <2>4 DEF m, p, q, r
<1> QED BY <1>12, <1>13

(* The sum over the flows is an integer.                                   *)
LEMMA SumIsInt ==
    ASSUME DInv, CInv PROVE SumOverFlows(table, "packets") \in Int
<1> DEFINE f == Listed(table.completed, "packets")
           g == Active(table.flows, "packets")
<1>1. IsFiniteSet(DOMAIN f) /\ \A i \in DOMAIN f : f[i] \in Nat
  <2>1. \A i \in DOMAIN table.completed : TotalOf(table.completed[i].flow, "packets") \in Nat
    BY TotalIsNat DEF CInv, Fields
  <2>2. PICK S : table.completed \in Seq(S) BY DEF CInv
  <2>3. DOMAIN table.completed = 1 .. Len(table.completed) /\ Len(table.completed) \in Nat BY <2>2
  <2>4. IsFiniteSet(DOMAIN table.completed) BY <2>3, FS_Interval
  <2> QED BY <2>1, <2>4 DEF Listed
<1>2. IsFiniteSet(DOMAIN g) /\ \A k \in DOMAIN g : g[k] \in Nat
  <2>1. \A k \in DOMAIN table.flows : TotalOf(table.flows[k], "packets") \in Nat
    BY TotalIsNat DEF DInv, Fields
  <2>2. IsFiniteSet(DOMAIN table.flows) BY DEF CInv
  <2> QED BY <2>1, <2>2 DEF Active
<1>3. SumOverFlows(table, "packets") = SumFunction(f) + SumFunction(g)
  BY DEF SumOverFlows, Listed, Active
<1> HIDE DEF f, g
<1>4. SumFunction(f) \in Nat /\ SumFunction(g) \in Nat BY <1>1, <1>2, SumIsNat
<1> QED BY <1>3, <1>4

(* A packet of a flow keeps the sums.                                      *)
LEMMA TrackCounts ==
    ASSUME DInv, CInv, NEW pkt \in Packets, NEW ts \in 0 .. MaxTime, Track(pkt, ts)
    PROVE  CInv'
<1> DEFINE own    == KeyFromPacket(pkt)
           key    == Normalized(own)
           is_new == IsNew(table, key, ts)
<1>1. Entered(pkt, ts, own, key, is_new) BY TrackEffect
<1>2. decoded' = decoded + 1 /\ arps' = arps BY DEF Track
<1>3. decoded \in Nat /\ arps \in Nat /\ table.total_bytes \in Nat BY DEF DInv
<1>4. pkt.incl_len \in Nat BY PacketsAssumption
<1> HIDE DEF own, key
<1>5. /\ DOMAIN table'.flows = {key} \cup DOMAIN table.flows
      /\ \A k \in DOMAIN table.flows : k # key => table'.flows[k] = table.flows[k]
      /\ table'.completed = Retired(key, ts)
      /\ TotalOf(table'.flows[key], "packets") = (IF is_new THEN 0 ELSE TotalOf(table.flows[key], "packets")) + 1
      /\ TotalOf(table'.flows[key], "bytes")
           = (IF is_new THEN 0 ELSE TotalOf(table.flows[key], "bytes")) + pkt.incl_len
      /\ table'.total_bytes = table.total_bytes + pkt.incl_len
  BY <1>1 DEF Entered
<1>6. SumOverFlows(table', "packets") = SumOverFlows(table, "packets") + 1 /\ SumOverFlows(table, "packets") \in Nat
  <2>1. "packets" \in Fields BY DEF Fields
  <2> QED BY <1>5, <2>1, SumGrows
<1>7. SumOverFlows(table', "bytes") = SumOverFlows(table, "bytes") + pkt.incl_len
  <2>1. "bytes" \in Fields BY DEF Fields
  <2> QED BY <1>4, <1>5, <2>1, SumGrows
<1>8. SumOverFlows(table, "bytes") = table.total_bytes /\ SumOverFlows(table, "packets") + arps = decoded
  BY DEF CInv, CountsConserved
<1>9. SumOverFlows(table', "packets") + arps' = decoded' BY <1>2, <1>3, <1>6, <1>8
<1>10. SumOverFlows(table', "bytes") = table'.total_bytes BY <1>5, <1>7, <1>8
<1>11. CountsConserved' BY <1>9, <1>10 DEF CountsConserved
<1>12. IsFiniteSet(DOMAIN table'.flows)
  <2>1. IsFiniteSet(DOMAIN table.flows) BY DEF CInv
  <2>2. {key} \cup DOMAIN table.flows = DOMAIN table.flows \cup {key} OBVIOUS
  <2> QED BY <1>5, <2>1, <2>2, FS_AddElement
<1>13. (\E S : table'.completed \in Seq(S)) /\ \A i \in DOMAIN table'.completed : IsFlow(table'.completed[i].flow)
  <2> DEFINE q == table.completed
             e == [key |-> key, flow |-> table.flows[key]]
  <2>1. CASE ~Expires(table, key, ts)
    <3>1. table'.completed = q BY <1>5, <2>1 DEF Retired
    <3> QED BY <3>1 DEF CInv
  <2>2. CASE Expires(table, key, ts)
    <3>1. table'.completed = Append(q, e) BY <1>5, <2>2 DEF Retired
    <3>2. key \in DOMAIN table.flows BY <2>2 DEF Expires
    <3>3. IsFlow(e.flow) BY <3>2 DEF DInv
    <3>4. PICK S : q \in Seq(S) BY DEF CInv
    <3>5. \A i \in DOMAIN q : IsFlow(q[i].flow) BY DEF CInv
    <3> HIDE DEF q, e
    <3>6. q \in Seq(S \cup {e}) /\ e \in S \cup {e} BY <3>4
    <3>7. Append(q, e) \in Seq(S \cup {e}) BY <3>6
    <3>8. \A i \in DOMAIN Append(q, e) : (i \in DOMAIN q /\ Append(q, e)[i] = q[i]) \/ Append(q, e)[i] = e
      BY <3>6
    <3>9. \A i \in DOMAIN Append(q, e) : IsFlow(Append(q, e)[i].flow) BY <3>3, <3>5, <3>8
    <3> QED BY <3>1, <3>7, <3>9
  <2> QED BY <2>1, <2>2
<1> QED BY <1>11, <1>12, <1>13 DEF CInv

(* So does every other step.                                               *)
LEMMA NextCInv == DInv /\ CInv /\ [Next]_vars => CInv'
<1> SUFFICES ASSUME DInv, CInv, [Next]_vars PROVE CInv' OBVIOUS
<1>1. ASSUME NEW pkt \in Packets, NEW ts \in 0 .. MaxTime, Track(pkt, ts) PROVE CInv'
  BY <1>1, TrackCounts
<1>2. ASSUME NEW pkt \in Packets, NEW ts \in 0 .. MaxTime, Arp(pkt, ts) PROVE CInv'
  <2>1. table' = table /\ decoded' = decoded + 1 /\ arps' = arps + 1 BY <1>2 DEF Arp
  <2>2. decoded \in Nat /\ arps \in Nat BY DEF DInv
  <2>3. SumOverFlows(table, "bytes") = table.total_bytes /\ SumOverFlows(table, "packets") + arps = decoded
    BY DEF CInv, CountsConserved
  <2>4. SumOverFlows(table, "packets") \in Int BY SumIsInt
  <2>5. SumOverFlows(table', "bytes") = table'.total_bytes BY <2>1, <2>3
  <2>6. SumOverFlows(table', "packets") + arps' = decoded' 
    <3>1. SumOverFlows(table', "packets") = SumOverFlows(table, "packets") BY <2>1
    <3> QED BY <2>1, <2>2, <2>3, <2>4, <3>1
  <2>7. CountsConserved' BY <2>5, <2>6 DEF CountsConserved
  <2> QED BY <2>1, <2>7 DEF CInv
<1>3. ASSUME NEW pkt \in Packets, NEW ts \in 0 .. MaxTime, Skip(pkt, ts) \/ Drop(pkt, ts) PROVE CInv'
  <2>1. UNCHANGED <<table, decoded, arps>> BY <1>3 DEF Skip, Drop
  <2> QED BY <2>1 DEF CInv, CountsConserved
<1>4. CASE Stop \/ UNCHANGED vars
  <2>1. UNCHANGED <<table, decoded, arps>> BY <1>4 DEF Stop, vars
  <2> QED BY <2>1 DEF CInv, CountsConserved
<1> QED BY <1>1, <1>2, <1>3, <1>4 DEF Next

(* Nothing is counted at the start.                                        *)
LEMMA InitCInv == Init => CInv
<1> SUFFICES ASSUME Init PROVE CInv OBVIOUS
<1>1. table.flows = << >> /\ table.completed = <<>> /\ table.total_bytes = 0 /\ decoded = 0 /\ arps = 0
  BY DEF Init, NewTable
<1>2. DOMAIN table.flows = {} /\ DOMAIN table.completed = {} /\ table.completed \in Seq({}) BY <1>1
<1>3. ASSUME NEW field PROVE SumOverFlows(table, field) = 0
  <2> DEFINE f == Listed(table.completed, field)
             g == Active(table.flows, field)
  <2>1. DOMAIN f = {} /\ DOMAIN g = {} BY <1>2 DEF Listed, Active
  <2>2. SumOverFlows(table, field) = SumFunction(f) + SumFunction(g) BY DEF SumOverFlows, Listed, Active
  <2> HIDE DEF f, g
  <2> QED BY <2>1, <2>2, SumOfNothing
<1>4. IsFiniteSet(DOMAIN table.flows) BY <1>2, FS_EmptySet
<1> QED BY <1>1, <1>2, <1>3, <1>4 DEF CInv, CountsConserved

-----------------------------------------------------------------------------
(* Applications                                                            *)

(* What Heard's function is on a log l of n packets, when the flow begins  *)
(* with packet o, and its last value.                                      *)
IsHeard(f, l, o, k, d, n) ==
    f = [i \in 0 .. n |-> IF i < o THEN NewApplications
                          ELSE IF PolledIn(l[i], k, d) THEN Decodes(f[i - 1], k, l[i].got)
                          ELSE f[i - 1]]
HeardBy(l, o, k, d, n) == (CHOOSE f : IsHeard(f, l, o, k, d, n))[n]

(* There is such a function for every log: of the shortest log without one *)
(* all but the last packet have one.                                       *)
LEMMA HeardExists ==
    ASSUME NEW l, NEW o \in Nat, o > 0, NEW k, NEW d, NEW n \in Nat
    PROVE  \E f : IsHeard(f, l, o, k, d, n)
<1> DEFINE T == {m \in Nat : ~\E f : IsHeard(f, l, o, k, d, m)}
<1> SUFFICES ASSUME T # {} PROVE FALSE OBVIOUS
<1>1. PICK m \in T : \A y \in T : m <= y
  <2>1. T \in SUBSET Nat OBVIOUS
  <2> HIDE DEF T
  <2> QED BY <2>1, LeastOf
<1>2. m \in Nat /\ ~\E f : IsHeard(f, l, o, k, d, m) BY <1>1
<1>3. CASE m = 0
  <2> DEFINE f == [i \in 0 .. 0 |-> NewApplications]
  <2>1. \A i \in 0 .. 0 : i < o OBVIOUS
  <2>2. IsHeard(f, l, o, k, d, 0) BY <2>1 DEF IsHeard
  <2> QED BY <1>2, <1>3, <2>2
<1>4. CASE m > 0
  <2> DEFINE p == m - 1
  <2>1. p \in Nat /\ ~(m <= p) /\ m = p + 1 BY <1>2, <1>4
  <2>2. PICK g : IsHeard(g, l, o, k, d, p) BY <1>1, <2>1
  <2> DEFINE last == IF m < o THEN NewApplications
                     ELSE IF PolledIn(l[m], k, d) THEN Decodes(g[p], k, l[m].got) ELSE g[p]
             f == [i \in 0 .. m |-> IF i = m THEN last ELSE g[i]]
  <2>3. \A i \in 0 .. p : g[i] = (IF i < o THEN NewApplications
                                  ELSE IF PolledIn(l[i], k, d) THEN Decodes(g[i - 1], k, l[i].got)
                                  ELSE g[i - 1])
    BY <2>2 DEF IsHeard
  <2>4. \A i \in 0 .. p : f[i] = g[i] /\ (i >= o => f[i - 1] = g[i - 1])
    <3>1. \A i \in 0 .. p : i \in 0 .. m /\ i # m /\ (i >= o => i - 1 \in 0 .. m /\ i - 1 # m)
      BY <2>1
    <3> HIDE DEF last, p
    <3> QED BY <3>1
  <2>5. f[m] = last /\ f[p] = g[p]
    <3>1. m \in 0 .. m /\ p \in 0 .. m /\ p # m BY <2>1
    <3> HIDE DEF last, p
    <3> QED BY <3>1
  <2>6. DOMAIN f = 0 .. m /\ f = [i \in 0 .. m |-> f[i]] OBVIOUS
  <2> HIDE DEF f
  <2>7. ASSUME NEW i \in 0 .. m
        PROVE  f[i] = (IF i < o THEN NewApplications
                       ELSE IF PolledIn(l[i], k, d) THEN Decodes(f[i - 1], k, l[i].got)
                       ELSE f[i - 1])
    <3>1. CASE i = m
      <4>1. i - 1 = p BY <3>1
      <4> HIDE DEF p
      <4> QED BY <2>5, <3>1, <4>1
    <3>2. CASE i # m
      <4>1. i \in 0 .. p BY <2>1, <3>2
      <4>2. i < o \/ i >= o BY <4>1
      <4> HIDE DEF p, last
      <4> QED BY <2>3, <2>4, <4>1, <4>2
    <3> QED BY <3>1, <3>2
  <2>8. IsHeard(f, l, o, k, d, m) BY <2>6, <2>7 DEF IsHeard
  <2> QED BY <1>2, <2>8
<1> QED BY <1>2, <1>3, <1>4

(* Functions for a log and for one that starts with it agree on it.        *)
LEMMA HeardAgrees ==
    ASSUME NEW n \in Nat, NEW N \in Nat, NEW o \in Nat, NEW l, NEW m, NEW k, NEW d, NEW f, NEW g,
           n <= N, o > 0, \A j \in 1 .. n : m[j] = l[j],
           IsHeard(f, l, o, k, d, n), IsHeard(g, m, o, k, d, N)
    PROVE  f[n] = g[n]
<1> DEFINE T == {i \in 0 .. n : f[i] # g[i]}
<1> SUFFICES ASSUME T # {} PROVE FALSE OBVIOUS
<1>1. PICK i \in T : \A y \in T : i <= y
  <2>1. T \in SUBSET Nat OBVIOUS
  <2> HIDE DEF T
  <2> QED BY <2>1, LeastOf
<1>2. i \in 0 .. n /\ i \in 0 .. N /\ f[i] # g[i] BY <1>1
<1>3. f[i] = (IF i < o THEN NewApplications
              ELSE IF PolledIn(l[i], k, d) THEN Decodes(f[i - 1], k, l[i].got) ELSE f[i - 1])
  BY <1>2 DEF IsHeard
<1>4. g[i] = (IF i < o THEN NewApplications
              ELSE IF PolledIn(m[i], k, d) THEN Decodes(g[i - 1], k, m[i].got) ELSE g[i - 1])
  BY <1>2 DEF IsHeard
<1>5. ~(i < o) => i \in 1 .. n /\ i - 1 \in 0 .. n /\ ~(i <= i - 1) BY <1>2
<1>6. ~(i < o) => m[i] = l[i] /\ f[i - 1] = g[i - 1]
  <2>1. ~(i < o) => i - 1 \notin T BY <1>1, <1>5
  <2> QED BY <1>5, <2>1
<1> HIDE DEF T
<1> QED BY <1>2, <1>3, <1>4, <1>6

(* One more packet.                                                        *)
LEMMA HeardNext ==
    ASSUME NEW n \in Nat, NEW o \in 1 .. n + 1, NEW l, NEW m, NEW k, NEW d, NEW e,
           \A j \in 1 .. n : m[j] = l[j], e = m[n + 1]
    PROVE  HeardBy(m, o, k, d, n + 1) =
             IF PolledIn(e, k, d) THEN Decodes(HeardBy(l, o, k, d, n), k, e.got)
             ELSE HeardBy(l, o, k, d, n)
<1> DEFINE f == CHOOSE h : IsHeard(h, l, o, k, d, n)
           g == CHOOSE h : IsHeard(h, m, o, k, d, n + 1)
<1>1. o \in Nat /\ o > 0 /\ n + 1 \in Nat /\ n <= n + 1 /\ n + 1 \in 0 .. n + 1 /\ ~(n + 1 < o)
  OBVIOUS
<1>2. IsHeard(f, l, o, k, d, n) BY <1>1, HeardExists
<1>3. IsHeard(g, m, o, k, d, n + 1) BY <1>1, HeardExists
<1>4. HeardBy(l, o, k, d, n) = f[n] /\ HeardBy(m, o, k, d, n + 1) = g[n + 1] BY DEF HeardBy
<1> HIDE DEF f, g
<1>5. f[n] = g[n]
  <2> DEFINE N == n + 1
  <2>1. N \in Nat /\ n <= N /\ IsHeard(g, m, o, k, d, N) BY <1>1, <1>3
  <2>2. o \in Nat /\ o > 0 BY <1>1
  <2>3. \A j \in 1 .. n : m[j] = l[j] OBVIOUS
  <2> HIDE DEF N
  <2> QED BY <1>2, <2>1, <2>2, <2>3, HeardAgrees
<1>6. g[n + 1] = (IF PolledIn(m[n + 1], k, d) THEN Decodes(g[n + 1 - 1], k, m[n + 1].got)
                  ELSE g[n + 1 - 1])
  BY <1>1, <1>3 DEF IsHeard
<1>7. n + 1 - 1 = n OBVIOUS
<1> QED BY <1>4, <1>5, <1>6, <1>7

(* Before the flow's first packet.                                         *)
LEMMA HeardNothing ==
    ASSUME NEW n \in Nat, NEW l, NEW k, NEW d
    PROVE  HeardBy(l, n + 1, k, d, n) = NewApplications
<1>1. PICK f : IsHeard(f, l, n + 1, k, d, n)
  <2>1. n + 1 \in Nat /\ n + 1 > 0 OBVIOUS
  <2> QED BY <2>1, HeardExists
<1>2. IsHeard(CHOOSE h : IsHeard(h, l, n + 1, k, d, n), l, n + 1, k, d, n) BY <1>1
<1> DEFINE g == CHOOSE h : IsHeard(h, l, n + 1, k, d, n)
<1>3. HeardBy(l, n + 1, k, d, n) = g[n] BY DEF HeardBy
<1> HIDE DEF g
<1>4. IsHeard(g, l, n + 1, k, d, n) BY <1>2 DEF g
<1>5. n \in 0 .. n /\ n < n + 1 OBVIOUS
<1> QED BY <1>3, <1>4, <1>5 DEF IsHeard

(* The Applications have two directions, and those of a flow whose first   *)
(* packet was polled hold what the flow's packets brought.                 *)
HoldsHeard(l, a, k) ==
    /\ Starts(l, k) # {}
    /\ l[Max(Starts(l, k))].polled =>
          /\ k \in DOMAIN a
          /\ \A d \in Dirs : a[k][d] = HeardBy(l, Max(Starts(l, k)), k, d, Len(l))
AInv == /\ \E S : log \in Seq(S)
        /\ \A k \in DOMAIN apps : DOMAIN apps[k] = Dirs
        /\ \A k \in DOMAIN table.flows : HoldsHeard(log, apps, k)

(* Opening and Heard in the words of the invariant.                        *)
LEMMA HeardIs == /\ \A k : Opening(k) = Max(Starts(log, k))
                 /\ \A k, d : Heard(k, d) = HeardBy(log, Max(Starts(log, k)), k, d, Len(log))
<1>1. ASSUME NEW k PROVE Opening(k) = Max(Starts(log, k))
  <2>1. {j \in 1 .. Len(log) : log[j].is_new /\ Normalized(log[j].own) = k} = Starts(log, k)
    BY DEF Starts, Of
  <2> QED BY <2>1 DEF Opening
<1>2. ASSUME NEW k, NEW d
      PROVE  Heard(k, d) = HeardBy(log, Max(Starts(log, k)), k, d, Len(log))
  <2>1. Heard(k, d) = HeardBy(log, Opening(k), k, d, Len(log)) BY DEF Heard, HeardBy, IsHeard
  <2> QED BY <1>1, <2>1
<1> QED BY <1>1, <1>2

(* The invariant says what the property does.                              *)
LEMMA AInvImplies == AInv => AppsOfActiveFlow
<1> SUFFICES ASSUME AInv, NEW k \in DOMAIN table.flows, NEW d \in Dirs, log[Opening(k)].polled
             PROVE  apps[k][d] = Heard(k, d)
  BY DEF AppsOfActiveFlow
<1>1. HoldsHeard(log, apps, k) BY DEF AInv
<1>2. log[Max(Starts(log, k))].polled BY HeardIs
<1>3. apps[k][d] = HeardBy(log, Max(Starts(log, k)), k, d, Len(log))
  BY <1>1, <1>2 DEF HoldsHeard
<1> QED BY <1>3, HeardIs

(* A flow keeps its direction when the segment is given to its             *)
(* reassemblers.                                                           *)
LEMMA SameDirection ==
    ASSUME NEW f, IsFlow(f), NEW pkt
    PROVE  Reassembled(f, pkt).is_reverse = f.is_reverse
<1> DEFINE g == Reassembled(f, pkt)
<1>1. g = g OBVIOUS
<1> HIDE DEF g
<1>2. SameCounts(g, f) BY ReassembledIs DEF g
<1> QED BY <1>2 DEF SameCounts, g

(* e is entered for a packet, and its messages are added to those of       *)
(* direction D of s when it is polled.                                     *)
Brings(e, own, key, is_new, D, s) ==
    /\ log' = Append(log, e)
    /\ e.own = own /\ e.is_new = is_new /\ e.polled \in BOOLEAN
    /\ e.polled => apps' = Put(apps, key, [s EXCEPT ![D] = Decodes(s[D], key, e.got)])
    /\ ~e.polled => apps' = apps

(* What a packet of a flow does to the Applications.                       *)
LEMMA TrackApps ==
    ASSUME DInv, NEW pkt \in Packets, NEW ts \in 0 .. MaxTime, Track(pkt, ts),
           NEW own, own = KeyFromPacket(pkt), NEW key, key = Normalized(own),
           NEW is_new, is_new = IsNew(table, key, ts),
           NEW D, D = DirOf(IsReverse(own)), NEW s, s = AppStateFor(key, is_new)
    PROVE  \E e : Brings(e, own, key, is_new, D, s)
<1> DEFINE rev   == IsReverse(own)
           added == AddPacket(table, key, rev, ts, pkt.incl_len)
           c     == Counted(table, key, rev, ts, pkt.incl_len)
           flow  == Reassembled(added.flows[key], pkt)
           d     == DirOf(flow.is_reverse)
           polls == Polls(key, pkt)
           got   == IF polls THEN Offered(flow, pkt) ELSE <<>>
           e     == [own |-> own, ts |-> ts, is_new |-> is_new, polled |-> polls, got |-> got]
           base  == IF is_new THEN NewFlow(key, ts) ELSE table.flows[key]
<1>1. /\ own \in FlowKeys /\ Entered(pkt, ts, own, key, is_new) BY TrackEffect
<1>2. rev \in BOOLEAN BY <1>1, OneReversed
<1>3. ts \in Nat /\ pkt.incl_len \in Nat BY DecoderAssumption, PacketsAssumption
<1>4. IsFlow(base)
  <2>1. CASE is_new
    <3>1. base = NewFlow(key, ts) BY <2>1
    <3> HIDE DEF base
    <3> QED BY <1>3, <3>1, NewFlowIs
  <2>2. CASE ~is_new
    <3>1. base = table.flows[key] /\ key \in DOMAIN table.flows BY <1>1, <2>2 DEF Entered
    <3> HIDE DEF base
    <3> QED BY <3>1 DEF DInv
  <2> QED BY <2>1, <2>2
<1>5. c = Recount(base, rev, ts, pkt.incl_len) BY DEF Counted, Recount
<1>6. added.flows[key] = c BY DEF AddPacket, Put
<1> HIDE DEF base, c
<1>7. IsFlow(c) /\ c.is_reverse = rev BY <1>2, <1>3, <1>4, <1>5, CountedIs
<1>8. flow.is_reverse = rev
  <2>1. flow = Reassembled(c, pkt) BY <1>6
  <2> HIDE DEF flow, rev
  <2> QED BY <1>7, <2>1, SameDirection
<1>9. d = DirOf(rev) BY <1>8
<1>10. polls \in BOOLEAN BY DEF Polls, PortHasAppDecoder, IsDns
<1>11. /\ log' = Append(log, e)
       /\ polls => apps' = Put(apps, key, [AppStateFor(key, is_new) EXCEPT ![d] = Decodes(@, key, got)])
       /\ ~polls => apps' = apps
  <2> HIDE DEF added
  <2>1. log' = Append(log, e) BY DEF Track, added, rev
  <2>2. CASE polls BY <2>1, <2>2 DEF Track, added, rev
  <2>3. CASE ~polls BY <2>1, <2>3 DEF Track, added, rev
  <2> QED BY <1>10, <2>1, <2>2, <2>3
<1> HIDE DEF d, got, polls
<1>12. e.own = own /\ e.is_new = is_new /\ e.polled = polls /\ e.got = got OBVIOUS
<1> HIDE DEF e
<1>13. rev = IsReverse(own) OBVIOUS
<1> HIDE DEF rev
<1> QED BY <1>9, <1>10, <1>11, <1>12, <1>13 DEF Brings

(* A packet of another conversation leaves what a flow holds.              *)
LEMMA OtherHolds ==
    ASSUME NEW n \in Nat, NEW l, NEW m, Len(l) = n, Len(m) = n + 1,
           \A j \in 1 .. n : m[j] = l[j], NEW k, Normalized(m[n + 1].own) # k,
           NEW a, NEW b, HoldsHeard(l, a, k),
           k \in DOMAIN a => k \in DOMAIN b /\ b[k] = a[k]
    PROVE  HoldsHeard(m, b, k)
<1> DEFINE o == Max(Starts(l, k))
<1>1. Starts(m, k) = Starts(l, k) /\ Starts(l, k) \in SUBSET (1 .. n)
  <2>1. Of(l, k) \in SUBSET (1 .. n) /\ Starts(l, k) \in SUBSET Of(l, k) /\ Starts(m, k) = Starts(l, k)
    BY OfLonger
  <2> QED BY <2>1
<1>2. Starts(l, k) # {} BY DEF HoldsHeard
<1>3. o \in 1 .. n BY <1>1, <1>2, GreatestUpTo
<1> HIDE DEF o
<1>4. m[o] = l[o] BY <1>3
<1>5. ASSUME l[o].polled
      PROVE  k \in DOMAIN b /\ \A d \in Dirs : b[k][d] = HeardBy(m, o, k, d, n + 1)
  <2>1. k \in DOMAIN a /\ \A d \in Dirs : a[k][d] = HeardBy(l, o, k, d, n)
    BY <1>5 DEF HoldsHeard, o
  <2>3. \A d : ~PolledIn(m[n + 1], k, d) BY DEF PolledIn
  <2>4. o \in 1 .. n + 1 BY <1>3
  <2>5. \A d : HeardBy(m, o, k, d, n + 1) = HeardBy(l, o, k, d, n) BY <2>3, <2>4, HeardNext
  <2> QED BY <2>1, <2>5
<1> QED BY <1>1, <1>2, <1>4, <1>5 DEF HoldsHeard, o

(* What a packet e of the conversation with key k does to the Applications *)
(* a: s are those it finds, and b is what it leaves.                       *)
Given(l, a, b, k, e, s, D) ==
    /\ Normalized(e.own) = k /\ D = DirOf(IsReverse(e.own))
    /\ e.is_new \in BOOLEAN /\ e.polled \in BOOLEAN
    /\ ~e.is_new => HoldsHeard(l, a, k)
    /\ s = (IF e.is_new \/ k \notin DOMAIN a THEN NewFlowApplications ELSE a[k])
    /\ e.polled => k \in DOMAIN b
    /\ e.polled => \A d \in Dirs : b[k][d] = (IF d = D THEN Decodes(s[d], k, e.got) ELSE s[d])
    /\ ~e.polled => b = a

(* One of its own keeps it: a new flow gets fresh Applications when it is  *)
(* polled, and another goes on with those it has.                          *)
LEMMA OwnHolds ==
    ASSUME NEW n \in Nat, NEW l, NEW m, NEW k, NEW a, NEW b, NEW s, NEW D, NEW e,
           Len(l) = n, Len(m) = n + 1, \A j \in 1 .. n : m[j] = l[j],
           e = m[n + 1], Given(l, a, b, k, e, s, D)
    PROVE  HoldsHeard(m, b, k)
<1> USE DEF Given
<1> DEFINE S == Starts(l, k)
           o == Max(Starts(m, k))
<1>1. S \in SUBSET (1 .. n) /\ Starts(m, k) = (IF e.is_new THEN S \cup {n + 1} ELSE S)
  <2>1. /\ Of(l, k) \in SUBSET (1 .. n) /\ Starts(l, k) \in SUBSET Of(l, k)
        /\ Starts(m, k) = (IF e.is_new THEN Starts(l, k) \cup {n + 1} ELSE Starts(l, k))
    BY OfLonger
  <2> QED BY <2>1
<1>2. ASSUME NEW d \in Dirs PROVE PolledIn(e, k, d) <=> e.polled /\ d = D
  BY DEF PolledIn
<1>3. \A d \in Dirs : e.polled => b[k][d] = (IF d = D THEN Decodes(s[d], k, e.got) ELSE s[d])
  OBVIOUS
<1> HIDE DEF S
<1>4. CASE e.is_new
  <2>1. Starts(m, k) = S \cup {n + 1} BY <1>1, <1>4
  <2>2. o = n + 1
    <3>1. Starts(m, k) \in SUBSET (1 .. n + 1) /\ n + 1 \in Starts(m, k) /\ n + 1 \in Nat
      BY <1>1, <2>1
    <3>2. \A j \in Starts(m, k) : j <= n + 1 BY <3>1
    <3> QED BY <3>1, <3>2, GreatestIs
  <2>3. Starts(m, k) # {} BY <2>1
  <2>4. ASSUME e.polled, NEW d \in Dirs PROVE b[k][d] = HeardBy(m, n + 1, k, d, n + 1)
    <3>1. s[d] = NewApplications BY <1>4 DEF NewFlowApplications
    <3>2. HeardBy(l, n + 1, k, d, n) = NewApplications BY HeardNothing
    <3>3. n + 1 \in 1 .. n + 1 OBVIOUS
    <3>4. HeardBy(m, n + 1, k, d, n + 1) =
             IF PolledIn(e, k, d) THEN Decodes(HeardBy(l, n + 1, k, d, n), k, e.got)
             ELSE HeardBy(l, n + 1, k, d, n)
      BY <3>3, HeardNext, Z3T(30)
    <3> QED BY <1>2, <1>3, <2>4, <3>1, <3>2, <3>4
  <2>5. e.polled => k \in DOMAIN b OBVIOUS
  <2> HIDE DEF o
  <2> QED BY <2>2, <2>3, <2>4, <2>5 DEF HoldsHeard, o
<1>5. CASE ~e.is_new
  <2>1. Starts(m, k) = S /\ HoldsHeard(l, a, k) BY <1>1, <1>5
  <2>2. S # {} /\ o = Max(S) BY <2>1 DEF HoldsHeard, S
  <2>3. o \in 1 .. n BY <1>1, <2>2, GreatestUpTo
  <2>4. m[o] = l[o] BY <2>3
  <2> HIDE DEF o
  <2>5. ASSUME l[o].polled
        PROVE  k \in DOMAIN b /\ \A d \in Dirs : b[k][d] = HeardBy(m, o, k, d, n + 1)
    <3>1. k \in DOMAIN a /\ \A d \in Dirs : a[k][d] = HeardBy(l, o, k, d, n)
      BY <2>1, <2>2, <2>5 DEF HoldsHeard, S
    <3>2. s = a[k] BY <1>5, <3>1
    <3>3. o \in 1 .. n + 1 BY <2>3
    <3>4. \A d : HeardBy(m, o, k, d, n + 1) =
             IF PolledIn(e, k, d) THEN Decodes(HeardBy(l, o, k, d, n), k, e.got)
             ELSE HeardBy(l, o, k, d, n)
      BY <3>3, HeardNext, Z3T(30)
    <3>5. CASE e.polled
      <4>1. k \in DOMAIN b BY <3>5
      <4> QED BY <1>2, <1>3, <3>1, <3>2, <3>4, <3>5, <4>1
    <3>6. CASE ~e.polled
      <4>1. b = a BY <3>6
      <4> QED BY <1>2, <3>1, <3>4, <3>6, <4>1
    <3> QED BY <3>5, <3>6
  <2> QED BY <2>1, <2>2, <2>4, <2>5 DEF HoldsHeard, o
<1> QED BY <1>4, <1>5

(* A packet of a flow keeps the invariant.                                 *)
LEMMA TrackHolds ==
    ASSUME DInv, AInv, NEW pkt \in Packets, NEW ts \in 0 .. MaxTime, Track(pkt, ts)
    PROVE  AInv'
<1> DEFINE own    == KeyFromPacket(pkt)
           key    == Normalized(own)
           is_new == IsNew(table, key, ts)
           D      == DirOf(IsReverse(own))
           s      == AppStateFor(key, is_new)
           m      == log'
           n      == Len(log)
<1>1. own \in FlowKeys /\ Entered(pkt, ts, own, key, is_new) BY TrackEffect
<1>e. PICK e : Brings(e, own, key, is_new, D, s)
  <2>1. /\ own = KeyFromPacket(pkt) /\ key = Normalized(own) /\ is_new = IsNew(table, key, ts)
        /\ D = DirOf(IsReverse(own)) /\ s = AppStateFor(key, is_new)
    OBVIOUS
  <2> HIDE DEF own, key, is_new, D, s
  <2> QED BY <2>1, TrackApps
<1>2. /\ m = Append(log, e)
      /\ e.own = own /\ e.is_new = is_new /\ e.polled \in BOOLEAN
      /\ e.polled => apps' = Put(apps, key, [s EXCEPT ![D] = Decodes(s[D], key, e.got)])
      /\ ~e.polled => apps' = apps
  <2> HIDE DEF own, key, is_new, D, s
  <2> QED BY <1>e DEF Brings
<1>3. /\ \E S : m \in Seq(S)
      /\ n \in Nat /\ Len(m) = n + 1 /\ m[n + 1] = e
      /\ \A j \in 1 .. n : m[j] = log[j]
  <2>1. \E S : log \in Seq(S) BY DEF AInv
  <2> HIDE DEF own, key, is_new, D, s, m
  <2> QED BY <1>2, <2>1, Longer
<1>4. is_new \in BOOLEAN /\ (~is_new => key \in DOMAIN table.flows) BY <1>1 DEF Entered
<1>5. s = (IF is_new \/ key \notin DOMAIN apps THEN NewFlowApplications ELSE apps[key])
  BY DEF AppStateFor
<1>6. DOMAIN s = Dirs
  <2>1. DOMAIN NewFlowApplications = Dirs BY DEF NewFlowApplications
  <2> HIDE DEF s
  <2> QED BY <1>5, <2>1 DEF AInv
<1> HIDE DEF own, is_new, s, m
<1>7. key = Normalized(own) /\ D = DirOf(IsReverse(own)) OBVIOUS
<1> HIDE DEF key, D, n
<1>8. e.polled => /\ DOMAIN apps' = {key} \cup DOMAIN apps
                  /\ apps'[key] = [s EXCEPT ![D] = Decodes(@, key, e.got)]
                  /\ \A k \in DOMAIN apps : k # key => apps'[k] = apps[k]
  BY <1>2 DEF Put
<1>9. \A k \in DOMAIN apps' : DOMAIN apps'[k] = Dirs
  <2>1. \A k \in DOMAIN apps : DOMAIN apps[k] = Dirs BY DEF AInv
  <2>2. DOMAIN [s EXCEPT ![D] = Decodes(@, key, e.got)] = Dirs BY <1>6
  <2> QED BY <1>2, <1>8, <2>1, <2>2
<1>10. \A k \in DOMAIN apps : k # key => k \in DOMAIN apps' /\ apps'[k] = apps[k]
  BY <1>2, <1>8
<1>11. Len(log) = n BY DEF n
<1>12. ASSUME NEW k \in DOMAIN table'.flows PROVE HoldsHeard(m, apps', k)
  <2>1. CASE k # key
    <3>1. k \in DOMAIN table.flows BY <1>1, <2>1 DEF Entered
    <3>2. HoldsHeard(log, apps, k) BY <3>1 DEF AInv
    <3>3. k \in DOMAIN apps => k \in DOMAIN apps' /\ apps'[k] = apps[k] BY <1>10, <2>1
    <3>4. Normalized(m[n + 1].own) # k BY <1>2, <1>3, <1>7, <2>1
    <3> DEFINE b == apps'
    <3> HIDE DEF b
    <3> QED BY <1>3, <1>11, <3>2, <3>3, <3>4, OtherHolds DEF b
  <2>2. CASE k = key
    <3>1. ~is_new => HoldsHeard(log, apps, key) BY <1>4 DEF AInv
    <3> DEFINE b == apps'
    <3>3. e.polled => key \in DOMAIN b /\ b[key] = [s EXCEPT ![D] = Decodes(@, key, e.got)] BY <1>8
    <3>4. ~e.polled => b = apps BY <1>2
    <3> HIDE DEF b
    <3>5. Given(log, apps, b, key, e, s, D)
      BY <1>2, <1>4, <1>5, <1>6, <1>7, <3>1, <3>3, <3>4 DEF Given
    <3>6. HoldsHeard(m, b, key) BY <1>3, <1>11, <3>5, OwnHolds
    <3> QED BY <2>2, <3>6 DEF b
  <2> QED BY <2>1, <2>2
<1> QED BY <1>3, <1>9, <1>12 DEF AInv, m

(* No other step touches the log, the flow table or the Applications.      *)
LEMMA NextAInv == DInv /\ AInv /\ [Next]_vars => AInv'
<1> SUFFICES ASSUME DInv, AInv, [Next]_vars PROVE AInv' OBVIOUS
<1>1. ASSUME NEW pkt \in Packets, NEW ts \in 0 .. MaxTime, Track(pkt, ts) PROVE AInv'
  BY <1>1, TrackHolds
<1>2. CASE UNCHANGED <<table, apps, log>> BY <1>2 DEF AInv, HoldsHeard
<1>3. ASSUME NEW pkt \in Packets, NEW ts \in 0 .. MaxTime,
             Skip(pkt, ts) \/ Drop(pkt, ts) \/ Arp(pkt, ts)
      PROVE  UNCHANGED <<table, apps, log>>
  BY <1>3 DEF Skip, Drop, Arp
<1>4. Stop \/ UNCHANGED vars => UNCHANGED <<table, apps, log>> BY DEF Stop, vars
<1> QED BY <1>1, <1>2, <1>3, <1>4 DEF Next

(* At the start there is no flow.                                          *)
LEMMA InitAInv == Init => AInv
<1> SUFFICES ASSUME Init PROVE AInv OBVIOUS
<1>1. log = <<>> /\ DOMAIN table.flows = {} /\ DOMAIN apps = {} BY DEF Init, NewTable
<1>2. log \in Seq({}) BY <1>1
<1> QED BY <1>1, <1>2 DEF AInv

-----------------------------------------------------------------------------
(* Theorems                                                                *)

(* The keys of addPacket's table are normalized, a flow with application   *)
(* state has its Applications in AppDecoder, and the counters count.       *)
THEOREM TypeCorrect == Spec => []TypeOK
<1>1. DInv => TypeOK BY DEF DInv, TypeOK
<1> QED BY <1>1, InitDInv, NextDInv, PTL DEF Spec

(* Decoder::decode compares the filter with the packet's own direction: no *)
(* direction of a flow counts a packet that the filter does not match,     *)
(* though the flow holds both directions under one key.                    *)
THEOREM FilterIsDirectional == Spec => []FilterDirectional
<1>1. DInv => FilterDirectional BY DEF DInv
<1> QED BY <1>1, InitDInv, NextDInv, PTL DEF Spec

(* In a capture whose timestamps do not go back addPacket retires a flow   *)
(* exactly when isExpired should: no flow outlives its idle or its active  *)
(* timeout, and none is cut short.                                         *)
THEOREM FlowsRetiredOnTime == ASSUME Backwards = FALSE PROVE Spec => []RetiredOnTime
<1>1. Init => DInv /\ TInv BY InitDInv, InitTInv
<1>2. (DInv /\ TInv) /\ [Next]_vars => (DInv /\ TInv)' BY NextDInv, NextTInv
<1>3. DInv /\ TInv => RetiredOnTime BY TInvImplies
<1> QED BY <1>1, <1>2, <1>3, PTL DEF Spec

(* FlowTable::addPacket counts every byte and every packet that decode     *)
(* passes on for exactly one flow, and retiring a flow loses none of what  *)
(* it counted: the sums over allFlows are the totals.                      *)
THEOREM BytesAndPacketsConserved == Spec => []CountsConserved
<1>1. Init => DInv /\ CInv BY InitDInv, InitCInv
<1>2. (DInv /\ CInv) /\ [Next]_vars => (DInv /\ CInv)' BY NextDInv, NextCInv
<1>3. DInv /\ CInv => CountsConserved BY DEF CInv
<1> QED BY <1>1, <1>2, <1>3, PTL DEF Spec

(* appStateFor gives a flow whose first packet is polled fresh             *)
(* Applications and keeps them for its later packets: they hold what the   *)
(* flow's own packets brought in each direction, in that order, and nothing*)
(* of an earlier flow between the same ends.                               *)
THEOREM FlowsHoldTheirOwnMessages == Spec => []AppsOfActiveFlow
<1>1. Init => DInv /\ AInv BY InitDInv, InitAInv
<1>2. (DInv /\ AInv) /\ [Next]_vars => (DInv /\ AInv)' BY NextDInv, NextAInv
<1>3. DInv /\ AInv => AppsOfActiveFlow BY AInvImplies
<1> QED BY <1>1, <1>2, <1>3, PTL DEF Spec

=============================================================================
