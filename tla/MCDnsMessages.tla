---------------------------- MODULE MCDnsMessages ----------------------------
(* DnsMessages on every short body behind a few headers, and on messages   *)
(* as a server sends them, alone, repeated and cut.  A header is 5 bytes,  *)
(* so a message's first name is at offset 5.                               *)
EXTENDS DnsMessages

Raw(bytes) == [bytes |-> bytes, sound |-> FALSE, names |-> <<>>]
Sound(bytes, names) == [bytes |-> bytes, sound |-> TRUE, names |-> names]

(* Lengths, pointers to 5 and 6, the header and beyond, reserved bits.     *)
Alphabet == {0, 1, 2, 5, 6, 64, 192}
Bodies   == [1 .. 5 -> Alphabet]
Short    == {<<0, 1, 0, 0, 0>>, <<1, 0, 1, 0, 0>>, <<1, 1, 0, 0, 1>>}

(* Question 7.8; answer 7.8 by a pointer; authority 8, in the middle of    *)
(* it; additional 9.8, whose end is a pointer, and then that by another.   *)
Reply == Sound(<<1, 1, 1, 1, 2>>
               \o <<1, 7, 1, 8, 0, 3>>
               \o <<192, 5, TYPE_A, 1, 33>>
               \o <<192, 7, TYPE_A, 1, 34>>
               \o <<1, 9, 192, 7, TYPE_AAAA, 2, 33, 0>>
               \o <<192, 21, TYPE_AAAA, 2, 33, 0>>,
               <<<<7, DOT, 8>>, <<7, DOT, 8>>, <<8>>, <<9, DOT, 8>>, <<9, DOT, 8>>>>)
Query == Sound(<<0, 1, 0, 0, 1>> \o <<1, 7, 0, 3>> \o <<0, TYPE_A, 1, 35>>, <<<<7>>, <<>>>>)
Other == Sound(<<1, 0, 2, 0, 0>> \o <<1, 8, 0, TYPE_A, 1, 33>> \o <<0, 5, 0>>, <<<<8>>, <<>>>>)
(* As long as names may be.                                                *)
Long  == Sound(<<1, 1, 0, 0, 0>> \o <<3, 7, 7, 7, 1, 8, 0, 3>>, <<<<7, 7, 7, DOT, 8>>>>)
(* Its first answer is sound, its second is cut.                           *)
Cut   == Raw(<<1, 0, 2, 0, 0>> \o <<1, 9, 0, TYPE_A, 1, 36>> \o <<1, 9, 192>>)
(* A jump and an octet too many.                                           *)
Deep  == Raw(<<1, 4, 0, 0, 0>> \o <<1, 7, 0, 3>> \o <<192, 5, 3>> \o <<192, 9, 3>> \o <<192, 12, 3>>)
Over  == Raw(<<1, 1, 0, 0, 0>> \o <<3, 7, 7, 7, 2, 8, 8, 0, 3>>)
Empty == Raw(<<>>)
Tiny  == Raw(<<1, 0>>)

(* The messages one after another; over TCP each behind its length.        *)
Carries(tcp, msgs) ==
    LET framed == [i \in 1 .. Len(msgs) |->
                     (IF tcp THEN <<0, Len(msgs[i].bytes)>> ELSE <<>>) \o msgs[i].bytes]
        start(i) == Len(FlattenSeq(SubSeq(framed, 1, i - 1)))
    IN  [tcp |-> tcp, bytes |-> FlattenSeq(framed),
         msgs |-> [i \in 1 .. Len(msgs) |->
                     [from |-> start(i), to |-> start(i + 1),
                      sound |-> msgs[i].sound, names |-> msgs[i].names]]]

Single    == {Carries(FALSE, <<Raw(h \o b)>>) : h \in Short, b \in Bodies}
Exchanges == {Carries(tcp, m) : tcp \in BOOLEAN,
              m \in {<<Reply, Other>>, <<Query, Reply, Reply>>, <<Cut, Other, Long>>,
                     <<Empty, Tiny, Long>>, <<Other, Cut, Empty>>,
                     <<Deep, Over, Reply>>}}

Traffic == Single \cup Exchanges
=============================================================================
