--------------------------- MODULE MCTcpConnection ---------------------------
(* A request and a response of a byte or two.                              *)
EXTENDS TcpConnection

Sends(a, b) == [d \in Hosts |-> IF d = "A" THEN a ELSE b]

OneOut  == [bytes |-> Sends(1, 0), lossless |-> TRUE, resend |-> FALSE]
TwoBack == [OneOut EXCEPT !.bytes = Sends(1, 2)]

Whole    == {TwoBack}
Lossy    == {[OneOut EXCEPT !.lossless = FALSE]}
Repeated == {[OneOut EXCEPT !.resend = TRUE]}
WholeOrLossy == Whole \cup Lossy
=============================================================================
