----------------------------- MODULE MCTcpStream -----------------------------
(* TcpStream on small instances: a stream of a few bytes in a sequence     *)
(* space of eight numbers, starting anywhere, so that it wraps.            *)
EXTENDS TcpStream

PeerAny == {{"syn"}, {"syn", "ack"}, {"ack"}, {"fin", "ack"}, {"rst"}}
=============================================================================
