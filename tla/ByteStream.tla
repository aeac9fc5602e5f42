----------------------------- MODULE ByteStream -----------------------------
(***************************************************************************)
(* What a TCP reassembler promises its reader: one growing view of the     *)
(* sender's stream.  The view starts at some byte of the stream (a capture *)
(* may start late), every byte that arrives is the one after the last, and *)
(* the reader takes bytes from the front.  Nothing is ever taken back.     *)
(***************************************************************************)
EXTENDS Integers, Sequences

CONSTANT StreamLen

VARIABLES view,     \* every byte presented so far, taken or not
          taken     \* how many of them the reader has taken

Run(from, n) == [i \in 1 .. n |-> from + i - 1]

Init == view = <<>> /\ taken = 0

Arrive ==
    \E from \in 0 .. StreamLen, n \in 1 .. StreamLen :
       /\ from + n <= StreamLen
       /\ view # <<>> => from = view[Len(view)] + 1
       /\ view' = view \o Run(from, n)
       /\ UNCHANGED taken

Take ==
    \E n \in 1 .. Len(view) - taken :
       /\ taken' = taken + n
       /\ UNCHANGED view

Spec == Init /\ [][Arrive \/ Take]_<<view, taken>>
=============================================================================
