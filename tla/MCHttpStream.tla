---------------------------- MODULE MCHttpStream ----------------------------
(* HttpStream on small conversations.  In Turns every request waits for    *)
(* the answer before; in Pipelined a HEAD follows an unanswered GET; in    *)
(* BlankLine an empty line comes before the second request.                *)
EXTENDS HttpStream

HeadUnit(request, method_head, status, chunked, length, sound, after) ==
    [t |-> "head", request |-> request, method_head |-> method_head,
     status |-> status, chunked |-> chunked, length |-> length,
     sound |-> sound, after |-> after]
U(t) == [t |-> t, after |-> 0]

(* Messages and bodies; length -1 is no Content-Length.                    *)
Get(after)         == <<HeadUnit(TRUE, FALSE, "-", FALSE, -1, TRUE, after), U("end")>>
HeadReq(after)     == <<HeadUnit(TRUE, TRUE, "-", FALSE, -1, TRUE, after), U("end")>>
PostChunked(sound) == <<HeadUnit(TRUE, FALSE, "-", TRUE, -1, sound, 0), U("end")>>
Rsp(status, length, after) ==
    <<HeadUnit(FALSE, FALSE, status, FALSE, length, TRUE, after), U("end")>>
RspChunked(sound, after) ==
    <<HeadUnit(FALSE, FALSE, "2xx", TRUE, -1, sound, after), U("end")>>
Chunk == <<U("size"), U("data")>>
LastChunk  == <<U("last")>>
Text  == <<U("text")>>
Line  == <<U("line")>>
Crlf  == <<U("crlf")>>

Exchange(a, b) == [d \in Dirs |-> IF d = "fwd" THEN a ELSE b]

(* The messages of a conversation that takes turns.                        *)
M(at, end, head, no, need) == [at |-> at, end |-> end, head |-> head, no |-> no, need |-> need]

InTurns == {
  \* GET, HEAD, GET: a counted body, the same without its body, chunks.
  [talk |-> Exchange(Get(0) \o HeadReq(4) \o Get(6),
                     Rsp("2xx", 2, 2) \o Text \o Line \o Rsp("2xx", 2, 4)
                       \o RspChunked(TRUE, 6) \o Chunk \o Chunk \o LastChunk),
   msgs |-> Exchange(<<M(1, 2, FALSE, 1, 0), M(3, 4, TRUE, 2, 1), M(5, 6, FALSE, 3, 2)>>,
                     <<M(1, 4, FALSE, 1, 1), M(5, 6, TRUE, 2, 2), M(7, 13, FALSE, 3, 3)>>)],
  \* POST of chunks, 100 Continue, 204, then a body that lasts to the close.
  [talk |-> Exchange(PostChunked(TRUE) \o Chunk \o LastChunk \o Get(4),
                     Rsp("1xx", -1, 2) \o Rsp("204", 2, 5) \o Rsp("2xx", -1, 7)
                       \o Line \o Text \o Line),
   msgs |-> Exchange(<<M(1, 5, FALSE, 1, 0), M(6, 7, FALSE, 2, 2)>>,
                     <<M(1, 2, FALSE, 0, 0), M(3, 4, FALSE, 1, 1), M(5, 9, FALSE, 2, 2)>>)],
  \* A body past MAX_HTTP_MESSAGE_BYTES, then another message.
  [talk |-> Exchange(Get(0) \o Get(10),
                     Rsp("2xx", 8, 2) \o Text \o Line \o Text \o Text \o Text \o Text
                       \o Text \o Line \o Rsp("304", 1, 4)),
   msgs |-> Exchange(<<M(1, 2, FALSE, 1, 0), M(3, 4, FALSE, 2, 1)>>,
                     <<M(1, 10, FALSE, 1, 1), M(11, 12, FALSE, 2, 2)>>)]}

(* They do take turns.                                                     *)
ASSUME TurnsTaken == \A x \in InTurns : TurnsBy(x.talk, x.msgs, "fwd")

Broken == {
  \* Stray bytes before and between messages, past the header limit.
  Exchange(Text \o Text \o Text \o Text \o Line \o Get(0) \o Line \o Get(2),
           RspChunked(TRUE, 7) \o Chunk \o LastChunk \o Line \o Rsp("2xx", 0, 10)),
  \* Broken chunks, then a good message.
  Exchange(PostChunked(FALSE) \o Chunk \o Line \o Get(0),
           Rsp("2xx", 1, 2) \o Text \o Rsp("204", -1, 7)),
  \* Chunks past MAX_HTTP_MESSAGE_BYTES, then a good message; on the other
  \* side stray bytes past it.
  Exchange(Get(0) \o Text \o Text \o Text \o Text \o Text \o Text \o Text \o Line \o Get(0),
           RspChunked(FALSE, 2) \o Chunk \o Chunk \o Chunk \o LastChunk \o Rsp("204", -1, 2))}

Turns == {x.talk : x \in InTurns} \cup Broken

Pipelined == {
  Exchange(Get(0) \o HeadReq(0),
           Rsp("2xx", 2, 2) \o Text \o Line \o Rsp("2xx", 2, 4))}

BlankLine == {Exchange(Get(0) \o Crlf \o Get(0), <<>>)}
=============================================================================
