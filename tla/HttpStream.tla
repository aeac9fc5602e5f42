----------------------------- MODULE HttpStream -----------------------------
(***************************************************************************)
(* AppDecoder::pollStream on an HTTP flow: how the reassembled bytes of    *)
(* the two directions are cut into messages.                               *)
(*                                                                         *)
(* A direction's stream is a sequence of units, each a run of bytes that   *)
(* the framing treats alike; a segment may end after any of them:          *)
(*   "head", "end"   the start line with some fields, the rest of the      *)
(*                   header with its empty line                            *)
(*   "size", "data"  a chunk's size line with some of its data, the rest   *)
(*   "last"          the final chunk and the trailer                       *)
(*   "line", "text"  other bytes, up to a CRLF or without any              *)
(*   "crlf"          a CRLF by itself                                      *)
(* Sizes (Content-Length, the limits, http_skip) count units.  A head unit *)
(* carries what http::parse gets from the header, and whether the message  *)
(* is a sound one.  "after" on a unit is how much of the other stream its  *)
(* sender had to see first.                                                *)
(*                                                                         *)
(* A step of the loop is one action; polling is the direction being polled.*)
(***************************************************************************)
EXTENDS Integers, Sequences, SequencesExt, FiniteSetsExt

CONSTANTS
    Conversations,          \* pairs of streams, as functions of the direction
    MAX_HTTP_HEADER_BYTES,
    MAX_HTTP_MESSAGE_BYTES,
    MAX_PENDING_REQUESTS

Dirs == {"fwd", "rev"}
Peer(d) == IF d = "fwd" THEN "rev" ELSE "fwd"

(* What http::parse gets from a header; length -1 is no Content-Length.    *)
Heads == [t : {"head"}, request : BOOLEAN, method_head : BOOLEAN,
          status : {"-", "1xx", "2xx", "204", "304"}, chunked : BOOLEAN,
          length : Nat \cup {-1}, sound : BOOLEAN, after : Nat]
Units == Heads \cup [t : {"end", "size", "data", "last", "line", "text", "crlf"}, after : Nat]

ASSUME HttpAssumption ==
    /\ MAX_HTTP_HEADER_BYTES \in Nat /\ MAX_HTTP_MESSAGE_BYTES \in Nat /\ MAX_PENDING_REQUESTS \in Nat
    /\ Conversations \subseteq [Dirs -> Seq(Units)]

VARIABLES
    stream,     \* the conversation: stream[d] is what direction d carries
    arrived,    \* arrived[d]: units of it reassembled so far
    pos,        \* pos[d]: units consumed
    app,        \* app[d]: the Applications struct
    polling     \* the direction pollStream runs for, or "none"

vars == <<stream, arrived, pos, app, polling>>

Applications ==
    [http_messages : Seq(Nat), decode_failures : Nat, http_bodies_skipped : Nat,
     http_chunk_prefix : Nat, http_resync_scanned : Nat, http_skip : Nat,
     pending_head_requests : Seq(BOOLEAN), http_body_until_close : BOOLEAN]

NewApplications ==
    [http_messages |-> <<>>, decode_failures |-> 0, http_bodies_skipped |-> 0,
     http_chunk_prefix |-> 0, http_resync_scanned |-> 0, http_skip |-> 0,
     pending_head_requests |-> <<>>, http_body_until_close |-> FALSE]

Init ==
    /\ stream \in Conversations
    /\ arrived = [d \in Dirs |-> 0] /\ pos = [d \in Dirs |-> 0]
    /\ app = [d \in Dirs |-> NewApplications]
    /\ polling = "none"

-----------------------------------------------------------------------------
Avail(d) == arrived[d] - pos[d]

(* The i-th unconsumed unit of d, from 1.                                  *)
Ahead(d, i) == stream[d][pos[d] + i]

HeadUnits == 2

HasLine(u)  == u.t # "text"
EndsLine(u) == u.t \notin {"text", "head", "size"}

(* http::parse at the front of what is available, within its window: a     *)
(* line is only judged when its CRLF is there.                             *)
ParseResult(d) ==
    LET window == Min({Avail(d), MAX_HTTP_HEADER_BYTES})
    IN  IF ~\E i \in 1 .. window : HasLine(Ahead(d, i)) THEN "UnexpectedEof"
        ELSE IF Ahead(d, 1).t # "head" THEN "MalformedHeader"
        ELSE IF window < HeadUnits THEN "UnexpectedEof" ELSE "None"

BodyForbidden(h) == ~h.request /\ h.status \in {"1xx", "204", "304"}

(* parseChunkedBody after skip units of the body: how many chunks are      *)
(* whole, and how it ends.                                                 *)
ChunksFrom(d, skip) ==
    LET from == HeadUnits + skip
    IN  Max({n \in 0 .. (Avail(d) - from) \div 2 :
               \A i \in 1 .. n : /\ Ahead(d, from + 2 * i - 1).t = "size"
                                 /\ Ahead(d, from + 2 * i).t = "data"})

ChunkedResult(d, skip) ==
    LET from == HeadUnits + skip + 2 * ChunksFrom(d, skip)
    IN  IF ~\E i \in from + 1 .. Avail(d) : HasLine(Ahead(d, i)) THEN "UnexpectedEof"
        ELSE IF Ahead(d, from + 1).t = "last" THEN "None"
        ELSE IF Ahead(d, from + 1).t = "size" /\ Avail(d) = from + 1 THEN "UnexpectedEof"
        ELSE "MalformedHeader"

-----------------------------------------------------------------------------
(* resyncHttp                                                              *)

(* findHttpResync: the first head that follows a CRLF, looked for from     *)
(* where the last search ended; a CRLF at the very front does not count.   *)
FindHttpResync(d) ==
    LET at == {i \in 1 .. Avail(d) - 1 :
                 /\ i > app[d].http_resync_scanned
                 /\ EndsLine(Ahead(d, i)) /\ Ahead(d, i + 1).t = "head"
                 /\ i > 1 \/ Ahead(d, i).t # "crlf"}
    IN  IF at = {} THEN 0 ELSE Min(at)

(* Faults: the next search starts after the bytes that may hold half a     *)
(* marker; a failed search is reported as a success.                       *)
ResyncHttpPastTail(d, a) ==
    LET at == FindHttpResync(d)
    IN  [app |-> [a EXCEPT !.http_chunk_prefix = 0, !.http_body_until_close = FALSE,
                           !.http_resync_scanned = IF at > 0 THEN 0 ELSE Avail(d)],
         eat |-> at, go |-> at > 0]
ResyncHttpAlwaysTrue(d, a) ==
    [app |-> [a EXCEPT !.http_chunk_prefix = 0], eat |-> FindHttpResync(d), go |-> TRUE]

(* The Applications after resyncHttp, what it consumes, and whether the    *)
(* loop goes on.                                                           *)
ResyncHttp(d, a) ==
    LET at    == FindHttpResync(d)
        clear == [a EXCEPT !.http_chunk_prefix = 0, !.http_body_until_close = FALSE]
        found == [clear EXCEPT !.decode_failures = @ + 1, !.http_resync_scanned = 0]
    IN  IF at > 0 THEN [app |-> found, eat |-> at, go |-> TRUE]
        ELSE IF Avail(d) > MAX_HTTP_MESSAGE_BYTES
             THEN [app |-> found, eat |-> Avail(d), go |-> TRUE]
             ELSE [app |-> [clear EXCEPT !.http_resync_scanned = Max({Avail(d) - 1, 0})],
                   eat |-> 0, go |-> FALSE]

-----------------------------------------------------------------------------
(* The loop                                                                *)

(* Goes round again, or leaves the loop, with a new Applications for d and *)
(* possibly for its peer.                                                  *)
Turn(d, apps, eat, go) ==
    /\ polling = d
    /\ app' = apps
    /\ pos' = [pos EXCEPT ![d] = @ + eat]
    /\ polling' = IF go THEN d ELSE "none"
    /\ UNCHANGED <<stream, arrived>>

(* Fault: more is skipped than is there.                                   *)
SkipBodyAll(d) ==
    /\ app[d].http_skip > 0
    /\ Turn(d, [app EXCEPT ![d].http_skip = 0], app[d].http_skip, TRUE)

(* The rest of a body whose message was recorded early.                    *)
SkipBody(d) ==
    LET n == Min({app[d].http_skip, Avail(d)})
    IN  /\ app[d].http_skip > 0
        /\ Turn(d, [app EXCEPT ![d].http_skip = @ - n], n, app[d].http_skip = n)

(* Everything up to the close belongs to the last response.                *)
EatUntilClose(d) ==
    /\ app[d].http_skip = 0 /\ app[d].http_body_until_close
    /\ Turn(d, app, Avail(d), FALSE)

Parsing(d) == app[d].http_skip = 0 /\ ~app[d].http_body_until_close

(* No whole header: wait for more, unless it is past the limit already.    *)
HeaderIncomplete(d) ==
    LET r == ResyncHttp(d, app[d])
    IN  /\ Parsing(d) /\ ParseResult(d) = "UnexpectedEof"
        /\ IF Avail(d) > MAX_HTTP_HEADER_BYTES
           THEN Turn(d, [app EXCEPT ![d] = r.app], r.eat, r.go)
           ELSE Turn(d, app, 0, FALSE)

HeaderMalformed(d) ==
    LET r == ResyncHttp(d, app[d])
    IN  /\ Parsing(d) /\ ParseResult(d) = "MalformedHeader"
        /\ Turn(d, [app EXCEPT ![d] = r.app], r.eat, r.go)

(* A final response takes the answer to "was this a HEAD?" off the queue   *)
(* of the other direction's requests.                                      *)
Pops(d, h) == ~h.request /\ h.status # "1xx" /\ app[Peer(d)].pending_head_requests # <<>>

HeadResponse(d, h) == Pops(d, h) /\ Head(app[Peer(d)].pending_head_requests)

AfterPop(d, h) ==
    IF Pops(d, h) THEN [app EXCEPT ![Peer(d)].pending_head_requests = Tail(@)] ELSE app

(* A message is recorded; a request also notes whether it was a HEAD.      *)
Recorded(a, d, h) ==
    [a EXCEPT !.http_messages = Append(@, pos[d] + 1),
              !.pending_head_requests =
                 IF h.request /\ Len(@) < MAX_PENDING_REQUESTS
                 THEN Append(@, h.method_head) ELSE @]

(* Fault: the answer to a HEAD is expected to have a body.                 *)
NoBodyByStatus(d, h) == BodyForbidden(h)

NoBody(d, h) == BodyForbidden(h) \/ HeadResponse(d, h)

(* The units of the body, when it is all there; -1 when more is needed and *)
(* -2 when the chunks are malformed.                                       *)
ChunkedUnits(d, skip) ==
    CASE ChunkedResult(d, skip) = "None"            -> skip + 2 * ChunksFrom(d, skip) + 1
      [] ChunkedResult(d, skip) = "UnexpectedEof"   -> -1
      [] ChunkedResult(d, skip) = "MalformedHeader" -> -2

BodyUnits(d, h) ==
    IF NoBody(d, h) THEN 0
    ELSE IF h.chunked THEN ChunkedUnits(d, app[d].http_chunk_prefix)
    ELSE IF h.length > Avail(d) - HeadUnits THEN -1
    ELSE Max({h.length, 0})

UntilClose(d, h) == ~NoBody(d, h) /\ ~h.chunked /\ h.length < 0 /\ ~h.request

(* Fault: the progress through one message's chunks is used for the next.  *)
MessageCompleteKeepsPrefix(d) ==
    LET h == Ahead(d, 1)
        n == BodyUnits(d, h)
        a == [app[d] EXCEPT !.http_body_until_close = UntilClose(d, h)]
    IN  /\ Parsing(d) /\ ParseResult(d) = "None" /\ n >= 0
        /\ Turn(d, [AfterPop(d, h) EXCEPT ![d] = Recorded(a, d, h)], HeadUnits + n, TRUE)

(* Header and body are there: record the message and consume it.           *)
MessageComplete(d) ==
    LET h == Ahead(d, 1)
        n == BodyUnits(d, h)
        a == [app[d] EXCEPT !.http_chunk_prefix =
                              IF h.chunked /\ ~NoBody(d, h) THEN 0 ELSE @,
                            !.http_body_until_close = UntilClose(d, h)]
    IN  /\ Parsing(d) /\ ParseResult(d) = "None" /\ n >= 0
        /\ Turn(d, [AfterPop(d, h) EXCEPT ![d] = Recorded(a, d, h)], HeadUnits + n, TRUE)

ChunksMalformed(d) ==
    LET h == Ahead(d, 1)
        r == ResyncHttp(d, app[d])
    IN  /\ Parsing(d) /\ ParseResult(d) = "None" /\ BodyUnits(d, h) = -2
        /\ Turn(d, [AfterPop(d, h) EXCEPT ![d] = r.app], r.eat, r.go)

(* More of the body is to come: wait, remembering the chunks seen; past    *)
(* the limit a counted body is skipped and a chunked one given up.         *)
BodyIncomplete(d) ==
    LET h == Ahead(d, 1)
        a == IF h.chunked
             THEN [app[d] EXCEPT !.http_chunk_prefix = @ + 2 * ChunksFrom(d, @)]
             ELSE app[d]
        r == ResyncHttp(d, a)
        big == [Recorded(a, d, h) EXCEPT !.http_skip = h.length,
                                         !.http_bodies_skipped = @ + 1]
    IN  /\ Parsing(d) /\ ParseResult(d) = "None" /\ BodyUnits(d, h) = -1
        /\ IF Avail(d) <= MAX_HTTP_MESSAGE_BYTES
           THEN Turn(d, [AfterPop(d, h) EXCEPT ![d] = a], 0, FALSE)
           ELSE IF ~h.chunked
                THEN Turn(d, [AfterPop(d, h) EXCEPT ![d] = big], HeadUnits, TRUE)
                ELSE Turn(d, [AfterPop(d, h) EXCEPT ![d] = r.app], r.eat, r.go)

Poll(d) == \/ SkipBody(d) \/ EatUntilClose(d)
           \/ HeaderIncomplete(d) \/ HeaderMalformed(d)
           \/ MessageComplete(d) \/ ChunksMalformed(d) \/ BodyIncomplete(d)

(* A captured segment brings the next units of d, and d is polled.         *)
Segment(d) ==
    \E n \in arrived[d] + 1 .. Len(stream[d]) :
       /\ polling = "none"
       /\ \A i \in arrived[d] + 1 .. n : stream[d][i].after <= arrived[Peer(d)]
       /\ arrived' = [arrived EXCEPT ![d] = n]
       /\ polling' = d
       /\ UNCHANGED <<stream, pos, app>>

Next == \E d \in Dirs : Segment(d) \/ Poll(d)

Spec == Init /\ [][Next]_vars

(* The loop of pollStream runs on until it breaks.                         *)
FairSpec == Spec /\ WF_vars(\E d \in Dirs : Poll(d))

-----------------------------------------------------------------------------
(* Conversations that take turns                                           *)

(* A message of a stream: its first and last unit, whether its exchange is *)
(* about a HEAD, how many requests, or final responses, there are up to    *)
(* and with it, and which message of the other direction its sender has    *)
(* seen (0 is none).                                                       *)
Messages == [at : Nat, end : Nat, head : BOOLEAN, no : Nat, need : Nat]

Interim(h) == ~h.request /\ h.status = "1xx"
Bare(m, h) == BodyForbidden(h) \/ (~h.request /\ m.head)

(* Its body is as its header says; chunks keep the limit on messages.      *)
Chunks(s, m, n) ==
    /\ m.end = m.at + 2 + 2 * n /\ s[m.end].t = "last"
    /\ \A i \in 1 .. n : s[m.at + 2 * i].t = "size" /\ s[m.at + 2 * i + 1].t = "data"

BodySound(s, m) ==
    LET h == s[m.at]
    IN  IF Bare(m, h) THEN m.end = m.at + 1
        ELSE IF h.chunked THEN /\ \E n \in 0 .. m.end : Chunks(s, m, n)
                               /\ m.end - m.at <= MAX_HTTP_MESSAGE_BYTES
        ELSE IF h.length >= 0 THEN m.end = m.at + 1 + h.length
        ELSE m.end = IF h.request THEN m.at + 1 ELSE Len(s)

(* Direction d is message after message, without a break, and nothing else *)
(* in it is a sound header.                                                *)
MessagesOf(s, msgs) ==
    /\ s # <<>> <=> msgs # <<>>
    /\ msgs # <<>> => msgs[1].at = 1 /\ Last(msgs).end = Len(s)
    /\ \A i \in DOMAIN msgs :
          LET m == msgs[i]
          IN  /\ m.at > 0 /\ m.at < m.end /\ m.end <= Len(s)
              /\ s[m.at].t = "head" /\ s[m.at + 1].t = "end" /\ BodySound(s, m)
              /\ i > 1 => m.at = msgs[i - 1].end + 1
    /\ \A j \in 1 .. Len(s) :
          s[j].t = "head" /\ s[j].sound => \E i \in DOMAIN msgs : j = msgs[i].at

(* A request is sent when the one before it was answered, an answer when   *)
(* its request was read; an interim response may come at any time.         *)
Turned(s, msgs, others, i) ==
    LET m    == msgs[i]
        h    == s[m.at]
        seen == others[m.need]
        before == IF i = 1 THEN 0 ELSE msgs[i - 1].no
    IN  /\ m.need \in 0 .. Len(others)
        /\ m.need > 0 => seen.end <= h.after
        /\ h.request => /\ m.no = i /\ m.head = h.method_head
                        /\ i > 1 => m.need > 0 /\ seen.no >= i - 1
        /\ Interim(h) => m.no = before
        /\ ~h.request /\ ~Interim(h) =>
              /\ m.no = before + 1
              /\ m.need = m.no /\ m.head = seen.head

(* The messages msgs of a conversation c, the client's being the requests. *)
TurnsBy(c, msgs, client) ==
    /\ HeadUnits <= MAX_HTTP_HEADER_BYTES /\ MAX_PENDING_REQUESTS > 0
    /\ \A d \in Dirs :
          /\ MessagesOf(c[d], msgs[d])
          /\ \A i \in DOMAIN msgs[d] :
                /\ c[d][msgs[d][i].at].request <=> d = client
                /\ Turned(c[d], msgs[d], msgs[Peer(d)], i)

TakesTurns(c) ==
    \E msgs \in [Dirs -> Seq(Messages)], client \in Dirs : TurnsBy(c, msgs, client)

-----------------------------------------------------------------------------
IsSound(d, i) == stream[d][i].t = "head" /\ stream[d][i].sound

(* The sound messages recorded, and those that start in the first n units. *)
SoundRecorded(d)  == {i \in Range(app[d].http_messages) : IsSound(d, i)}
SoundStarts(d, n) == {i \in 1 .. n : IsSound(d, i)}

(* The Applications have their types and nothing is consumed before it     *)
(* arrived.                                                                *)
TypeOK ==
    /\ polling \in Dirs \cup {"none"}
    /\ arrived \in [Dirs -> Nat] /\ pos \in [Dirs -> Nat] /\ app \in [Dirs -> Applications]
    /\ \A d \in Dirs : pos[d] <= arrived[d] /\ arrived[d] <= Len(stream[d])

(* Every message recorded starts at a real header, in the order of the     *)
(* stream, once each, and the sound ones are exactly those whose header    *)
(* lies in what was consumed: no body byte is taken for a message and no   *)
(* message for body, however the segments cut the stream, and a broken     *)
(* message costs only itself.                                              *)
FramingExact ==
    \A d \in Dirs :
       LET msgs == app[d].http_messages
       IN  /\ \A i \in DOMAIN msgs : /\ stream[d][msgs[i]].t = "head"
                                     /\ \A j \in 1 .. i - 1 : msgs[j] < msgs[i]
           /\ SoundRecorded(d) = SoundStarts(d, pos[d])

(* When all of both streams has arrived and been polled, every sound       *)
(* message has been found, those behind stray or broken bytes included.    *)
AllDecoded ==
    polling = "none" /\ (\A d \in Dirs : arrived[d] = Len(stream[d])) =>
       \A d \in Dirs : SoundRecorded(d) = SoundStarts(d, Len(stream[d]))

(* Wherever pollStream has a header, http_chunk_prefix belongs to that     *)
(* message: its body is chunked, subspan stays within what is available    *)
(* and goes on at the start of a chunk.                                    *)
ChunkPrefixValid ==
    \A d \in Dirs :
       Parsing(d) /\ ParseResult(d) = "None" /\ app[d].http_chunk_prefix > 0 =>
          LET at == HeadUnits + app[d].http_chunk_prefix
          IN  /\ at <= Avail(d)
              /\ Ahead(d, 1).chunked
              /\ Ahead(d, at).t = "data"

(* A poll always ends, resynchronisation included.                         *)
PollEnds == polling # "none" ~> polling = "none"

=============================================================================
