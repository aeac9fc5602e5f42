----------------------------- MODULE MCAnalyzer -----------------------------
(* Analyzer on every short address and number, on captures of up to three  *)
(* records with the ways of asking for their sections, on every way a file *)
(* can be cut off or have a wrong header, and on failing files.            *)
EXTENDS Analyzer

(* Frames: two ends that speak HTTP and DNS over IPv4, one more over IPv6. *)
A == <<1, 2, 0>>
B == <<3, 4, 0>>
X == <<0, 0, 1>>

FrameOf(network, src, dst, transport, msg, name) ==
    [err |-> "None", network |-> network, src_ip |-> src, dst_ip |-> dst,
     transport |-> transport, has_payload |-> TRUE, msg |-> msg, name |-> name]
L4(kind, src, dst) == [kind |-> kind, src_port |-> src, dst_port |-> dst]
Echo(id) == [kind |-> "icmp", echo |-> TRUE, id |-> id]

KnownFrames == <<
    FrameOf("v4", A, B, L4("tcp", 9, 80), "http", 0),
    FrameOf("v4", B, A, L4("tcp", 80, 9), "http", 0),
    FrameOf("v4", B, A, L4("udp", 53, 9), "dns", 1),
    FrameOf("v6", X, X, L4("udp", 53, 9), "dns", 2),
    FrameOf("v4", A, B, L4("tcp", 9, 80), "bad", 0),
    FrameOf("arp", A, B, [kind |-> "none"], "none", 0),
    [FrameOf("v4", A, B, L4("tcp", 9, 80), "none", 0) EXCEPT !.err = "ChecksumMismatch"],
    FrameOf("v4", B, A, L4("tcp", 80, 9), "big", 0),
    [FrameOf("v4", B, A, L4("udp", 53, 9), "none", 0) EXCEPT !.has_payload = FALSE],
    FrameOf("v4", A, B, L4("udp", 9, 80), "http", 0),
    FrameOf("v4", A, B, Echo(80), "http", 0) >>

MCFrames == [b \in Byte |-> IF b \in DOMAIN KnownFrames THEN KnownFrames[b] ELSE [err |-> "UnsupportedNetworkType"]]

(* Files                                                                   *)
Two(v, big) == IF big THEN <<v \div 256, v % 256>> ELSE <<v % 256, v \div 256>>
Fields(vs, big) == FlattenSeq([k \in 1 .. Len(vs) |-> Two(vs[k], big)])

Magic(big, nsec) == Two(256 * 161 + (IF nsec THEN 77 ELSE 212), big)
FileHeader(big, nsec, major, minor, snaplen, linktype) ==
    Magic(big, nsec) \o Fields(<<major, minor, snaplen, linktype>>, big)

(* Record k of a file: a frame of n bytes, twenty seconds after record k-1.*)
RecordOf(k, frame, n, big) ==
    Fields(<<20 * k, 7, n, n + 1>>, big) \o <<frame>> \o [j \in 1 .. n - 1 |-> 0]

Body(frames, big) ==
    FlattenSeq([k \in 1 .. Len(frames) |-> RecordOf(k, frames[k], 1 + (frames[k] % 3), big)])

FileOf(frames, big, nsec) == FileHeader(big, nsec, 2, 4, 9, 1) \o Body(frames, big)

Short(frames) == FileOf(frames, FALSE, FALSE)

Cut == {SubSeq(FileOf(<<1, 3>>, big, nsec), 1, n) : n \in 1 .. 29, big \in BOOLEAN, nsec \in BOOLEAN}

WrongHeaders ==
    {FileHeader(big, FALSE, h[1], h[2], h[3], h[4]) \o Body(<<1>>, big) :
       big \in BOOLEAN,
       h \in {<<1, 4, 9, 1>>, <<2, 3, 9, 1>>, <<4, 2, 9, 1>>, <<2, 4, 0, 1>>, <<2, 4, 9, 0>>,
              <<2, 4, 9, 2>>, <<2, 4, 9, 256>>, <<2, 4, 9, 4097>>}}
    \cup {<<212, 212>> \o Tail(Tail(Short(<<1>>)))}

WrongLengths ==
    {FileHeader(big, FALSE, 2, 4, 9, 1) \o RecordOf(1, 1, 2, big)
       \o Fields(<<40, 0, n[1], n[2]>>, big) \o <<2, 2>> \o RecordOf(3, 1, 2, big) :
       big \in BOOLEAN, n \in {<<0, 1>>, <<0, 0>>, <<1, 0>>, <<2, 1>>, <<3, 3>>, <<256, 256>>, <<2, 2>>}}

(* Arguments                                                               *)
Opt(name)  == [opt |-> name, text |-> <<JUNK>>]
Val(text)  == [opt |-> "value", text |-> text]
Path == Val(<<JUNK>>)
With(name, text) == <<Path, Opt(name), Val(text)>>

Good == [mkdir |-> TRUE, open |-> TRUE, create |-> {}, write |-> {}]
StartsOf(argvs, files, envs) == [argv : argvs, file : files, env : envs]

Texts(chars, n) == BoundedSeq(chars, n)

(* Texts of the all-zero address are left out: it is accepted, although it *)
(* means no filter (ZeroAddress below).                                    *)
NotZero(texts) == {t \in texts : Zeros(OCTETS) \notin Meaning4(t) /\ Zeros(GROUPS) \notin Meaning6(t)}

Spellings ==
    StartsOf({With("--dst-ip", t) : t \in NotZero(Texts({0, 1, COLON}, 7))}
        \cup {With("--src-ip", t) : t \in NotZero(Texts({0, 2, 5, 6, DOT}, 5) \cup Texts({11, COLON}, 5))}
        \cup {With(opt, t) : opt \in {"--limit", "--timeout", "--idle"}, t \in Texts({0, 1, 2, 3}, 4)}
        \cup {With("--src-port", t) : t \in Texts({3, 5, 6}, 5) \cup {<<0>>}}
        \cup {With("--proto", t) : t \in Texts({2, 5, 6, JUNK}, 3) \cup {<<0>>, <<NAME + 6>>, <<NAME + 58>>}},
        {Short(<<4>>)}, {Good})

V4 == <<1, DOT, 2>>
V6 == <<COLON, COLON, 1>>

Requests == {
    <<Path>>, <<>>, <<Val(<<>>), Path>>, <<Path, Path>>, <<Path, Opt("unknown")>>,
    <<Opt("--help"), Opt("unknown")>>, <<Path, Opt("--version")>>, <<Path, Opt("--limit")>>,
    <<Path, Opt("--out"), Opt("--json")>>, <<Path, Opt("--out"), Val(<<>>)>>,
    <<Path, Opt("--src-ip"), Val(V4), Opt("--dst-ip"), Val(V6)>>,
    <<Path, Opt("--src-ip"), Val(V4), Opt("--src-ip"), Val(<<3, DOT, 4>>)>>,
    <<Path, Opt("--src-ip"), Val(V6), Opt("--dst-ip"), Val(V6), Opt("--dst-port"), Val(<<9>>)>>,
    <<Opt("--proto"), Val(<<NAME + 6>>), Path, Opt("--dst-port"), Val(<<8, 0>>), Opt("--no-checksum")>>,
    <<Path, Opt("--src-port"), Val(<<5, 3>>), Opt("bench"), Opt("summary")>> }

Outputs == {
    <<Path, Opt("--all")>>,
    <<Path, Opt("--all"), Opt("packets"), Opt("--limit"), Val(<<1>>)>>,
    <<Path, Opt("packets"), Opt("--limit"), Val(<<2>>)>>,
    <<Path, Opt("packets"), Opt("--json"), Opt("flows")>>,
    <<Path, Opt("packets"), Opt("--json"), Opt("--limit"), Val(<<2>>), Opt("--idle"), Val(<<1, 0>>)>>,
    <<Path, Opt("--out"), Val(<<JUNK>>), Opt("--timeout"), Val(<<2, 5>>), Opt("--limit"), Val(<<2>>)>>,
    <<Path, Opt("--proto"), Val(<<1, 7>>), Opt("http"), Opt("dns")>>,
    <<Path, Opt("--dst-ip"), Val(V4), Opt("flows"), Opt("summary")>> }

Captures == {Short(fs) : fs \in {<<8>>, <<1, 8, 2>>} \cup Texts(1 .. 7, 2) \cup Texts(1 .. 3, 3) \cup Texts({2, 6, 7}, 3)
                                  \cup {<<9, 3>>, <<3, 9>>, <<10, 1>>, <<11, 1>>, <<10, 11>>}}

AtMostOne == {{}} \cup {{s} : s \in Sections}
Failing == {[mkdir |-> m, open |-> o, create |-> c, write |-> w] :
              m \in BOOLEAN, o \in BOOLEAN, c \in AtMostOne, w \in AtMostOne}

MCStarts ==
    Spellings
    \cup StartsOf(Requests, {Short(<<1, 2, 3>>), Short(<<4, 6, 7>>)}, {Good})
    \cup StartsOf(Outputs, Captures, {Good})
    \cup StartsOf({<<Path>>, <<Path, Opt("bench"), Opt("packets")>>},
                  Cut \cup WrongHeaders \cup WrongLengths, {Good})
    \cup StartsOf({<<Path, Opt("--out"), Val(<<JUNK>>)>>, <<Path, Opt("--out"), Val(<<JUNK>>), Opt("flows"), Opt("dns")>>, <<Path>>},
                  {Short(<<1, 3>>)}, Failing)

(* A filter on the all-zero address, which src/README.md:135 rules out and *)
(* parseArgs accepts: with these starts OptionsAsAsked does not hold.      *)
ZeroAddress == StartsOf({With("--src-ip", <<0, DOT, 0>>), With("--dst-ip", <<0, DOT, 0>>)},
                        {Short(<<1>>)}, {Good})

=============================================================================
