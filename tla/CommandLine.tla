----------------------------- MODULE CommandLine -----------------------------
(***************************************************************************)
(* Options and parseArgs (cli.cpp): what the program is asked to do.       *)
(*                                                                         *)
(* An argument is a record: opt names the option it spells, short or long, *)
(* or is "value" or "unknown"; text is what it says when it is taken for a *)
(* value.  The name of a protocol is one character, NAME + its number.     *)
(* SIZE_MAX and UINT64_MAX are UINT_MAX here, 65535 and 255 are kept.      *)
(***************************************************************************)
EXTENDS Addresses, Reader

CONSTANTS UINT_MAX, DEFAULT_IDLE_TIMEOUT_US

ASSUME CommandLineAssumption ==
    /\ UINT_MAX \in Nat /\ UINT_MAX \div US_PER_SEC > 9
    /\ DEFAULT_IDLE_TIMEOUT_US \in 0 .. UINT_MAX

NAME == 200

Sections == {"packets", "summary", "flows", "http", "dns", "bench"}

SecondsOptions == {"--timeout", "--idle"}
AddressOptions == {"--src-ip", "--dst-ip"}
PortOptions    == {"--src-port", "--dst-port"}
Valued == {"--out", "--limit", "--proto"} \cup SecondsOptions \cup AddressOptions
             \cup PortOptions

(* What main is given.                                                     *)
Arguments ==
    [opt : Sections \cup Valued
              \cup {"--help", "--version", "--all", "--json", "--no-checksum", "unknown", "value"},
     text : Seq(Nat)]

(* Options, the rest of parseArgs' state (i, ip_version) and its result.   *)
NewOptions ==
    [path |-> <<>>, show |-> {}, json |-> FALSE, out_dir |-> <<>>, limit |-> 0,
     verify_checksum |-> TRUE, active |-> 0, idle |-> DEFAULT_IDLE_TIMEOUT_US,
     filter |-> [isIpv4 |-> FALSE, src_ip |-> Zeros(GROUPS), dst_ip |-> Zeros(GROUPS),
                 src_port |-> 0, dst_port |-> 0, protocol |-> 0],
     i |-> 1, ip_version |-> 0, result |-> "more"]

Usage(o) == [o EXCEPT !.result = "usage"]

(* parseFilterIp: the IPv4 reading first; its octets are the first bytes   *)
(* of the sixteen.                                                         *)
FilterIp(s) ==
    LET v4 == AddressFromString4(s)
        v6 == AddressFromString6(s)
    IN  IF v4 # Refused THEN [version |-> 4, ip |-> v4 \o Zeros(GROUPS - OCTETS)]
        ELSE IF v6 # Refused THEN [version |-> 6, ip |-> v6]
        ELSE [version |-> 0, ip |-> Refused]

TakeAddress(o, opt, s) ==
    LET a == FilterIp(s)
    IN  IF a.version = 0 \/ o.ip_version \notin {0, a.version} THEN Usage(o)
        ELSE [o EXCEPT !.filter.isIpv4 = (a.version = 4), !.ip_version = a.version,
                       !.filter.src_ip = IF opt = "--src-ip" THEN a.ip ELSE @,
                       !.filter.dst_ip = IF opt = "--dst-ip" THEN a.ip ELSE @]

TakeSeconds(o, opt, s) ==
    LET sec == ParseUint(s, UINT_MAX \div US_PER_SEC)
        us  == (sec * US_PER_SEC) % (UINT_MAX + 1)
    IN  IF sec = -1 THEN Usage(o)
        ELSE [o EXCEPT !.active = IF opt = "--timeout" THEN us ELSE @,
                       !.idle   = IF opt = "--idle" THEN us ELSE @]

TakePort(o, opt, s) ==
    LET port == ParseUint(s, 65535)
    IN  IF port \in {-1, 0} THEN Usage(o)
        ELSE [o EXCEPT !.filter.src_port = IF opt = "--src-port" THEN port ELSE @,
                       !.filter.dst_port = IF opt = "--dst-port" THEN port ELSE @]

ProtocolFromName(s) ==
    IF Len(s) = 1 /\ s[1] > NAME THEN s[1] - NAME ELSE ParseUint(s, 255)

TakeProtocol(o, s) ==
    IF ProtocolFromName(s) \in {-1, 0} THEN Usage(o)
    ELSE [o EXCEPT !.filter.protocol = ProtocolFromName(s)]

TakeLimit(o, s) ==
    IF ParseUint(s, UINT_MAX) = -1 THEN Usage(o)
    ELSE [o EXCEPT !.limit = ParseUint(s, UINT_MAX)]

TakeOut(o, s) == IF s = <<>> THEN Usage(o) ELSE [o EXCEPT !.out_dir = s]

(* An option that takes the next argument, whatever that is.               *)
TakeValue(o, opt, s) ==
    CASE opt = "--out" -> TakeOut(o, s)
      [] opt = "--limit" -> TakeLimit(o, s)
      [] opt = "--proto" -> TakeProtocol(o, s)
      [] opt \in SecondsOptions -> TakeSeconds(o, opt, s)
      [] opt \in AddressOptions -> TakeAddress(o, opt, s)
      [] opt \in PortOptions -> TakePort(o, opt, s)

(* One round of parseArgs' loop.                                           *)
Argument(o, argv) ==
    LET opt  == argv[o.i].opt
        text == argv[o.i].text
        on   == [o EXCEPT !.i = @ + 1]
    IN  CASE opt = "--help"    -> [o EXCEPT !.result = "help"]
          [] opt = "--version" -> [o EXCEPT !.result = "version"]
          [] opt \in Sections  -> [on EXCEPT !.show = @ \cup {opt}]
          [] opt = "--all"     -> [on EXCEPT !.show = @ \cup (Sections \ {"packets"})]
          [] opt = "--json"    -> [on EXCEPT !.json = TRUE]
          [] opt = "--no-checksum" -> [on EXCEPT !.verify_checksum = FALSE]
          [] opt \in Valued ->
                IF o.i = Len(argv) THEN Usage(o)
                ELSE TakeValue([o EXCEPT !.i = @ + 2], opt, argv[o.i + 1].text)
          [] opt = "unknown" -> Usage(o)
          [] opt = "value" -> IF o.path = <<>> THEN [on EXCEPT !.path = text] ELSE Usage(o)

(* Behind the last argument: a capture must be given, and what to show     *)
(* when nothing was selected.                                              *)
Selected(o) ==
    IF o.path = <<>> THEN Usage(o)
    ELSE [o EXCEPT !.result = "run",
                   !.show = IF @ # {} THEN @
                            ELSE IF o.out_dir = <<>> THEN {"summary", "flows"}
                            ELSE Sections]

-----------------------------------------------------------------------------
(* Reference: what a command line asks for.                                *)

(* Is argument k the value of the option in front of it?                   *)
IsValue(argv) ==
    LET v[k \in 1 .. Len(argv)] == k > 1 /\ argv[k - 1].opt \in Valued /\ ~v[k - 1]
    IN  v

(* The options that are given, by position.                                *)
Given(argv, opts) == {k \in 1 .. Len(argv) : argv[k].opt \in opts /\ ~IsValue(argv)[k]}

(* What the value at k may mean to its option: one thing or nothing.  Zero *)
(* is no address, port or protocol that a filter can ask for.              *)
ValueMeans(argv, k) ==
    LET opt  == argv[k].opt
        text == IF k < Len(argv) THEN argv[k + 1].text ELSE <<>>
        named == IF Len(text) = 1 /\ text[1] > NAME THEN {text[1] - NAME} ELSE {}
    IN  CASE k = Len(argv) -> {}
          [] opt = "--out"   -> {text} \ {<<>>}
          [] opt = "--limit" -> MeaningOfNumber(text, UINT_MAX)
          [] opt = "--proto" -> (named \cup MeaningOfNumber(text, 255)) \ {0}
          [] opt \in SecondsOptions ->
                {sec * US_PER_SEC : sec \in MeaningOfNumber(text, UINT_MAX)} \cap 0 .. UINT_MAX
          [] opt \in AddressOptions ->
                {<<4, ip \o Zeros(GROUPS - OCTETS)>> : ip \in Meaning4(text) \ {Zeros(OCTETS)}}
                   \cup {<<6, ip>> : ip \in Meaning6(text) \ {Zeros(GROUPS)}}
          [] opt \in PortOptions -> MeaningOfNumber(text, 65535) \ {0}

(* A command line without --help and --version that can be carried out.    *)
Acceptable(argv) ==
    /\ Given(argv, {"unknown"}) = {}
    /\ \A k \in Given(argv, Valued) : ValueMeans(argv, k) # {}
    /\ \A j, k \in Given(argv, AddressOptions) :
          \A a \in ValueMeans(argv, j), b \in ValueMeans(argv, k) : a[1] = b[1]
    /\ \E path \in Given(argv, {"value"}) :
          /\ argv[path].text # <<>>
          /\ \A k \in Given(argv, {"value"}) \ {path} : k < path /\ argv[k].text = <<>>

=============================================================================
