------------------------------- MODULE Reader -------------------------------
(***************************************************************************)
(* pcap::Reader (pcap.h, pcap.cpp, pcap_reader.cpp): the headers of a      *)
(* capture file and its records, one at a time, out of a mapped file.      *)
(*                                                                         *)
(* A file is its bytes.  Every header field has two bytes here, where the  *)
(* program's have two or four; the magic numbers keep their outer bytes,   *)
(* and the two reserved fields, which nothing looks at, are left out.  The *)
(* program's US_PER_SEC is 1000000 and its NS_PER_US is 1000.              *)
(*                                                                         *)
(* A reader is a record: at is how much of the file span_ has left behind. *)
(***************************************************************************)
EXTENDS Benchmark, SequencesExt

CONSTANTS US_PER_SEC, NS_PER_US

ASSUME ReaderAssumption == {US_PER_SEC, NS_PER_US} \subseteq Nat \ {0}

FILE_HEADER_LEN   == 10
PACKET_HEADER_LEN == 8

PCAP_MAGIC_USEC_LE == 256 * 161 + 212
PCAP_MAGIC_USEC_BE == 256 * 212 + 161
PCAP_MAGIC_NSEC_LE == 256 * 161 + 77
PCAP_MAGIC_NSEC_BE == 256 * 77 + 161

SUPPORTED_MAJOR_VERSION == 2
SUPPORTED_MINOR_VERSION == 4
LINKTYPE_ETHERNET == 1

-----------------------------------------------------------------------------
(* Byte order                                                              *)

Bswap(v) == (v \div 256) + (v % 256) * 256

ToHost(v, endian) == IF endian = "Big" THEN Bswap(v) ELSE v

(* Field n of the header at offset at, as a little-endian machine loads it.*)
Field(file, at, n) == file[at + 2 * n - 1] + 256 * file[at + 2 * n]

-----------------------------------------------------------------------------
(* The file header                                                         *)

MagicEndian(magic) ==
    CASE magic \in {PCAP_MAGIC_USEC_BE, PCAP_MAGIC_NSEC_BE} -> "Big"
      [] magic \in {PCAP_MAGIC_USEC_LE, PCAP_MAGIC_NSEC_LE} -> "Little"
      [] OTHER -> "None"

(* readFileHeader and parse(FileHeader): the first check that fails.  The  *)
(* link type is compared without its upper four bits.                      *)
FileHeaderErr(file) ==
    LET endian == MagicEndian(Field(file, 0, 1))
        H(n)   == ToHost(Field(file, 0, n), endian)
    IN  IF Len(file) < FILE_HEADER_LEN THEN "UnexpectedEofF"
        ELSE IF endian = "None" THEN "InvalidFieldValue"
        ELSE IF \/ H(2) # SUPPORTED_MAJOR_VERSION
                \/ H(3) # SUPPORTED_MINOR_VERSION THEN "UnsupportedVersion"
        ELSE IF H(4) = 0 THEN "InvalidFieldValue"
        ELSE IF H(5) % 4096 # LINKTYPE_ETHERNET THEN "UnsupportedLinktype"
        ELSE "None"

(* The Reader once its constructor has mapped a file and init has read the *)
(* file header; a header that fails leaves the file where it is.           *)
NewReader(file) ==
    LET err   == FileHeaderErr(file)
        magic == IF err = "None" THEN Field(file, 0, 1) ELSE 0
        order == MagicEndian(magic)
    IN  [at |-> IF err = "None" THEN FILE_HEADER_LEN ELSE 0,
         header_err |-> err,
         endian     |-> order,
         linktype   |-> IF err = "None" THEN ToHost(Field(file, 0, 5), order) ELSE 0,
         is_nsec    |-> magic \in {PCAP_MAGIC_NSEC_LE, PCAP_MAGIC_NSEC_BE},
         skipped |-> 0, last_skip_err |-> "None", decoded |-> 0]

-----------------------------------------------------------------------------
(* A record: packet header and frame                                       *)

Left(file, r) == Len(file) - r.at

HeaderField(file, r, n) == ToHost(Field(file, r.at, n), r.endian)

InclLen(file, r) == HeaderField(file, r, 3)

(* parse(PacketHeader): the first check that fails.                        *)
PacketHeaderErr(file, r) ==
    LET orig_len == HeaderField(file, r, 4)
    IN  IF Left(file, r) < PACKET_HEADER_LEN THEN "UnexpectedEofF"
        ELSE IF InclLen(file, r) = 0 \/ orig_len = 0 THEN "InvalidFieldValue"
        ELSE IF InclLen(file, r) > orig_len THEN "MalformedHeader"
        ELSE "None"

(* What one round of readPacket's loop finds: an error, or a whole record. *)
RecordErr(file, r) ==
    LET err == PacketHeaderErr(file, r)
    IN  IF r.header_err # "None" THEN r.header_err
        ELSE IF err # "None" THEN err
        ELSE IF Left(file, r) - PACKET_HEADER_LEN < InclLen(file, r) THEN "UnexpectedEofF"
        ELSE "None"

(* Fault: nanoseconds are taken for microseconds.                          *)
CaptureUsec(file, r) ==
    [ts_us |-> HeaderField(file, r, 1) * US_PER_SEC + HeaderField(file, r, 2),
     incl_len |-> InclLen(file, r),
     data |-> SubSeq(file, r.at + PACKET_HEADER_LEN + 1,
                           r.at + PACKET_HEADER_LEN + InclLen(file, r))]

(* capture_: the time in microseconds and the frame.                       *)
Capture(file, r) ==
    LET frac == HeaderField(file, r, 2)
    IN  [ts_us |-> HeaderField(file, r, 1) * US_PER_SEC
                     + (IF r.is_nsec THEN frac \div NS_PER_US ELSE frac),
         incl_len |-> InclLen(file, r),
         data |-> SubSeq(file, r.at + PACKET_HEADER_LEN + 1,
                               r.at + PACKET_HEADER_LEN + InclLen(file, r))]

(* span_ moves past the packet header once that parses, and past the frame *)
(* once it is whole.                                                       *)
Consumed(file, r) ==
    IF RecordErr(file, r) = "None"
    THEN r.at + PACKET_HEADER_LEN + InclLen(file, r)
    ELSE IF r.header_err = "None" /\ PacketHeaderErr(file, r) = "None"
    THEN r.at + PACKET_HEADER_LEN
    ELSE r.at

(* A frame of another link type has no datalink header to be decoded by.   *)
DatalinkErr(r) ==
    IF r.linktype = LINKTYPE_ETHERNET THEN "None" ELSE "UnsupportedLinktype"

-----------------------------------------------------------------------------
(* Phases                                                                  *)

Untouched(file, r) == r.header_err # "None" \/ Left(file, r) < PACKET_HEADER_LEN

(* Fault: a packet header that fails leaves its phase running.             *)
HeaderTimedUntilErr(b, file, r) ==
    IF Untouched(file, r) THEN b
    ELSE IF RecordErr(file, r) # "None" THEN Start(b, "PacketHeader")
    ELSE Around("PacketHeader")[b]

(* PacketHeader is stopped on each of the three ways out.                  *)
HeaderTimed(b, file, r) ==
    IF Untouched(file, r) THEN b ELSE Around("PacketHeader")[b]

(* The phases of Decoder::decode, for a frame that decodePacket or the     *)
(* filter refuses, and for one that has a flow or not (ARP).               *)
DecodeTimed(b, refused, has_flow, is_tcp) ==
    LET parsed == Around("DecodePacket")[Start(b, "Decode")]
        looked == IF refused THEN parsed ELSE Around("FlowLookup")[parsed]
        assembled == IF ~refused /\ has_flow /\ is_tcp THEN Around("TcpReassembly")[looked]
                     ELSE looked
        polled == IF ~refused /\ has_flow THEN Around("AppDecode")[assembled] ELSE assembled
    IN  Stop(polled, "Decode")

=============================================================================
