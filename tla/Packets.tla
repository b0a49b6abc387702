------------------------------- MODULE Packets -------------------------------
(***************************************************************************)
(* Packets of packetlib: stacks of headers over a payload, what a header   *)
(* demands of the next one, how headers are parsed and serialized, the     *)
(* value every computed field should have, and when a packet is valid.     *)
(*                                                                         *)
(* A serialized packet is a sequence of cells, numbers below 2^16.  Each   *)
(* field that something depends on takes one cell, a 32-bit word of        *)
(* options one, a unit of payload one; fields that are only carried along  *)
(* are left out.  Sizes count cells, and thus are those of a packet drawn  *)
(* to another scale.  Protocol numbers are the real ones.                  *)
(***************************************************************************)
EXTENDS Integers, Sequences, SequencesExt

CONSTANTS
  Missing,      \* the empty string: the field is not set
  Malformed,    \* a string that is not of the field's format
  Undefined,    \* a value that cannot be computed: an error status
  AnyValue,     \* no value is expected of the field
  OutOfBounds,  \* the computation reads packet.headers(-1)
  MinPayload,   \* kMinNumBytesInEthernetPayload
  Mtu           \* 1500: EtherTypes up to here are sizes of payloads

Markers == {Missing, Malformed, Undefined, AnyValue, OutOfBounds}

ASSUME MarkersAreNoValues ==
  /\ Markers \cap Int = {} /\ Markers \cap Seq(Nat) = {}
  /\ Missing # Malformed /\ Missing # Undefined /\ Missing # AnyValue
  /\ Missing # OutOfBounds /\ Malformed # Undefined /\ Malformed # AnyValue
  /\ Malformed # OutOfBounds /\ Undefined # AnyValue
  /\ Undefined # OutOfBounds /\ AnyValue # OutOfBounds

ASSUME SizesAreNumbers == Mtu \in 1 .. 1535 /\ MinPayload \in 1 .. Mtu

\* Values of a 16-bit field.
WordLimit == 65536

-----------------------------------------------------------------------------
(* Headers *)

\* The fields of each kind of header, in the order in which they are sent.
Fields == [
  ethernet    |-> <<"ethertype">>,
  ipv4        |-> <<"version", "ihl", "total_length", "protocol", "checksum",
                    "addresses">>,
  ipv6        |-> <<"version", "payload_length", "next_header", "addresses">>,
  hop_by_hop  |-> <<"next_header", "header_extension_length",
                    "options_and_padding">>,
  udp         |-> <<"destination_port", "length", "checksum">>,
  tcp         |-> <<"data_offset">>,
  arp         |-> <<"hardware_type", "protocol_type", "hardware_length",
                    "protocol_length">>,
  icmp        |-> <<"checksum">>,
  vlan        |-> <<"ethertype">>,
  csig        |-> <<"ethertype">>,
  csig_wide   |-> <<"ethertype">>,
  gre         |-> <<"checksum_present", "reserved0", "version",
                    "protocol_type", "checksum", "reserved1">>,
  packet_in   |-> <<"unused_pad">>,
  ipfix       |-> <<"length">>,
  psamp       |-> <<"length", "variable_length", "packet_sampled_length">>,
  ptp         |-> <<"message_length">>,
  psp         |-> <<"next_header", "crypt_offset",
                    "virtualization_cookie_present">>,
  ib_bth      |-> <<"op_code">>,
  not_set     |-> <<>> ]

HeaderCases == DOMAIN Fields

\* Fields of one bit.
Flags == {"checksum_present", "virtualization_cookie_present"}

\* Fields of a GRE header that are there only if its first bit says so.
GreOptionals == {"checksum", "reserved1"}

FieldsOf(case) == {Fields[case][k] : k \in DOMAIN Fields[case]}

\* A header: its kind, its fields, and the 32-bit words of the options of an
\* IPv4 or TCP header (<<>> elsewhere), or Malformed.
IsHeader(h) ==
  /\ h \in [case    : HeaderCases,
            field   : [FieldsOf(h.case) -> Nat \cup {Missing, Malformed}],
            options : Seq(Nat) \cup {Malformed}]
  /\ h.case \notin {"ipv4", "tcp"} => h.options = <<>>

IsPacket(p) ==
  /\ p = [headers |-> p.headers, payload |-> p.payload]
  /\ p.payload \in Seq(Nat)
  /\ Len(p.headers) \in Nat
  /\ p.headers = [i \in 1 .. Len(p.headers) |-> p.headers[i]]
  /\ \A i \in 1 .. Len(p.headers) : IsHeader(p.headers[i])

HasOptionals(h) == h.case = "gre" /\ h.field.checksum_present = 1

WithField(h, f, value) == [h EXCEPT !.field[f] = value]

-----------------------------------------------------------------------------
(* What a header demands next: a kind of header, "not_set" for none,       *)
(* "unsupported", or "error" where the field cannot be read.               *)

NextHeaderForEtherType(ethertype) ==
  IF ethertype \notin Nat THEN "error"
  ELSE CASE ethertype <= 1535  -> "not_set"
         [] ethertype = 2048   -> "ipv4"
         [] ethertype = 34525  -> "ipv6"
         [] ethertype = 2054   -> "arp"
         [] ethertype = 33024  -> "vlan"
         [] ethertype = 35063  -> "ptp"
         [] ethertype = 39168  -> "csig"
         [] ethertype = 39169  -> "csig_wide"
         [] OTHER              -> "unsupported"

\* The protocols that IPv4, IPv6 and the options of IPv6 have in common.
NextHeaderForProtocol(protocol) ==
  CASE protocol = 4           -> "ipv4"
    [] protocol = 6           -> "tcp"
    [] protocol = 17          -> "udp"
    [] protocol = 41          -> "ipv6"
    [] protocol = 47          -> "gre"
    [] protocol \in {253, 254} -> "not_set"
    [] OTHER                  -> "unsupported"

NextHeaderForPort(port) ==
  IF port \notin Nat THEN "error"
  ELSE CASE port = 4739        -> "ipfix"
         [] port \in {319, 320} -> "ptp"
         [] port = 1000        -> "psp"
         [] port = 4791        -> "ib_bth"
         [] OTHER              -> "not_set"

\* A UDP header is looked for only if enough bits are not encrypted: the
\* offset counts 32-bit words, and a UDP header takes two.
NextHeaderForPsp(field) ==
  IF field.virtualization_cookie_present = 1 THEN "unsupported"
  ELSE IF field.crypt_offset \notin Nat THEN "error"
  ELSE IF field.next_header = 17 /\ field.crypt_offset >= 2 THEN "udp"
  ELSE "not_set"

GetNextHeader(h) ==
  CASE h.case \in {"ethernet", "vlan", "csig", "csig_wide"} ->
         NextHeaderForEtherType(h.field.ethertype)
    [] h.case = "gre" -> NextHeaderForEtherType(h.field.protocol_type)
    [] h.case = "packet_in" -> "ethernet"
    [] h.case = "ipv4" ->
         IF h.field.protocol = 1 THEN "icmp"
         ELSE NextHeaderForProtocol(h.field.protocol)
    [] h.case \in {"ipv6", "hop_by_hop"} ->
         IF h.case = "hop_by_hop" /\ h.field.header_extension_length # 0
         THEN "unsupported"
         ELSE IF h.field.next_header = 58 THEN "icmp"
         ELSE IF h.case = "ipv6" /\ h.field.next_header = 0 THEN "hop_by_hop"
         ELSE NextHeaderForProtocol(h.field.next_header)
    [] h.case = "udp" -> NextHeaderForPort(h.field.destination_port)
    [] h.case = "ipfix" -> "psamp"
    [] h.case = "psp" -> NextHeaderForPsp(h.field)
    [] OTHER -> "not_set"

\* The kind of header that must follow; none follows what is not supported.
ExpectedHeaderCase(h) ==
  LET next == GetNextHeader(h)
  IN  IF next \in {"unsupported", "error"} THEN "not_set" ELSE next

-----------------------------------------------------------------------------
(* Sizes and serialization *)

FieldsSent(h) ==
  IF h.case = "gre" /\ ~HasOptionals(h)
  THEN SubSeq(Fields.gre, 1, 4) ELSE Fields[h.case]

HeaderSize(h) ==
  IF h.case = "not_set" \/ h.options = Malformed THEN Undefined
  ELSE Len(FieldsSent(h)) + Len(h.options)

\* The headers from the i-th on, and the payload.
From(packet, i) ==
  [packet EXCEPT !.headers = SubSeq(packet.headers, i, Len(packet.headers))]

Total(numbers) ==
  LET total[k \in 0 .. Len(numbers)] ==
        IF k = 0 THEN 0 ELSE total[k - 1] + numbers[k]
  IN  total[Len(numbers)]

PacketSize(packet) ==
  LET sizes == [i \in DOMAIN packet.headers |-> HeaderSize(packet.headers[i])]
  IN  IF \E i \in DOMAIN sizes : sizes[i] = Undefined THEN Undefined
      ELSE Total(sizes) + Len(packet.payload)

SizeFrom(packet, i) == PacketSize(From(packet, i))

Serializable(h) ==
  /\ h.case # "not_set"
  /\ h.options # Malformed
  /\ \A k \in DOMAIN FieldsSent(h) : h.field[FieldsSent(h)[k]] \in Nat

SerializeHeader(h) ==
  [k \in DOMAIN FieldsSent(h) |-> h.field[FieldsSent(h)[k]]] \o h.options

RawSerializePacket(packet) ==
  IF \A i \in DOMAIN packet.headers : Serializable(packet.headers[i])
  THEN FlattenSeq([i \in DOMAIN packet.headers |->
                     SerializeHeader(packet.headers[i])]) \o packet.payload
  ELSE Undefined

-----------------------------------------------------------------------------
(* Parsing one header *)

(* Mutants of the next definition: the optional fields of GRE are never, or  *)
(* always, parsed.                                                           *)
WithoutOptionals(case, data) ==
  IF case = "gre" THEN 4 ELSE Len(Fields[case])

WithOptionals(case, data) == Len(Fields[case])

\* Cells of the fixed part of the next header.
FixedSize(case, data) ==
  IF case = "gre" /\ (data = <<>> \/ data[1] # 1) THEN 4
  ELSE Len(Fields[case])

LongEnough(case, data) ==
  case # "not_set" /\ Len(data) >= FixedSize(case, data)

\* Words of options that an IPv4 or TCP header announces, in four bits.  A
\* packet may end before they do, and then they are as many as there are.
OptionsAnnounced(case, field, rest) ==
  LET words == CASE case = "ipv4" -> (field.ihl % 16) - 5
                 [] case = "tcp"  -> (field.data_offset % 16) - 5
                 [] OTHER         -> 0
  IN  IF words <= 0 THEN 0 ELSE IF words < rest THEN words ELSE rest

ParseHeader(case, data) ==
  LET size  == FixedSize(case, data)
      index == [f \in FieldsOf(case) |->
                  CHOOSE k \in DOMAIN Fields[case] : Fields[case][k] = f]
      field == [f \in FieldsOf(case) |->
                  IF index[f] <= size THEN data[index[f]] ELSE Missing]
      words == OptionsAnnounced(case, field, Len(data) - size)
  IN  [case |-> case, field |-> field,
       options |-> SubSeq(data, size + 1, size + words)]

-----------------------------------------------------------------------------
(* The values of computed fields *)

\* The complement of the sum of 16-bit words, in ones' complement: the carry
\* is added back until the sum fits into 16 bits.
OnesComplementChecksum(cells) ==
  LET sum == Total(cells)
  IN  IF sum = 0 THEN WordLimit - 1
      ELSE WordLimit - 2 - ((sum - 1) % (WordLimit - 1))

\* The checksum of a pseudo header and of the packet from the i-th header on,
\* in which the checksum itself counts as zero.
ChecksumFrom(packet, i, pseudo) ==
  LET zeroed == [packet EXCEPT !.headers[i] = WithField(@, "checksum", 0)]
      raw    == RawSerializePacket(From(zeroed, i))
  IN  IF raw = Undefined \/ \E k \in DOMAIN pseudo : pseudo[k] \notin Nat
      THEN Undefined ELSE OnesComplementChecksum(pseudo \o raw)

Ipv4HeaderChecksum(h) ==
  ChecksumFrom([headers |-> <<h>>, payload |-> <<>>], 1, <<>>)

\* Options of IPv6 are skipped.  Zero stands for a header before the first.
FindPrecedingIpHeader(packet, i) ==
  IF i > 1 /\ packet.headers[i - 1].case = "hop_by_hop" THEN i - 2 ELSE i - 1

UdpHeaderChecksum(packet, i) ==
  LET ip     == FindPrecedingIpHeader(packet, i)
      before == packet.headers[ip]
      length == packet.headers[i].field.length
  IN  CASE i = 1  -> Undefined
        [] i > 1 /\ ip = 0 -> OutOfBounds
        [] ip > 0 /\ before.case = "ipv4" ->
             ChecksumFrom(packet, i,
               <<before.field.addresses, before.field.protocol, length>>)
        [] ip > 0 /\ before.case = "ipv6" ->
             ChecksumFrom(packet, i, <<before.field.addresses, length, 17>>)
        [] ip > 0 /\ before.case = "psp" -> AnyValue
        [] OTHER -> Undefined

IcmpHeaderChecksum(packet, i) ==
  LET ip     == FindPrecedingIpHeader(packet, i)
      before == packet.headers[ip]
  IN  CASE i = 1  -> Undefined
        [] i > 1 /\ ip = 0 -> OutOfBounds
        [] ip > 0 /\ before.case = "ipv4" -> ChecksumFrom(packet, i, <<>>)
        [] ip > 0 /\ before.case = "ipv6" ->
             ChecksumFrom(packet, i,
               <<before.field.addresses, SizeFrom(packet, i), 58>>)
        [] OTHER -> Undefined

GreHeaderChecksum(packet, i) == ChecksumFrom(packet, i, <<>>)

HeaderChecksum(packet, i) ==
  CASE packet.headers[i].case = "ipv4" -> Ipv4HeaderChecksum(packet.headers[i])
    [] packet.headers[i].case = "udp"  -> UdpHeaderChecksum(packet, i)
    [] packet.headers[i].case = "icmp" -> IcmpHeaderChecksum(packet, i)
    [] packet.headers[i].case = "gre"  -> GreHeaderChecksum(packet, i)

\* The words of an IPv4 header, in the four bits of ihl.
Ihl(h) ==
  IF h.options = Malformed THEN Undefined ELSE (5 + Len(h.options)) % 16

DataOffset(packet, i) ==
  LET words == 5 + Len(packet.headers[i].options)
  IN  IF SizeFrom(packet, i) = Undefined \/ words > 15 THEN Undefined ELSE words

\* Lengths are kept in 16 bits, whatever the size.
Length(size) == IF size = Undefined THEN Undefined ELSE size % WordLimit

\* The fields that are computed, in the order in which they are.
ComputedFields == [
  ethernet    |-> <<"ethertype">>,
  ipv4        |-> <<"version", "ihl", "total_length", "checksum">>,
  ipv6        |-> <<"version", "payload_length">>,
  hop_by_hop  |-> <<"header_extension_length", "options_and_padding">>,
  udp         |-> <<"length", "checksum">>,
  arp         |-> Fields.arp,
  icmp        |-> <<"checksum">>,
  tcp         |-> <<"data_offset">>,
  gre         |-> <<"checksum", "reserved1">>,
  packet_in   |-> <<"unused_pad">>,
  ipfix       |-> <<"length">>,
  psamp       |-> <<"length", "variable_length", "packet_sampled_length">>,
  ptp         |-> <<"message_length">> ]

(* Mutant of the next definition: the checksum of IPv4 comes first.         *)
ChecksumFirst(h) ==
  CASE h.case = "ipv4" -> <<"checksum", "version", "ihl", "total_length">>
    [] h.case = "gre" /\ ~HasOptionals(h) -> <<>>
    [] h.case \notin DOMAIN ComputedFields -> <<>>
    [] OTHER -> ComputedFields[h.case]

ComputedFieldsOf(h) ==
  IF h.case \notin DOMAIN ComputedFields \/ (h.case = "gre" /\ ~HasOptionals(h))
  THEN <<>> ELSE ComputedFields[h.case]

IsComputed(h, f) ==
  \E k \in DOMAIN ComputedFieldsOf(h) : ComputedFieldsOf(h)[k] = f

\* Fields that always get the same value; options_and_padding gets one
\* option, of four bytes of padding.
ConstantValue == [
  hardware_type           |-> 1,
  protocol_type           |-> 2048,
  hardware_length         |-> 6,
  protocol_length         |-> 4,
  header_extension_length |-> 0,
  options_and_padding     |-> 260,
  reserved1               |-> 0,
  unused_pad              |-> 0,
  variable_length         |-> 255 ]

(* Mutant of the next definition: the header itself is counted, too.        *)
HeaderIncluded(i, f) == i

\* Where the part of the packet begins that a length counts.
CountedFrom(i, f) ==
  IF f \in {"payload_length", "packet_sampled_length"} THEN i + 1 ELSE i

\* What a computed field should be, by the rest of the packet.
ComputedValue(packet, i, f) ==
  LET h == packet.headers[i]
  IN  CASE f = "ethertype" ->
             LET size == SizeFrom(packet, i + 1)
             IN  IF size = Undefined \/ size > Mtu THEN Undefined ELSE size
        [] f = "version" -> IF h.case = "ipv4" THEN 4 ELSE 6
        [] f = "ihl" -> Ihl(h)
        [] f \in {"length", "total_length", "message_length",
                  "payload_length", "packet_sampled_length"} ->
             Length(SizeFrom(packet, CountedFrom(i, f)))
        [] f = "checksum" -> HeaderChecksum(packet, i)
        [] f = "data_offset" -> DataOffset(packet, i)
        [] OTHER -> ConstantValue[f]

-----------------------------------------------------------------------------
(* Validity *)

\* TCP has no place for more than ten words; IPv4 is not asked.
OptionsValid(h) ==
  h.options # Malformed /\ (h.case = "tcp" => Len(h.options) <= 10)

\* The first bit of a GRE header decides about its optional fields.  The
\* protocol is not looked at.
GreFieldsValid(h) ==
  /\ \A f \in {"checksum_present", "reserved0", "version"} : h.field[f] \in Nat
  /\ h.field.reserved0 = 0 /\ h.field.version = 0
  /\ \A f \in GreOptionals :
       IF HasOptionals(h) THEN h.field[f] \in Nat ELSE h.field[f] = Missing

\* Every field is there and well formed.
FieldsValid(h) ==
  /\ h.case # "not_set"
  /\ OptionsValid(h)
  /\ IF h.case = "gre" THEN GreFieldsValid(h)
     ELSE \A f \in FieldsOf(h.case) : h.field[f] \in Nat

\* An EtherType that is a size is that of the payload; a payload that is not
\* announced by its size is long enough.
EthernetValid(packet, i) ==
  LET size      == SizeFrom(packet, i + 1)
      ethertype == packet.headers[i].field.ethertype
  IN  /\ size # Undefined
      /\ IF ethertype <= Mtu THEN ethertype = size ELSE size >= MinPayload

\* Zero is a UDP checksum that says nothing.
UdpChecksumValid(packet, i) ==
  LET computed == UdpHeaderChecksum(packet, i)
      checksum == packet.headers[i].field.checksum
  IN  computed # Undefined /\ (\/ checksum = 0
                              \/ computed = AnyValue
                              \/ checksum = computed)

\* The options of IPv6 are not compared with anything.
ComputedFieldValid(packet, i, f) ==
  LET h == packet.headers[i]
  IN  CASE h.case = "ethernet" -> EthernetValid(packet, i)
        [] h.case = "hop_by_hop" -> TRUE
        [] h.case = "udp" /\ f = "checksum" -> UdpChecksumValid(packet, i)
        [] OTHER -> h.field[f] = ComputedValue(packet, i, f)

\* Each header is the one the header before it demands, and none is missing.
OrderValid(headers) ==
  /\ \A i \in 2 .. Len(headers) :
       headers[i].case = ExpectedHeaderCase(headers[i - 1])
  /\ headers # <<>> => ExpectedHeaderCase(headers[Len(headers)]) = "not_set"

\* The packet has no PacketInvalidReasons.
PacketValid(packet) ==
  /\ packet.headers # <<>> \/ packet.payload # <<>>
  /\ \A i \in DOMAIN packet.headers :
       LET h == packet.headers[i]
       IN  /\ FieldsValid(h)
           /\ \A k \in DOMAIN ComputedFieldsOf(h) :
                ComputedFieldValid(packet, i, ComputedFieldsOf(h)[k])
  /\ OrderValid(packet.headers)

\* Validation does not answer: it takes the value of an EtherType that could
\* not be read, or the header before the first.
ValidationFails(packet) ==
  \E i \in DOMAIN packet.headers :
    LET h == packet.headers[i]
    IN  \/ /\ h.case = "ethernet"
           /\ h.field.ethertype \notin Nat
           /\ SizeFrom(packet, i + 1) # Undefined
        \/ /\ h.case \in {"udp", "icmp"}
           /\ i > 1 /\ FindPrecedingIpHeader(packet, i) = 0
           /\ h.case = "udp" => h.field.checksum \in Nat

-----------------------------------------------------------------------------
(* The trailer of an Ethernet frame: what follows the packet that the IP    *)
(* header counts.                                                          *)

LowerHeaders == {"vlan", "csig", "csig_wide"}

\* The first header after the Ethernet header that is not a lower one.
IsUpperHeader(packet, i) ==
  /\ i \in 2 .. Len(packet.headers)
  /\ packet.headers[i].case \notin LowerHeaders
  /\ \A j \in 2 .. i - 1 : packet.headers[j].case \in LowerHeaders

\* The part of the packet after what the IP header counts.  With an ARP
\* header the whole packet is returned.
GetEthernetTrailer(packet) ==
  LET raw == RawSerializePacket(packet)
      After(counted, actual) ==
        IF counted \notin Nat \/ actual = Undefined THEN Undefined
        ELSE IF actual < counted THEN <<>>
        ELSE SubSeq(raw, Len(raw) - (actual - counted) + 1, Len(raw))
  IN  IF \/ packet.headers = <<>> \/ packet.headers[1].case # "ethernet"
         \/ ~ \E i \in DOMAIN packet.headers : IsUpperHeader(packet, i)
         \/ raw = Undefined
      THEN Undefined
      ELSE LET i == CHOOSE i \in DOMAIN packet.headers : IsUpperHeader(packet, i)
               h == packet.headers[i]
           IN  CASE h.case = "ipv4" ->
                      After(h.field.total_length, SizeFrom(packet, i))
                 [] h.case = "ipv6" ->
                      After(h.field.payload_length, SizeFrom(packet, i + 1))
                 [] h.case = "arp" -> raw
                 [] OTHER -> Undefined
=============================================================================
