-------------------------------- MODULE IrValues --------------------------------
(***************************************************************************)
(* Values on the wire and values of the IR (p4_pdpi/ir_utils.cc).  On the  *)
(* wire a value is a byte string, here the number it encodes and its       *)
(* length: leading zeros do not change what it means.  In the IR it is a   *)
(* string with a format:                                                   *)
(*   MAC_ADDRESS, IPV4_ADDRESS, IPV6_ADDRESS  an address, size its bits    *)
(*   HEX_STRING   a hexadecimal number, size its digits                    *)
(*   STRING       text, the same bytes as on the wire, size their number   *)
(*   NOT_SET      nothing                                                  *)
(* A string that does not parse is like one of a wrong size.               *)
(***************************************************************************)
EXTENDS IrP4Infos

CONSTANT BitsPerNibble  \* kNumBitsInNibble, 4; a byte has two nibbles

ASSUME BitsAreCounted ==
  /\ BitsPerNibble \in Nat \ {0}
  /\ \A f \in {"MAC_ADDRESS", "IPV4_ADDRESS", "IPV6_ADDRESS"} : AddressBits[f] \in Nat \ {0}

BitsPerByte == 2 * BitsPerNibble

AddressFormats == {"MAC_ADDRESS", "IPV4_ADDRESS", "IPV6_ADDRESS"}

Ceiling(m, n) == (m + n - 1) \div n

TwoTo[n \in Nat] == IF n = 0 THEN 1 ELSE 2 * TwoTo[n - 1]

BitwiseAnd(left, right) ==
  LET and[m \in Nat, n \in Nat] ==
        IF m = 0 THEN 0 ELSE (m % 2) * (n % 2) + 2 * and[m \div 2, n \div 2]
  IN  and[left, right]

------------------------------------------------------------------------------
(* Byte strings                                                            *)

Bytes(size, number) == [size |-> size, number |-> number]

Fits(bytes, bits) == bytes.size # 0 /\ bytes.number < TwoTo[bits]

ArbitraryToNormalizedByteString(bytes, bits) ==
  IF Fits(bytes, bits) THEN Bytes(Ceiling(bits, BitsPerByte), bytes.number) ELSE Refused

(* Zero is one byte.                                                        *)
ArbitraryToCanonicalByteString(bytes) ==
  [bytes EXCEPT !.size =
     Min({n \in 1 .. bytes.size : bytes.number < TwoTo[BitsPerByte * n]})]

IsAllZeros(bytes) == bytes.number = 0

Intersection(left, right) ==
  IF left.size # right.size THEN Refused ELSE Bytes(left.size, BitwiseAnd(left.number, right.number))

(* The bits of an incomplete first byte are set whatever the prefix length. *)
PrefixLenToMask(prefix, bits) ==
  LET first == bits % BitsPerByte
      rest  == bits - first
      ones  == Larger(prefix - first, 0)
  IN  IF prefix > bits THEN Refused
      ELSE Bytes(Ceiling(bits, BitsPerByte), (TwoTo[first] - 1) * TwoTo[rest] + (TwoTo[ones] - 1) * TwoTo[rest - ones])

(* Text is UTF-8 here if no byte has its highest bit set.                   *)
IsStructurallyValid(bytes) ==
  \A n \in 1 .. bytes.size :
    (bytes.number \div TwoTo[BitsPerByte * n - 1]) % 2 = 0

------------------------------------------------------------------------------
(* Translation of values                                                   *)

IrValue(format, size, number) == [format |-> format, size |-> size, number |-> number]

(* Mutant of the next definition: an IPv6 address is always read whole.     *)
ArbitraryByteStringToWholeAddress(format, bits, bytes) ==
  CASE format \in AddressFormats ->
         IF Fits(bytes, AddressBits[format])
         THEN IrValue(format, AddressBits[format], bytes.number) ELSE Refused
    [] format = "STRING" ->
         IF bytes.size # 0 /\ IsStructurallyValid(bytes)
         THEN IrValue(format, bytes.size, bytes.number) ELSE Refused
    [] format = "HEX_STRING" ->
         IF Fits(bytes, bits)
         THEN IrValue(format, Ceiling(bits, BitsPerNibble), bytes.number) ELSE Refused

(* An IPv6 address of fewer bits is the upper part of an address.           *)
ArbitraryByteStringToIrValue(format, bits, bytes) ==
  CASE format \in {"MAC_ADDRESS", "IPV4_ADDRESS"} ->
         IF Fits(bytes, AddressBits[format])
         THEN IrValue(format, AddressBits[format], bytes.number) ELSE Refused
    [] format = "IPV6_ADDRESS" ->
         IF Fits(bytes, AddressBits[format]) /\ Fits(bytes, bits)
         THEN IrValue(format, AddressBits[format], bytes.number * TwoTo[AddressBits[format] - bits])
         ELSE Refused
    [] format = "STRING" ->
         IF bytes.size # 0 /\ IsStructurallyValid(bytes)
         THEN IrValue(format, bytes.size, bytes.number) ELSE Refused
    [] format = "HEX_STRING" ->
         IF Fits(bytes, bits)
         THEN IrValue(format, Ceiling(bits, BitsPerNibble), bytes.number) ELSE Refused

ValidateIrValueFormat(value, format, options) ==
  /\ value.format # "NOT_SET"
  /\ value.format = format \/ options.allow_arbitrary_format

(* The first bits of an address, and the others.  More bits than it has are *)
(* a negative shift, after which there is nothing left.                     *)
UpperBits(address, bits) ==
  IF bits > address.size THEN 0 ELSE address.number \div TwoTo[address.size - bits]

LowerBits(address, bits) ==
  IF bits > address.size THEN 0 ELSE address.number % TwoTo[address.size - bits]

(* Only hexadecimal numbers have to fit into the bits; the lowest bits of   *)
(* an IPv6 address that are not among them have to be zero.                 *)
IrValueToNormalizedByteString(value, bits) ==
  LET address == value.format \in AddressFormats /\ value.size = AddressBits[value.format]
  IN  CASE value.format \in {"MAC_ADDRESS", "IPV4_ADDRESS"} ->
             IF address THEN Bytes(Ceiling(value.size, BitsPerByte), value.number) ELSE Refused
        [] value.format = "IPV6_ADDRESS" ->
             IF address /\ LowerBits(value, bits) = 0
             THEN Bytes(Ceiling(value.size, BitsPerByte), UpperBits(value, bits))
             ELSE Refused
        [] value.format = "STRING" ->
             IF value.size # 0 THEN Bytes(value.size, value.number) ELSE Refused
        [] value.format = "HEX_STRING" ->
             IF value.size = Ceiling(bits, BitsPerNibble)
             THEN ArbitraryToNormalizedByteString(Bytes(value.size, value.number), bits)
             ELSE Refused
        [] OTHER -> Refused

(* What is sent for a value of the IR: canonical, but for text.             *)
PiValue(format, bits, value, options) ==
  LET bytes == IrValueToNormalizedByteString(value, bits)
  IN  IF ~ValidateIrValueFormat(value, format, options) \/ bytes = Refused THEN Refused
      ELSE IF format = "STRING" THEN bytes
      ELSE ArbitraryToCanonicalByteString(bytes)

=============================================================================
