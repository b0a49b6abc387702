---------------------------- MODULE PacketParsing ----------------------------
(***************************************************************************)
(* ParsePacket: cells are consumed from the front of the data, header by   *)
(* header, as each header demands the next.  What is left is the payload.  *)
(* Parsing is total: a packet that ends too early, demands a header that   *)
(* is not supported or is invalid is parsed as far as it can be, and says  *)
(* so.                                                                     *)
(***************************************************************************)
EXTENDS Packets

CONSTANTS
  Inputs,       \* sequences of cells to be parsed
  FirstHeaders, \* kinds of headers that parsing may be told to start with
  Sent          \* packets that some of the inputs may be serialized from

ASSUME InputsAreCells == Inputs \subseteq Seq(Nat)

ASSUME FirstHeadersExist == FirstHeaders \subseteq HeaderCases

ASSUME SentArePackets == \A p \in Sent : IsPacket(p)

VARIABLES
  input,                    \* the data that the caller passed
  first_header,             \* where the caller told parsing to start
  data,                     \* the cells not yet consumed
  next_header,              \* the kind of header to be parsed next
  packet,                   \* the packet so far
  reason_not_fully_parsed,  \* whether a feature was not supported
  reasons_invalid,          \* whether there is any reason
  status                    \* "parsing", "done", or "failed" in validation

vars == <<input, first_header, data, next_header, packet,
          reason_not_fully_parsed, reasons_invalid, status>>

Init ==
  /\ input \in Inputs
  /\ first_header \in FirstHeaders
  /\ data = input
  /\ next_header = first_header
  /\ packet = [headers |-> <<>>, payload |-> <<>>]
  /\ reason_not_fully_parsed = FALSE
  /\ reasons_invalid = FALSE
  /\ status = "parsing"

\* One turn of the loop: the header is taken off the data.  That its fields
\* cannot be read ("error") does not happen to a header just parsed.
ParseNextHeader ==
  /\ status = "parsing"
  /\ next_header # "not_set"
  /\ LongEnough(next_header, data)
  /\ LET header == ParseHeader(next_header, data)
         size   == Len(SerializeHeader(header))
     IN  /\ packet' = [packet EXCEPT !.headers = Append(@, header)]
         /\ data' = SubSeq(data, size + 1, Len(data))
         /\ next_header' = ExpectedHeaderCase(header)
         /\ reason_not_fully_parsed' = (GetNextHeader(header) = "unsupported")
  /\ UNCHANGED <<input, first_header, reasons_invalid, status>>

(* Mutants of the next definition: a packet too short is left to validation; *)
(* and it is waited for more data.                                           *)
ParsePayloadSilently ==
  LET result == [packet EXCEPT !.payload = data]
  IN  /\ status = "parsing"
      /\ next_header = "not_set" \/ ~LongEnough(next_header, data)
      /\ packet' = result
      /\ status' = IF ValidationFails(result) THEN "failed" ELSE "done"
      /\ reasons_invalid' = (~ValidationFails(result) /\ ~PacketValid(result))
      /\ UNCHANGED <<input, first_header, data, next_header,
                     reason_not_fully_parsed>>

ParsePayloadAtEnd == next_header = "not_set" /\ ParsePayloadSilently

\* The loop ends: no header follows, or the data is too short for it, which is
\* a reason for the packet to be invalid.  The payload is what is left, and
\* the packet is validated.
ParsePayload ==
  LET short  == next_header # "not_set"
      result == [packet EXCEPT !.payload = data]
  IN  /\ status = "parsing"
      /\ short => ~LongEnough(next_header, data)
      /\ packet' = result
      /\ IF ValidationFails(result)
         THEN status' = "failed" /\ UNCHANGED reasons_invalid
         ELSE /\ status' = "done"
              /\ reasons_invalid' = (short \/ ~PacketValid(result))
      /\ UNCHANGED <<input, first_header, data, next_header,
                     reason_not_fully_parsed>>

Next == ParseNextHeader \/ ParsePayload

Spec == Init /\ [][Next]_vars /\ WF_vars(Next)

-----------------------------------------------------------------------------
(* Properties *)

\* Parsing loses nothing, at any point: the headers parsed so far, serialized
\* as they are, and what has not been consumed are the input, even when
\* options end early or optional fields are absent.  (packetlib.h, guarantee 2
\* of ParsePacket)
ParsingIsLossless ==
  RawSerializePacket(packet)
    = IF status = "parsing" THEN SubSeq(input, 1, Len(input) - Len(data))
      ELSE input

\* Every header that is supported is parsed: when parsing is over, either the
\* last header demands none that is supported, or there is too little data for
\* it, and then the packet is said to be invalid.  (guarantee 3)
SupportedHeadersAreParsed ==
  LET headers  == packet.headers
      demanded == IF headers = <<>> THEN first_header
                  ELSE ExpectedHeaderCase(headers[Len(headers)])
  IN  status # "parsing" /\ demanded # "not_set" =>
        /\ ~LongEnough(demanded, packet.payload)
        /\ status = "done" => reasons_invalid

\* A valid packet that is serialized and parsed comes back as it was, and is
\* still found valid.  (ParsePacket, RawSerializePacket, PacketInvalidReasons)
PacketsComeBack ==
  \A p \in Sent :
    /\ status = "done"
    /\ p.headers # <<>> /\ p.headers[1].case = first_header
    /\ ~ValidationFails(p) /\ PacketValid(p)
    /\ RawSerializePacket(p) = input
    => packet = p /\ ~reasons_invalid

\* Parsing ends, although nested headers may demand each other forever.
ParsingEnds == <>(status # "parsing")
=============================================================================
