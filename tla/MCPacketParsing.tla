--------------------------- MODULE MCPacketParsing ---------------------------
(***************************************************************************)
(* Small instances of PacketParsing: packets cut short anywhere, and       *)
(* packets in which a cell has another value.                              *)
(***************************************************************************)
EXTENDS PacketParsing, MCPackets

CONSTANTS OptionWords  \* words of options of one IPv4 header

MCSent ==
  {Completed([headers |-> s, payload |-> Payload(MinPayload)]) :
     s \in Stacks \cup
           {<<Ethernet(2048), Ipv4WithOptions(17, OptionWords), Udp(5)>>}}

MCSerialized == {RawSerializePacket(p) : p \in MCSent}

MCInputs ==
  UNION {LET n == Len(raw)
         IN  {SubSeq(raw, 1, k) : k \in 0 .. n}
             \cup {[raw EXCEPT ![k] = v] : k \in 1 .. n, v \in {0, 1}} :
           raw \in MCSerialized}

MCFirstHeaders == {"ethernet", "packet_in", "hop_by_hop"}
=============================================================================
