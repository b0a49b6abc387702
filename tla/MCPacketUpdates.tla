--------------------------- MODULE MCPacketUpdates ---------------------------
(***************************************************************************)
(* Small instances of PacketUpdates: packets with the computed fields      *)
(* missing, and one edit at any place before or between the calls.         *)
(***************************************************************************)
EXTENDS PacketUpdates, MCPackets

PacketsOver(stacks, sizes) ==
  {[headers |-> s, payload |-> Payload(n)] : s \in stacks, n \in sizes}

MCInitialPackets ==
  PacketsOver(Stacks \ {<<Ethernet(Missing)>>}, {1})
  \cup PacketsOver({<<Ethernet(Missing)>>}, {1, 5})
  \cup {Completed(p) : p \in PacketsOver({
           <<Ethernet(2048), Ipv4(17), Udp(4739), Plain("ipfix")>>,
           <<Ethernet(34525), Ipv6(17), Udp(1000), Psp(17, 2, 1)>>}, {1})}
  \cup PacketsOver({<<Ethernet(2048), Ipv4(1), Header("not_set", <<>>, <<>>)>>,
                    <<Ethernet(2048),
                      Header("ipv4", [protocol |-> 6, addresses |-> 7],
                             Malformed), Tcp(0)>>}, {1})

\* An EtherType that is missing before another header.
MCEtherTypeMissing == PacketsOver({<<Ethernet(Missing), Ipv4(253)>>}, {1})

\* A GRE header with its optional fields.
MCGre ==
  PacketsOver({<<Ethernet(2048), Ipv4(47), Gre(1, 2048, 0), Ipv4(253)>>}, {1})

MCEditValues == {Missing, Malformed, 0, 1}
=============================================================================
