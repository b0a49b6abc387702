------------------------------ MODULE MCPackets ------------------------------
(***************************************************************************)
(* Small packets for the model checker: stacks of headers in which the     *)
(* fields that are not computed are given, and the same with every field   *)
(* computed.                                                               *)
(***************************************************************************)
EXTENDS Packets

\* A header in which only some fields are set.
Header(case, given, options) ==
  [case |-> case,
   field |-> [f \in FieldsOf(case) |->
                IF f \in DOMAIN given THEN given[f] ELSE Missing],
   options |-> options]

Ethernet(next) == Header("ethernet", [ethertype |-> next], <<>>)
Ipv4(next) == Header("ipv4", [protocol |-> next, addresses |-> 7], <<>>)
Ipv4WithOptions(next, words) ==
  Header("ipv4", [protocol |-> next, addresses |-> 7],
         [k \in 1 .. words |-> k % 2])
Ipv6(next) == Header("ipv6", [next_header |-> next, addresses |-> 9], <<>>)
HopByHop(next) == Header("hop_by_hop", [next_header |-> next], <<>>)
Udp(port) == Header("udp", [destination_port |-> port], <<>>)
Tcp(words) == Header("tcp", <<>>, [k \in 1 .. words |-> k % 2])
Gre(present, next, reserved1) ==
  Header("gre", [checksum_present |-> present, reserved0 |-> 0, version |-> 0,
                 protocol_type |-> next, reserved1 |-> reserved1], <<>>)
Psp(next, offset, cookie) ==
  Header("psp", [next_header |-> next, crypt_offset |-> offset,
                 virtualization_cookie_present |-> cookie], <<>>)
Vlan(case, next) == Header(case, [ethertype |-> next], <<>>)
Plain(case) == Header(case, [op_code |-> 0], <<>>)

Stacks == {
  <<Ethernet(Missing)>>,
  <<Ethernet(2054), Plain("arp")>>,
  <<Ethernet(2048), Ipv4WithOptions(6, 2), Tcp(1)>>,
  <<Ethernet(33024), Vlan("vlan", 39168), Vlan("csig", 39169),
    Vlan("csig_wide", 2048), Ipv4(253)>>,
  <<Ethernet(2048), Ipv4(17), Udp(4739), Plain("ipfix"), Plain("psamp")>>,
  <<Ethernet(2048), Ipv4(47), Gre(1, 2048, 0), Ipv4(1), Plain("icmp")>>,
  <<Ethernet(2048), Ipv4(4), Ipv4(41), Ipv6(47), Gre(0, 35063, Missing),
    Plain("ptp")>>,
  <<Ethernet(34525), Ipv6(0), HopByHop(17), Udp(1000), Psp(17, 2, 0), Udp(5)>>,
  <<Ethernet(34525), Ipv6(0), HopByHop(58), Plain("icmp")>>,
  <<Ethernet(34525), Ipv6(17), Udp(1000), Psp(17, 2, 1)>>,
  <<Plain("packet_in"), Ethernet(2048), Ipv4(17), Udp(4791), Plain("ib_bth")>>,
  <<HopByHop(17), Udp(5)>> }

\* Updates of the fields of one header, and of all, innermost first.
Filled(packet, i) ==
  LET fields == ComputedFieldsOf(packet.headers[i])
      done[k \in 0 .. Len(fields)] ==
        IF k = 0 THEN packet
        ELSE LET p == done[k - 1]
                 value == ComputedValue(p, i, fields[k])
             IN  IF p.headers[i].field[fields[k]] # Missing THEN p
                 ELSE [p EXCEPT !.headers[i] =
                         WithField(@, fields[k],
                                   IF value \in Nat THEN value ELSE 0)]
  IN  done[Len(fields)]

Completed(packet) ==
  LET n == Len(packet.headers)
      done[i \in 1 .. n + 1] ==
        IF i = n + 1 THEN packet ELSE Filled(done[i + 1], i)
  IN  done[1]

Payload(size) == [k \in 1 .. size |-> 1]
=============================================================================
