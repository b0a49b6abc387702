---------------------------- MODULE MCProgramLoading ----------------------------
(***************************************************************************)
(* P4Infos of a few roles of one switch, and variations of them: every     *)
(* kind of reference, of contradiction between roles, and of mistake that  *)
(* CreateIrP4Info refuses.                                                 *)
(***************************************************************************)
EXTENDS ProgramLoading, MCP4Infos

MCAddressBits == [MAC_ADDRESS |-> 48, IPV4_ADDRESS |-> 32, IPV6_ADDRESS |-> 128]

------------------------------------------------------------------------------
(* Actions, tables and the roles that own them                             *)

NoAction  == Action(1, "no_action", << >>)
SetRif    == Action(2, "set_rif", <<Element(1, "rif", {RefersToField("rif", "rif_id")})>>)
SetGroup  == Action(3, "set_group",
               <<Element(1, "group", {RefersToField("builtin::multicast_group_table", "multicast_group_id")})>>)
SetPort   == Action(4, "set_port", <<Typed(Element(1, "port", {}), "port_t")>>)
OldSetRif == Action(5, "old_set_rif", <<Element(1, "rif", {RefersToField("rif", "rif_id")})>>)
NoLonger(element) == [element EXCEPT !.annotations = @ \cup {Unsupported}]

Rif == Table(1, "rif",
  <<Field(1, "rif_id", "EXACT", {ReferencedBy("builtin::multicast_group_table", "replica.port")})>>,
  <<Ref(4), DefaultOnly(1)>>)
Neighbor == Table(2, "neighbor",
  <<Field(1, "rif_id", "EXACT", {RefersToField("rif", "rif_id")}),
    Field(2, "ip", "OPTIONAL", {RefersToField("rif", "rif_id")})>>, <<Ref(1)>>)
Nexthop == Table(3, "nexthop", <<Field(1, "id", "EXACT", {})>>, <<Ref(2), Ref(5)>>)
Acl == Table(4, "acl", <<Field(1, "vrf", "TERNARY", {})>>, <<Ref(3)>>)
Wcmp == [Table(5, "wcmp", <<Field(1, "id", "EXACT", {})>>, <<Ref(2)>>) EXCEPT
           !.implementation_id = 1, !.annotations = {Annotation("oneshot", << >>)}]

PortType == [port_t |-> "sdn_string"]

Routing == [Info(<<Rif, Nexthop>>, <<NoAction, SetRif, SetPort, NoLonger(OldSetRif)>>) EXCEPT
              !.new_types = PortType,
              !.direct_counters = <<[id |-> 1, table_id |-> 3, unit |-> "BOTH"]>>,
              !.direct_meters = <<[id |-> 2, table_id |-> 1]>>]
Neighbors == [Info(<<Neighbor, [Rif EXCEPT !.size = 4]>>, <<SetPort, NoAction>>) EXCEPT
                !.new_types = PortType,
                !.pkg_info.platform_properties = {[size |-> 1, replicas |-> 2, max_replicas |-> 3]}]
Acls == [Info(<<Acl>>, <<SetGroup>>) EXCEPT
           !.pkg_info.platform_properties = {[size |-> 2, replicas |-> 1, max_replicas |-> 3]},
           !.controller_packet_metadata =
              <<[id |-> 1, name |-> "packet_in", metadata |-> <<Element(1, "ingress", {}), Element(2, "unused", {Annotation("padding", << >>)})>>],
                [id |-> 2, name |-> "packet_out", metadata |-> <<Element(1, "egress", {})>>]>>]
Balancing == [Info(<<Wcmp, Rif>>, <<SetRif, SetPort, NoAction>>) EXCEPT
                !.new_types = PortType,
                !.action_profiles = <<Profile(1, "wcmp_group", {5})>>]

WithProfile(info, profile) == [info EXCEPT !.action_profiles = <<profile>>]
WithTable(info, i, table) == [info EXCEPT !.tables[i] = table]
WithAction(info, i, action) == [info EXCEPT !.actions[i] = action]
WithField(table, field) == [table EXCEPT !.match_fields = Append(@, field)]

(* Counters of their own for the next hops, the last one in this unit.      *)
Counting(info, unit) ==
  [info EXCEPT !.direct_counters = <<[id |-> 3, table_id |-> 3, unit |-> "PACKETS"],
                                     [id |-> 4, table_id |-> 3, unit |-> unit]>>]

Group(semantics, weight, size) ==
  [Profile(1, "wcmp_group", {5}) EXCEPT
     !.size_semantics = semantics, !.max_member_weight = weight, !.max_group_size = size]

(* Roles that differ from the ones above without contradicting them.        *)
Variations == {
  WithProfile(Balancing, Group("sum_of_weights", 0, 4)),
  WithProfile(Balancing, Group("sum_of_members", 3, 1)),
  WithProfile(Balancing, Group("sum_of_members", 5, 1)),
  WithTable(Routing, 2, NoLonger([Nexthop EXCEPT !.direct_resource_ids = {1}])),
  WithTable(Routing, 1, NoLonger(Rif)),
  WithTable(Acls, 1, WithField(Acl, Field(2, "port", "EXACT", {Unsupported}))),
  Counting(Routing, "BOTH"), Counting(Routing, "BYTES")}

(* Roles that contradict them.                                              *)
Contradictions == {
  WithTable(Routing, 1, [Rif EXCEPT !.name = "interface"]),
  WithTable(Routing, 1, [Rif EXCEPT !.structured = TRUE]),
  WithTable(Neighbors, 1, [Neighbor EXCEPT !.match_fields[2].match_type = "EXACT"]),
  WithTable(Neighbors, 1, [Neighbor EXCEPT !.match_fields[1] = NoLonger(@)]),
  WithTable(Neighbors, 1, [Neighbor EXCEPT !.match_fields[2] = NoLonger(@)]),
  WithTable(Neighbors, 2, [Rif EXCEPT !.match_fields[1] = NoLonger(@)]),
  WithTable(Neighbors, 2, [Rif EXCEPT !.other_properties = TRUE]),
  WithTable(Routing, 2, [Nexthop EXCEPT !.const_default_action_id = 2]),
  WithTable(Routing, 2, [Nexthop EXCEPT !.const_default_action_id = 5]),
  WithAction(Routing, 3, [SetPort EXCEPT !.params[1].bitwidth = 9]),
  WithProfile(Balancing, Profile(1, "wcmp_group", {})),
  WithProfile(Balancing, [Profile(1, "wcmp_group", {5}) EXCEPT !.weights_disallowed = TRUE]),
  [Routing EXCEPT !.new_types = [port_t |-> "bits"]],
  [Acls EXCEPT !.pkg_info.arch = "v2"],
  [Acls EXCEPT !.pkg_info = EmptyPkgInfo],
  [Acls EXCEPT !.other_types = TRUE],
  [Acls EXCEPT !.externs = TRUE],
  [Acls EXCEPT !.others = <<[id |-> 1, name |-> "a"], [id |-> 1, name |-> "b"]>>],
  WithProfile(Balancing, [Group("sum_of_members", 3, 1) EXCEPT !.modes = {
    << [key |-> "size_semantics", value |-> "sum_of_members"],
       [key |-> "size_semantics", value |-> "sum_of_weights"],
       [key |-> "max_member_weight", value |-> "number"] >>}]),
  WithProfile(Balancing, [Group("sum_of_members", 3, 1) EXCEPT !.modes = {
    << [key |-> "max_member_weight", value |-> "number"],
       [key |-> "size_semantics", value |-> "sum_of_members"] >>}])}

------------------------------------------------------------------------------
(* Programs that are merged but not created, one mistake each, and programs *)
(* that just escape one.                                                    *)

RifWith(field) == WithTable(Routing, 1, WithField(Rif, field))
NexthopWith(field) == WithTable(Routing, 2, WithField(Nexthop, field))
ParamWith(annotations) == WithAction(Routing, 2, [SetRif EXCEPT !.params[1].annotations = annotations])

Mistakes == {
  RifWith(Field(1, "other", "EXACT", {})),
  RifWith(Field(2, "rif_id", "EXACT", {})),
  RifWith(Field(2, "range", "RANGE", {})),
  RifWith(Typed(Field(2, "port", "TERNARY", {}), "port_t")),
  RifWith(Typed(Field(2, "port", "EXACT", {}), "unknown_t")),
  RifWith(Typed(Field(2, "port", "EXACT", {Annotation("format", <<"IPV4_ADDRESS">>)}), "port_t")),
  RifWith(Field(2, "mac", "EXACT", {Annotation("format", <<"MAC_ADDRESS">>)})),
  RifWith(Wide(Field(2, "mac", "EXACT", {Annotation("format", <<"MAC_ADDRESS">>)}), 48)),
  RifWith(Wide(Field(2, "ip", "LPM", {Annotation("format", <<"IPV6_ADDRESS">>)}), 128)),
  RifWith(Field(2, "ip", "LPM", {Annotation("format", <<"IPV4_ADDRESS">>), Annotation("format", <<"IPV6_ADDRESS">>)})),
  NexthopWith(Field(2, "r", "EXACT", {Annotation("refers_to", <<"rif">>)})),
  NexthopWith(Field(2, "r", "EXACT", {RefersToField("rif", "unknown")})),
  NexthopWith(Field(2, "r", "EXACT", {RefersToField("unknown", "rif_id")})),
  NexthopWith(Field(2, "r", "TERNARY", {RefersToField("rif", "rif_id")})),
  NexthopWith(Field(2, "r", "EXACT", {RefersToField("builtin::clone_session_table", "multicast_group_id")})),
  NexthopWith(Field(2, "r", "EXACT", {RefersToField("builtin::multicast_group_table", "replica.port")})),
  NexthopWith(Field(2, "r", "OPTIONAL", {RefersToField("rif", "rif_id")})),
  NexthopWith(Field(2, "r", "EXACT", {ReferencedBy("rif", "rif_id")})),
  NexthopWith(Field(2, "r", "EXACT", {ReferencedBy("builtin::clone_session_table", "replica.port")})),
  NexthopWith(Field(2, "r", "OPTIONAL", {ReferencedBy("builtin::multicast_group_table", "replica.port")})),
  NexthopWith(Field(2, "r", "EXACT", {ReferencedBy("builtin::multicast_group_table", "multicast_group_id")})),
  RifWith(Field(2, "next", "EXACT", {RefersToField("nexthop", "id")})),
  RifWith(Field(2, "self", "EXACT", {RefersToField("rif", "rif_id")})),
  WithTable(Neighbors, 2, WithField(Rif, Field(2, "peer", "EXACT", {RefersToField("neighbor", "ip")}))),
  ParamWith({ReferencedBy("builtin::multicast_group_table", "replica.port")}),
  ParamWith({RefersToField("set_port", "port")}),
  WithAction(Routing, 1, Action(2, "no_action", << >>)),
  WithAction(Routing, 1, Action(1, "set_rif", << >>)),
  WithAction(Routing, 2, [SetRif EXCEPT !.params = Append(@, Element(1, "again", {}))]),
  WithTable(Routing, 2, [Nexthop EXCEPT !.annotations = {Annotation("oneshot", << >>)}]),
  WithTable(Routing, 2, [Nexthop EXCEPT !.action_refs[1].annotations = {}]),
  WithTable(Routing, 2, [Nexthop EXCEPT !.action_refs[1].annotations = {ProtoId("1"), ProtoId("2")}]),
  WithTable(Routing, 2, [Nexthop EXCEPT !.action_refs = <<Ref(9)>>]),
  WithTable(Routing, 2, [Nexthop EXCEPT !.action_refs[1] = DefaultOnly(2)]),
  WithTable(Routing, 2, [Nexthop EXCEPT !.const_default_action_id = 4]),
  WithTable(Routing, 1, [Rif EXCEPT !.const_default_action_id = 1]),
  WithTable(Routing, 2, [Nexthop EXCEPT !.action_refs[1].annotations = @ \cup {Unsupported}]),
  WithTable(Routing, 2, [Nexthop EXCEPT !.name = "rif"]),
  WithProfile(Balancing, Profile(1, "wcmp_group", {})),
  WithProfile(Balancing, Profile(2, "wcmp_group", {5})),
  WithProfile(Balancing, Profile(1, "wcmp_group", {5, 9})),
  [Routing EXCEPT !.direct_counters = <<[id |-> 1, table_id |-> 9, unit |-> "BOTH"]>>],
  [Acls EXCEPT !.controller_packet_metadata = Append(@, [id |-> 3, name |-> "packet_in", metadata |-> << >>])],
  [Acls EXCEPT !.controller_packet_metadata[2].name = "packet_up"]}

Roles == {Routing, Neighbors, Acls, Balancing}

MCRoleSets ==
  {{m} : m \in Mistakes}
  \cup {S \cup {r} : S \in SUBSET Roles, r \in Roles \cup Variations \cup Contradictions}
  \cup {{r, s} \cup {Routing} : r, s \in Variations \cup Contradictions}
=============================================================================
