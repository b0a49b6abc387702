------------------------------ MODULE MCTranslation ------------------------------
(***************************************************************************)
(* A byte of four bits, and a program with a table for each way of         *)
(* translating a match field, an action or a part of an entry.  A field of *)
(* seven bits ends within a byte, like the 12-bit fields of real programs. *)
(***************************************************************************)
EXTENDS Translation, MCP4Infos

MCAddressBits == [MAC_ADDRESS |-> 8, IPV4_ADDRESS |-> 4, IPV6_ADDRESS |-> 8]

Hex(id, name, match_type) == Wide(Field(id, name, match_type, {}), 7)
Address(format, bitwidth, field) ==
  Wide([field EXCEPT !.annotations = {Annotation("format", <<format>>)}], bitwidth)

Drop    == Action(1, "drop", << >>)
Forward == Action(2, "forward",
             <<Typed(Element(1, "port", {}), "port_t"), Wide(Element(2, "class", {}), 7)>>)
Old     == [Action(3, "old", << >>) EXCEPT !.annotations = {Unsupported}]

Acl == Table(1, "acl",
  <<Hex(1, "bits", "TERNARY"), Address("IPV6_ADDRESS", 5, Field(2, "ip", "TERNARY", {})),
    Typed(Field(3, "port", "OPTIONAL", {}), "port_t"),
    [Hex(4, "old", "OPTIONAL") EXCEPT !.annotations = {Unsupported}]>>, <<Ref(1), Ref(3)>>)
Route == Table(2, "route",
  <<Hex(1, "vrf", "EXACT"), Address("IPV4_ADDRESS", 4, Field(2, "ip", "LPM", {}))>>, <<Ref(1), Ref(2)>>)
Label == Table(3, "label", <<Hex(1, "label", "LPM")>>, << >>)
Host == Table(4, "host",
  <<Address("MAC_ADDRESS", 8, Field(1, "mac", "EXACT", {})),
    Address("IPV6_ADDRESS", 5, Field(2, "prefix", "EXACT", {}))>>, <<Ref(1)>>)
Wcmp == [Table(5, "wcmp", <<Hex(1, "id", "EXACT")>>, <<Ref(1), Ref(2)>>) EXCEPT
           !.implementation_id = 1, !.annotations = {Annotation("oneshot", << >>)}]
Ars == [Wcmp EXCEPT !.id = 6, !.name = "ars_group_table", !.implementation_id = 2,
               !.action_refs[1].annotations = {ProtoId("1"), Annotation("groupaction", << >>)}]
Gone == [Label EXCEPT !.id = 7, !.name = "gone", !.annotations = {Unsupported}]

PacketIo(id, name, metadata) == [id |-> id, name |-> name, metadata |-> metadata]

MCProgram ==
  [Info(<<Acl, Route, Label, Host, Wcmp, Ars, Gone>>, <<Drop, Forward, Old>>) EXCEPT
     !.new_types = [port_t |-> "sdn_string"],
     !.direct_counters = <<[id |-> 1, table_id |-> 3, unit |-> "PACKETS"]>>,
     !.direct_meters = <<[id |-> 2, table_id |-> 3]>>,
     !.action_profiles =
       <<Profile(1, "wcmp_group", {5}), [Profile(2, "ars_group", {6}) EXCEPT !.weights_disallowed = TRUE]>>,
     !.controller_packet_metadata =
       <<PacketIo(1, "packet_in", <<Typed(Element(1, "port", {}), "port_t"), Wide(Element(2, "class", {}), 7)>>),
         PacketIo(2, "packet_out",
           <<Typed(Element(1, "port", {}), "port_t"), Wide(Element(2, "unused", {Annotation("padding", << >>)}), 3)>>)>>]

(* PD is generated from a P4Info that has more, but not the gone table.     *)
More == Table(8, "more", <<Hex(1, "id", "EXACT")>>, <<Ref(4)>>)
MCPdProgram ==
  [MCProgram EXCEPT
     !.tables = <<Acl, Route, Label, [Host EXCEPT !.match_fields = Append(@, Hex(3, "more", "EXACT"))],
                  Wcmp, Ars, More>>,
     !.actions = Append(@, Action(4, "more", << >>)),
     !.controller_packet_metadata[2].metadata = Append(@, Element(3, "more", {}))]

------------------------------------------------------------------------------
(* Names and values of either representation                               *)

IrNames == [acl |-> "acl", route |-> "route", label |-> "label", host |-> "host", wcmp |-> "wcmp",
            ars |-> "ars_group_table", gone |-> "gone", unknown |-> "unknown",
            acl_fields |-> <<"bits", "ip", "port", "old">>, route_fields |-> <<"vrf", "ip">>,
            label_field |-> "label", host_fields |-> <<"mac", "prefix">>, id |-> "id",
            drop |-> "drop", forward |-> "forward", gone_action |-> "old", params |-> <<"port", "class">>,
            meta |-> <<"port", "class">>]
PiNames == [acl |-> 1, route |-> 2, label |-> 3, host |-> 4, wcmp |-> 5, ars |-> 6, gone |-> 7,
            unknown |-> 9, acl_fields |-> <<1, 2, 3, 4>>, route_fields |-> <<1, 2>>,
            label_field |-> 1, host_fields |-> <<1, 2>>, id |-> 1,
            drop |-> 1, forward |-> 2, gone_action |-> 3, params |-> <<1, 2>>, meta |-> <<1, 2>>]

IrHex(n) == IrValue("HEX_STRING", 4, n)
IrText(n) == IrValue("STRING", 1, n)
IrAddress(format, n) == IrValue(format, MCAddressBits[format], n)

IrSamples ==
  [some_hex |-> IrHex(1), some_text |-> IrText(1),
   hex  |-> {IrHex(n) : n \in {0, 1, 64, 96, 130}}
            \cup {IrValue("HEX_STRING", 2, 1), IrText(1), IrValue("NOT_SET", 0, 0)},
   text |-> {IrText(1), IrValue("STRING", 2, 1), IrValue("STRING", 0, 0), IrHex(1)},
   mac  |-> {IrAddress("MAC_ADDRESS", n) : n \in {0, 1, 255}} \cup {IrValue("MAC_ADDRESS", 4, 1), IrHex(1)},
   ipv4 |-> {IrAddress("IPV4_ADDRESS", n) : n \in {0, 4, 12, 15}} \cup {IrAddress("MAC_ADDRESS", 8)},
   ipv6 |-> {IrAddress("IPV6_ADDRESS", n) : n \in {0, 8, 128, 4}}]

PiSamples ==
  [some_hex |-> Bytes(1, 1), some_text |-> Bytes(1, 1),
   hex  |-> {Bytes(1, 0), Bytes(2, 0), Bytes(1, 1), Bytes(3, 1), Bytes(2, 64), Bytes(2, 96), Bytes(2, 130), Bytes(0, 0)},
   text |-> {Bytes(1, 1), Bytes(2, 1), Bytes(1, 8), Bytes(0, 0)},
   mac  |-> {Bytes(1, 0), Bytes(2, 255), Bytes(3, 256), Bytes(3, 1)},
   ipv4 |-> {Bytes(1, 0), Bytes(1, 4), Bytes(2, 12), Bytes(2, 16)},
   ipv6 |-> {Bytes(1, 0), Bytes(2, 1), Bytes(2, 16), Bytes(2, 32)}]

Exact(field, value) == [field |-> field, value |-> [type |-> "EXACT", value |-> value]]
Optional(field, value) == [field |-> field, value |-> [type |-> "OPTIONAL", value |-> value]]
Lpm(field, value, prefix) == [field |-> field, value |-> [type |-> "LPM", value |-> value, prefix |-> prefix]]
Ternary(field, value, mask) == [field |-> field, value |-> [type |-> "TERNARY", value |-> value, mask |-> mask]]

Param(field, value) == [field |-> field, value |-> value]
Do(action, params) == [type |-> "action", action |-> action, params |-> params]
Member(action, weight) == [action |-> action, weight |-> weight, port |-> "1"]
Set(group_action, members) ==
  [type |-> "action_set", group_action |-> group_action, members |-> members,
   mode |-> "random", semantics |-> "sum_of_weights"]

Entry(table, matches, action) ==
  [kind |-> "table_entry", table |-> table, matches |-> matches, priority |-> 0, metadata |-> "cookie",
   action |-> action, meter_config |-> {}, meter_counter_data |-> {}, counter_data |-> {}]
Count(bytes, packets) == [bytes |-> bytes, packets |-> packets]
Meter(cir, pir, burst) == [cir |-> cir, pir |-> pir, cburst |-> burst, pburst |-> burst]
With(entry, priority) == [entry EXCEPT !.priority = priority]

Replica(port, instance, backups) ==
  [port_kind |-> "port", port |-> port, instance |-> instance, backups |-> backups]
Backup(port, instance) == [port |-> port, instance |-> instance]
Group(replicas) == [kind |-> "multicast_group_entry", group_id |-> 1, metadata |-> "cookie", replicas |-> replicas]
Session(replicas) ==
  [kind |-> "clone_session_entry", session_id |-> 1, class_of_service |-> 1, packet_length_bytes |-> 2,
   replicas |-> replicas]

------------------------------------------------------------------------------
(* Entities of either representation                                       *)

AclEntries(n, v) ==
  LET Entries(matches) == {With(Entry(n.acl, m, {Do(n.drop, << >>)}), 1) : m \in matches}
      port(t)          == Optional(n.acl_fields[3], t)
  IN  Entries({<<Ternary(n.acl_fields[1], a, b)>> : a, b \in v.hex}
              \cup {<<Ternary(n.acl_fields[2], a, b), port(t)>> : a, b \in v.ipv6, t \in v.text}
              \cup {<< >>} \cup {<<Exact(n.acl_fields[1], a)>> : a \in v.hex}
              \cup {<<port(t), port(t)>> : t \in v.text}
              \cup {<<Optional(n.acl_fields[4], a)>> : a \in v.hex})
      \cup {Entry(n.acl, << >>, {Do(n.drop, << >>)}),
            With(Entry(n.acl, << >>, {Do(n.gone_action, << >>)}), 1),
            With(Entry(n.acl, << >>, {Do(n.forward, << >>)}), 1), With(Entry(n.acl, << >>, {}), 1)}

RouteEntries(n, v) ==
  LET vrf(a)     == Exact(n.route_fields[1], a)
      ip(a, p)   == Lpm(n.route_fields[2], a, p)
      to(t, c)   == {Do(n.forward, <<Param(n.params[2], c), Param(n.params[1], t)>>)}
      some       == v.some_hex
      port       == v.some_text
  IN  {Entry(n.route, <<vrf(some), ip(a, p)>>, to(port, some)) : a \in v.ipv4, p \in (-1) .. 5}
      \cup {Entry(n.route, <<vrf(a)>>, to(t, a)) : a \in v.hex, t \in v.text}
      \cup {With(Entry(n.route, <<vrf(some)>>, to(port, some)), 1), Entry(n.route, << >>, to(port, some)),
            Entry(n.route, <<vrf(some)>>, {Do(n.forward, <<Param(n.params[1], port)>>)}),
            Entry(n.route, <<vrf(some)>>, {Set({}, << >>)}),
            [Entry(n.route, <<vrf(some)>>, to(port, some)) EXCEPT !.counter_data = {Count(1, 1)}]}

LabelEntries(n, v) ==
  LET entry == Entry(n.label, << >>, {})
  IN  {Entry(n.label, <<Lpm(n.label_field, a, p)>>, {}) : a \in v.hex, p \in (-1) .. 8}
      \cup {[entry EXCEPT !.meter_config = m, !.meter_counter_data = d, !.counter_data = c] :
              m \in {{}, {Meter(1, 1, 2)}, {Meter(1, 2, 2)}, {Meter(0, 0, 0)}},
              d \in {{}, {[green |-> Count(1, 1), red |-> Count(0, 0)]}},
              c \in {{}, {Count(1, 0)}, {Count(1, 1)}}}
      \cup {[entry EXCEPT !.action = {Do(n.drop, << >>)}], [entry EXCEPT !.table = n.gone],
            [entry EXCEPT !.table = n.unknown]}

HostEntries(n, v) ==
  {Entry(n.host, <<Exact(n.host_fields[1], a), Exact(n.host_fields[2], b)>>, {Do(n.drop, << >>)}) :
     a \in v.mac, b \in v.ipv6}

GroupEntries(n, v) ==
  LET some       == v.some_hex
      port       == v.some_text
      drop       == Do(n.drop, << >>)
      forward(c) == Do(n.forward, <<Param(n.params[1], port), Param(n.params[2], c)>>)
  IN  {Entry(t, <<Exact(n.id, some)>>, {Set(g, <<Member(forward(c), w), Member(drop, x)>>)}) :
         t \in {n.wcmp, n.ars}, g \in {{}, {drop}}, c \in v.hex, w, x \in 0 .. 2}
      \cup {Entry(t, <<Exact(n.id, some)>>, {Set(g, << >>)}) :
              t \in {n.wcmp, n.ars}, g \in {{}, {drop}, {Do(n.gone_action, << >>)}}}
      \cup {Entry(t, <<Exact(n.id, some)>>, {Set(g, <<Member(forward(some), 0)>>)}) :
              t \in {n.wcmp, n.ars}, g \in {{}, {drop}}}
      \cup {Entry(n.wcmp, <<Exact(n.id, some)>>, {drop})}

ReplicationEntries ==
  {f : f \in UNION {{Group(r), Session(r)} : r \in
     {<< >>, <<Replica("1", 1, << >>), Replica("1", 2, << >>)>>,
      <<Replica("1", 1, << >>), Replica("1", 1, << >>)>>,
      <<Replica("1", 1, <<Backup("2", 1)>>), Replica("2", 1, << >>)>>,
      <<Replica("1", 1, <<Backup("2", 1), Backup("1", 2)>>)>>,
      <<Replica("1", 257, <<Backup("2", 257)>>)>>}}}
  \cup {[Group(<< >>) EXCEPT !.group_id = 257]}

Entities(n, v) ==
  AclEntries(n, v) \cup RouteEntries(n, v) \cup LabelEntries(n, v) \cup HostEntries(n, v)
  \cup GroupEntries(n, v) \cup ReplicationEntries \cup {[kind |-> "other"]}

OldReplica == [Replica("1", 1, << >>) EXCEPT !.port_kind = "egress_port"]

PiEntities == Entities(PiNames, PiSamples) \cup {Group(<<OldReplica>>), Session(<<OldReplica>>)}
IrEntities == Entities(IrNames, IrSamples)

------------------------------------------------------------------------------
(* Entities as PD: those of the IR that the schema has fields for, and some *)
(* with fields that only the schema knows                                  *)

PdInvocation(a) == [a EXCEPT !.params = Texts(@)]

PdAction(a) ==
  IF a.type = "action" THEN PdInvocation(a)
  ELSE [a EXCEPT !.group_action = {PdInvocation(b) : b \in @},
                 !.members = [i \in DOMAIN @ |-> [@[i] EXCEPT !.action = PdInvocation(@)]]]

PdMatches(matches) ==
  LET texts == [n \in Given(matches) |-> EachValue(LastValue(matches, n), IrValueString)]
  IN  Restrict(texts, {n \in DOMAIN texts : IsPresent(texts[n])})

InSchema(field, text) == field.format = "STRING" => text.format \in {"STRING", "NOT_SET"}

ActionInSchema(references, a) ==
  \E r \in references :
    /\ r.action.name = a.action
    /\ \A n \in DOMAIN a.params : \E p \in r.action.params : p.name = n /\ InSchema(p, a.params[n])

SetInSchema(shape, a) ==
  /\ a.type = "action_set"
  /\ \A b \in a.group_action : ActionInSchema(GroupActions(shape), b)
  /\ \A m \in Elements(a.members) : ActionInSchema(PlainActions(shape), m.action)

EntryInSchema(pd) ==
  LET shape == Schema.tables_by_name[pd.table]
  IN  /\ pd.table \in DOMAIN Schema.tables_by_name
      /\ \A n \in DOMAIN pd.matches : \E f \in shape.match_fields :
           f.name = n /\ f.match_type = pd.matches[n].type /\ InSchema(f, pd.matches[n].value)
      /\ pd.priority # 0 => shape.requires_priority
      /\ IF UsesOneshot(shape) THEN \E a \in pd.action : SetInSchema(shape, a)
         ELSE \A a \in pd.action : a.type = "action" /\ ActionInSchema(PlainActions(shape), a)
      /\ pd.meter_config # {} => shape.meter
      /\ pd.counter_data # {} => shape.counter # {}
      /\ pd.meter_counter_data # {} => shape.meter /\ shape.counter # {}

PdEntry(entry) ==
  LET table == Schema.tables_by_name[entry.table]
  IN  [entry EXCEPT !.matches = PdMatches(@), !.action = {PdAction(a) : a \in @},
                    !.meter_config = {MeterConfigToPd(c) : c \in @},
                    !.meter_counter_data = {ColorsToPd(table, d) : d \in @},
                    !.counter_data = {CounterDataToPd(table, d) : d \in @}]

PdEntries ==
  {pd \in {PdEntry(e) : e \in {d \in Entities(IrNames, IrSamples) :
                                 d.kind = "table_entry" /\ d.table \in DOMAIN Schema.tables_by_name}} :
     EntryInSchema(pd)}

(* Ids and instances in PD are of 16 bits.                                  *)
ShortGroups ==
  {e \in ReplicationEntries :
     /\ e.kind = "multicast_group_entry"
     /\ e.group_id = Truncated(e.group_id)
     /\ \A r \in Elements(e.replicas) : r = ShortReplica(r)}

HexField(n) == [type |-> "EXACT", value |-> IrHex(n)]

MCPdEntities ==
  LET id     == [id |-> HexField(1)]
      member == [action |-> NoAction, weight |-> 1, port |-> "1"]
  IN  PdEntries
      \cup {[e EXCEPT !.matches = @ @@ [more |-> HexField(1)]] : e \in {d \in PdEntries : d.table = "host"}}
      \cup {Entry("more", id, {Do("more", << >>)}), Entry("wcmp", id, {[EmptySet EXCEPT !.members = <<member>>]}),
            [Entry("label", << >>, {}) EXCEPT !.counter_data = {[packets |-> 0]}]}
      \cup {GroupEntry(e.group_id, e.metadata, {e.replicas}) : e \in ShortGroups}
      \cup {GroupEntry(1, "cookie", {})}

------------------------------------------------------------------------------
(* Requests and answers                                                    *)

Update(type, entity) == [type |-> type, entity |-> entity]
IrWrite(updates) == [device_id |-> 1, election_id |-> 1, updates |-> updates]
PiWrite(updates) ==
  [role_id |-> 0, atomicity |-> "CONTINUE_ON_ERROR", device_id |-> 1, election_id |-> 1, updates |-> updates]

Updates(entities) ==
  {<<Update("INSERT", e)>> : e \in entities}
  \cup {<<Update(t, Session(<< >>)), Update("DELETE", e)>> :
          t \in {"MODIFY", "UNSPECIFIED"}, e \in {Group(<< >>), [kind |-> "other"]}}
  \cup {<< >>}

IrRead(counter, meter) == [device_id |-> 1, read_counter_data |-> counter, read_meter_configs |-> meter]
PiRead(entities) == [device_id |-> 1, entities |-> entities]
Asked(entity, wildcard, counter, meter) ==
  [kind |-> entity, wildcard |-> wildcard, counter_data |-> counter, meter_config |-> meter]

Packet(metadata) == [payload |-> "payload", metadata |-> metadata]
Stream(k, packet) == [kind |-> k, packet |-> packet, status |-> 3, details |-> "packet_out"]
Arbitration == [kind |-> "arbitration", arbitration |-> "primary"]

PacketsOf(n, v) ==
  {Packet(m) : m \in
     {<< >>} \cup {<<Param(n.meta[1], t)>> : t \in v.text}
     \cup {<<Param(n.meta[i], t), Param(n.meta[j], c)>> : i, j \in 1 .. 2, t \in v.text, c \in v.hex}
     \cup {<<Param(n.unknown, t)>> : t \in v.text}}

Messages(kinds, n, v) ==
  {Stream(k, p) : k \in kinds, p \in PacketsOf(n, v)} \cup {Arbitration, Stream("other", Packet(<< >>))}

MCRequests ==
  [write  |-> {IrWrite(u) : u \in Updates(IrEntities)},
   read   |-> {IrRead(c, m) : c, m \in BOOLEAN} \cup {[IrRead(TRUE, TRUE) EXCEPT !.device_id = 0]},
   stream |-> Messages({"packet"}, IrNames, IrSamples)]

PdStream(metadata) == Stream("packet", Packet(metadata))

MCPdRequests ==
  [write  |-> {IrWrite(u) : u \in {<<Update(t, e)>> : t \in {"INSERT"}, e \in MCPdEntities}
                                  \cup {<<Update("UNSPECIFIED", GroupEntry(1, "cookie", {<< >>}))>>, << >>}},
   read   |-> MCRequests.read,
   stream |-> {PdStream([port |-> IrText(1)]), PdStream(<< >>),
               PdStream([port |-> IrText(1)] @@ [more |-> IrHex(1)]), Arbitration}]

Asks == {<< >>}
        \cup {<<Asked("table_entry", w, c, m)>> : w \in BOOLEAN, c, m \in {{}, {"empty"}, {"filled"}}}
        \cup {<<Asked("multicast_group_entry", TRUE, {}, {})>>}

MCWireRequests ==
  [write  |-> {PiWrite(u) : u \in Updates(PiEntities)}
              \cup {[PiWrite(<< >>) EXCEPT !.role_id = 1], [PiWrite(<< >>) EXCEPT !.atomicity = "ROLLBACK_ON_ERROR"]},
   read   |-> {PiRead(e) : e \in Asks \cup {e \o e : e \in Asks}} \cup {[PiRead(<< >>) EXCEPT !.device_id = 0]},
   stream |-> Messages({"packet"}, PiNames, PiSamples)]

Statuses == [code : {OK, UNKNOWN, 3, 16}, message : {"", "no"}]

(* Only one request of each kind is answered in all ways: a write of two    *)
(* updates, a read that asks for counters, a request for arbitration.       *)
Representative(k, message) ==
  CASE k = "write"  -> Len(message.updates) = 2
    [] k = "read"   -> message.read_counter_data
    [] k = "stream" -> message = Arbitration

AllAnswers(k) ==
  CASE k = "write"  -> {Response(s) : s \in UNION {[1 .. n -> Statuses] : n \in 0 .. 2}}
                       \cup {WideError(s) : s \in Statuses} \cup {[kind |-> "none"]}
    [] k = "read"   -> {<<e>> : e \in IrEntities}
    [] k = "stream" -> Messages({"packet", "error"}, IrNames, IrSamples)

AllWireAnswers(k) ==
  CASE k = "write"  ->
         {GrpcStatus(c, m, d) : c \in {OK, UNKNOWN, 3, 16}, m \in {"", "no"},
            d \in {{}, {Refused}}
                  \cup {{[code |-> i, statuses |-> s]} : i \in {UNKNOWN, 3}, s \in [1 .. 2 -> Statuses]}}
    [] k = "read"   -> {<<e>> : e \in PiEntities}
    [] k = "stream" -> Messages({"packet", "error"}, PiNames, PiSamples)
                       \cup {[Stream("error", Packet(<< >>)) EXCEPT !.details = "other"]}

MCAnswers(k, message) ==
  IF Representative(k, message) THEN AllAnswers(k)
  ELSE CASE k = "write"  -> {Response([i \in DOMAIN message.updates |-> [code |-> OK, message |-> ""]])}
         [] k = "read"   -> {<< >>, <<Group(<< >>), Session(<< >>)>>, <<Group(<< >>), [kind |-> "other"]>>}
         [] k = "stream" -> {Arbitration}

MCWireAnswers(k, message) ==
  IF Representative(k, message) THEN AllWireAnswers(k)
  ELSE CASE k = "write"  -> {GrpcStatus(OK, "", {}), GrpcStatus(16, "", {})}
         [] k = "read"   -> {<< >>, <<Session(<< >>), Group(<< >>)>>, <<[kind |-> "other"], Group(<< >>)>>}
         [] k = "stream" -> {Arbitration}

MCOptionSets ==
  [key_only : BOOLEAN, allow_unsupported : BOOLEAN, allow_arbitrary_format : BOOLEAN]

=============================================================================
