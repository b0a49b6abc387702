------------------------------ MODULE PdTranslation ------------------------------
(***************************************************************************)
(* Messages between IR and PD, the program-dependent protobufs             *)
(* (p4_pdpi/pd.cc).  A PD has a message type for every table and action,   *)
(* and a field for every match field, parameter and piece of metadata,     *)
(* generated from a P4Info (p4_pdpi/pdgenlib.cc), the schema: it may hold  *)
(* more than the P4Info, info, that a message is translated with.          *)
(*                                                                         *)
(* A PD is a record like that of the IR, except for                        *)
(*   matches, params, metadata of a packet: a function from the names of   *)
(*     the fields that are present; a plain string that is empty is absent *)
(*   action set: its parts are fields of the table, always there           *)
(*   meter_config [rate, burst], counters with the fields of their unit    *)
(*   multicast group: replicate, {} or the set of its list of replicas     *)
(* A string of PD is the IrValue that it reads as in its field, NoText if  *)
(* it is empty; ids of multicast groups and instances are numbers.         *)
(***************************************************************************)
EXTENDS MessageTranslation

NoText == IrValue("NOT_SET", 0, 0)

IrValueString(value) ==
  IF value.format = "STRING" /\ value.size = 0 THEN NoText ELSE value

(* The format is taken on trust: text of another one will not parse.        *)
FormattedStringToIrValue(text, format) ==
  IF text.format = format THEN text ELSE IrValue(format, 0, 0)

Names(definitions) == {d.name : d \in definitions}

Named(definitions, name) == Definition(definitions, "name", name)

InIdOrder(definitions) ==
  LET before(d) == {e \in definitions : e.id < d.id}
  IN  [i \in 1 .. Cardinality(definitions) |->
         CHOOSE d \in definitions : Cardinality(before(d)) = i - 1]

(* Lists of the IR become fields: of two with a name, the last is kept.     *)
Given(fields) == {fields[i].field : i \in DOMAIN fields}

LastValue(fields, name) ==
  fields[Max({i \in DOMAIN fields : fields[i].field = name})].value

Texts(fields) ==
  LET text == [n \in Given(fields) |-> IrValueString(LastValue(fields, n))]
  IN  Restrict(text, {n \in DOMAIN text : text[n] # NoText})

------------------------------------------------------------------------------
(* The schema: which actions of a table are fields of its GroupAction       *)
(* message, and which of its Action message                                *)

IsGroupAction(reference) == HasAnnotation("groupaction", reference)

GroupActions(table) == {r \in table.entry_actions : IsGroupAction(r)}

PlainActions(table) == table.entry_actions \ GroupActions(table)

------------------------------------------------------------------------------
(* Matches                                                                 *)

EachValue(match, Value(_)) ==
  [n \in DOMAIN match |-> IF n \in {"value", "mask"} THEN Value(match[n]) ELSE match[n]]

IsPresent(match) == match.type # "EXACT" \/ match.value # NoText

Unset(type) ==
  CASE type = "LPM"     -> [type |-> type, value |-> NoText, prefix |-> 0]
    [] type = "TERNARY" -> [type |-> type, value |-> NoText, mask |-> NoText]
    [] OTHER            -> [type |-> type, value |-> NoText]

(* A match that the P4Info does not know is left out without an error; one  *)
(* of another type than its field reads as one that is not set.             *)
IrMatchEntryToPd(shape, table, options, matches) ==
  LET known    == Given(matches) \cap Names(table.match_fields)
      field(n) == Named(table.match_fields, n)
      match(n) == LET given == LastValue(matches, n)
                  IN  IF given.type = field(n).match_type THEN given ELSE Unset(field(n).match_type)
      texts    == [n \in known |-> EachValue(match(n), IrValueString)]
  IN  IF \A n \in known :
           /\ Usable(field(n), options)
           /\ \E f \in shape.match_fields : f.name = n /\ f.match_type = field(n).match_type
      THEN Restrict(texts, {n \in known : IsPresent(texts[n])})
      ELSE Refused

(* Exact fields are always translated: an absent one is an empty string.    *)
PdMatchEntryToIr(table, options, pd) ==
  LET used       == {f \in table.match_fields : f.match_type = "EXACT" \/ f.name \in DOMAIN pd}
      match(f)   == IF f.name \in DOMAIN pd THEN pd[f.name] ELSE [type |-> "EXACT", value |-> NoText]
      ir(f)      == LET Value(text) == FormattedStringToIrValue(text, f.format)
                    IN  [field |-> f.name, value |-> EachValue(match(f), Value)]
      ordered    == InIdOrder(used)
  IN  IF /\ DOMAIN pd \subseteq Names(table.match_fields)
         /\ \A f \in used :
              /\ Usable(f, options)
              /\ match(f).type = f.match_type
              /\ f.match_type = "LPM" => match(f).prefix \in 0 .. f.bitwidth
      THEN [i \in DOMAIN ordered |-> ir(ordered[i])]
      ELSE Refused

------------------------------------------------------------------------------
(* Actions.  references are the fields of the message that holds them.      *)

NoAction == [type |-> "action", action |-> "", params |-> << >>]

IrActionInvocationToPd(references, info, options, ir) ==
  IF /\ ir.action \in DOMAIN info.actions_by_name
     /\ Usable(info.actions_by_name[ir.action], options)
     /\ \E r \in references :
          r.action.name = ir.action /\ Given(ir.params) \subseteq Names(r.action.params)
  THEN [ir EXCEPT !.params = Texts(@)]
  ELSE Refused

(* A group action in which no field is set is outside of the model: the     *)
(* code reads the first of an empty list of names.                          *)
PdActionInvocationToIr(info, options, pd) ==
  LET action  == info.actions_by_name[pd.action]
      given   == InIdOrder({p \in action.params : p.name \in DOMAIN pd.params})
  IN  IF /\ pd.action \in DOMAIN info.actions_by_name
         /\ Usable(action, options)
         /\ DOMAIN pd.params \subseteq Names(action.params)
      THEN [pd EXCEPT !.params =
              [i \in DOMAIN given |->
                 [field |-> given[i].name,
                  value |-> FormattedStringToIrValue(@[given[i].name], given[i].format)]]]
      ELSE Refused

IrActionSetToPd(shape, info, options, ir) ==
  LET Group(a)  == IrActionInvocationToPd(GroupActions(shape), info, options, a)
      Member(a) == IrActionInvocationToPd(PlainActions(shape), info, options, a)
  IN  WithActions(ir, {Group(a) : a \in ir.group_action},
                  [i \in DOMAIN ir.members |-> Member(ir.members[i].action)])

(* A member without an action is accepted here.                             *)
PdActionSetToIr(info, options, pd) ==
  LET Action(a) == PdActionInvocationToIr(info, options, a)
      Member(a) == IF a = NoAction THEN NoAction ELSE Action(a)
  IN  WithActions(pd, {Action(a) : a \in pd.group_action},
                  [i \in DOMAIN pd.members |-> Member(pd.members[i].action)])

EmptySet ==
  [type |-> "action_set", group_action |-> {}, members |-> << >>, mode |-> "unset", semantics |-> "unset"]

OfType(action, type) == {a \in action : a.type = type}

(* An action of the wrong type for its table is left out without an error.  *)
ActionToPd(shape, table, info, options, action) ==
  IF UsesOneshot(table)
  THEN {IrActionSetToPd(shape, info, options, a) :
          a \in IF OfType(action, "action_set") = {} THEN {EmptySet} ELSE action}
  ELSE {IrActionInvocationToPd(PlainActions(shape), info, options, a) : a \in OfType(action, "action")}

(* If the actions of the table are in sets, the fields of one have to be    *)
(* there; otherwise a set is not looked at.                                 *)
ActionToIr(table, info, options, action) ==
  IF ~UsesOneshot(table)
  THEN {PdActionInvocationToIr(info, options, a) : a \in OfType(action, "action")}
  ELSE IF OfType(action, "action_set") = {} THEN {Refused}
  ELSE {PdActionSetToIr(info, options, a) : a \in action}

------------------------------------------------------------------------------
(* Meters and counters                                                     *)

(* One rate and one burst: both pairs of values have to agree.              *)
MeterConfigOk(config) == config.cir = config.pir /\ config.cburst = config.pburst

MeterConfigToPd(config) == [rate |-> config.cir, burst |-> config.cburst]

(* Mutant of the next definition: the peak burst is forgotten.              *)
MeterConfigToIrWithoutPeak(pd) ==
  [cir |-> pd.rate, pir |-> pd.rate, cburst |-> pd.burst, pburst |-> 0]

MeterConfigToIr(pd) ==
  [cir |-> pd.rate, pir |-> pd.rate, cburst |-> pd.burst, pburst |-> pd.burst]

UnitFields(table) ==
  IF table.counter = {"BYTES"} THEN {"bytes"}
  ELSE IF table.counter = {"PACKETS"} THEN {"packets"}
  ELSE {"bytes", "packets"}

CounterDataToPd(table, data) == Restrict(data, UnitFields(table))

CounterDataToIr(pd) ==
  [n \in {"bytes", "packets"} |-> IF n \in DOMAIN pd THEN pd[n] ELSE 0]

(* The data of the colors that are there.                                   *)
ColorsToPd(table, colors) == [c \in DOMAIN colors |-> CounterDataToPd(table, colors[c])]

ColorsToIr(pd) == [c \in DOMAIN pd |-> CounterDataToIr(pd[c])]

(* Of data of the IR, the table's own is shown; meter counters only next to *)
(* a meter config, and in the unit of the table's counter.                  *)
CountersCanBeShown(table, ir) ==
  table.meter /\ ir.meter_config # {} =>
    /\ \A c \in ir.meter_config : MeterConfigOk(c)
    /\ ir.meter_counter_data # {} => table.counter # {}

CountersToPd(table, ir) ==
  LET metered == table.meter /\ ir.meter_config # {}
  IN  [ir EXCEPT
         !.meter_config = IF metered THEN {MeterConfigToPd(c) : c \in @} ELSE {},
         !.meter_counter_data = IF metered THEN {ColorsToPd(table, d) : d \in @} ELSE {},
         !.counter_data = IF table.counter # {} THEN {CounterDataToPd(table, d) : d \in @} ELSE {}]

CountersCanBeRead(table, pd) ==
  /\ pd.meter_config # {} => table.meter
  /\ pd.counter_data # {} => table.counter # {}

(* Counts of zero are not set, and data without any other is not there.     *)
CountersToIr(table, pd) ==
  LET counted == {d \in pd.counter_data : \E n \in DOMAIN d : d[n] # 0}
  IN  [pd EXCEPT
         !.meter_config = {MeterConfigToIr(c) : c \in @},
         !.meter_counter_data =
            IF table.meter /\ table.counter # {} THEN {ColorsToIr(d) : d \in @} ELSE {},
         !.counter_data = {CounterDataToIr(d) : d \in counted}]

------------------------------------------------------------------------------
(* Table entries                                                           *)

IrTableEntryToPd(schema, info, options, ir) ==
  LET table   == info.tables_by_name[ir.table]
      shape   == schema.tables_by_name[ir.table]
      matches == IrMatchEntryToPd(shape, table, options, ir.matches)
      action  == ActionToPd(shape, table, info, options, ir.action)
      whole   == [CountersToPd(table, ir) EXCEPT !.matches = matches, !.action = action]
  IN  IF /\ ir.table \in DOMAIN info.tables_by_name \cap DOMAIN schema.tables_by_name
         /\ Usable(table, options)
         /\ matches # Refused
         /\ ir.priority # 0 => shape.requires_priority
         /\ options.key_only \/ (/\ UsesOneshot(table) = UsesOneshot(shape)
                                 /\ Refused \notin action
                                 /\ CountersCanBeShown(table, ir))
      THEN IF options.key_only THEN OnlyKey(whole) ELSE whole
      ELSE Refused

PdTableEntryToIr(info, options, pd) ==
  LET table   == info.tables_by_name[pd.table]
      matches == PdMatchEntryToIr(table, options, pd.matches)
      action  == ActionToIr(table, info, options, pd.action)
      whole   == [CountersToIr(table, pd) EXCEPT !.matches = matches, !.action = action]
  IN  IF /\ pd.table \in DOMAIN info.tables_by_name
         /\ Usable(table, options)
         /\ matches # Refused
         /\ options.key_only \/ (Refused \notin action /\ CountersCanBeRead(table, pd))
      THEN IF options.key_only THEN OnlyKey(whole) ELSE whole
      ELSE Refused

------------------------------------------------------------------------------
(* Multicast groups; clone sessions have no PD                             *)

(* Ids and instances keep 16 bits.                                          *)
Truncated(number) == number % TwoTo[4 * BitsPerNibble]

ShortReplica(replica) ==
  [replica EXCEPT
     !.instance = Truncated(@),
     !.backups = [i \in DOMAIN @ |-> [@[i] EXCEPT !.instance = Truncated(@)]]]

GroupEntry(group_id, metadata, replicate) ==
  [kind |-> "multicast_group_entry", group_id |-> group_id, metadata |-> metadata, replicate |-> replicate]

(* Replicas are unique as they are, not as they are shown.                  *)
IrMulticastGroupEntryToPd(options, ir) ==
  IF options.key_only THEN GroupEntry(Truncated(ir.group_id), "", {})
  ELSE IF ~ReplicasUnique(ir.replicas) THEN Refused
  ELSE GroupEntry(Truncated(ir.group_id), ir.metadata,
                  {[i \in DOMAIN ir.replicas |-> ShortReplica(ir.replicas[i])]})

PdMulticastGroupEntryToIr(options, pd) ==
  LET Ir(metadata, replicas) ==
        [kind |-> pd.kind, group_id |-> pd.group_id, metadata |-> metadata, replicas |-> replicas]
  IN  IF options.key_only THEN Ir("", << >>)
      ELSE IF \E r \in pd.replicate : ReplicasUnique(r)
      THEN Ir(pd.metadata, CHOOSE r \in pd.replicate : TRUE)
      ELSE Refused

IrEntityToPdTableEntry(schema, info, options, ir) ==
  CASE ir.kind = "table_entry"           -> IrTableEntryToPd(schema, info, options, ir)
    [] ir.kind = "multicast_group_entry" -> IrMulticastGroupEntryToPd(options, ir)
    [] OTHER                             -> Refused

PdTableEntryToIrEntity(info, options, pd) ==
  CASE pd.kind = "table_entry"           -> PdTableEntryToIr(info, options, pd)
    [] pd.kind = "multicast_group_entry" -> PdMulticastGroupEntryToIr(options, pd)

------------------------------------------------------------------------------
(* Reads, writes and the stream                                            *)

IrReadRequestToPd(ir) == IF ir.device_id = 0 THEN Refused ELSE ir

PdReadRequestToIr(pd) == IF pd.device_id = 0 THEN Refused ELSE pd

IrReadResponseToPd(schema, info, options, ir) ==
  All([i \in DOMAIN ir |-> IrEntityToPdTableEntry(schema, info, options, ir[i])])

PdReadResponseToIr(info, options, pd) ==
  All([i \in DOMAIN pd |-> PdTableEntryToIrEntity(info, options, pd[i])])

WithUpdates(message, updates) ==
  IF updates = Refused THEN Refused ELSE [message EXCEPT !.updates = updates]

(* The type of an update is not looked at, UNSPECIFIED is one.              *)
IrWriteRequestToPd(schema, info, options, ir) ==
  LET Update(u) == WithEntity(u, IrEntityToPdTableEntry(schema, info, options, u.entity))
  IN  WithUpdates(ir, All([i \in DOMAIN ir.updates |-> Update(ir.updates[i])]))

PdWriteRequestToIr(info, options, pd) ==
  LET Update(u) == WithEntity(u, PdTableEntryToIrEntity(info, options, u.entity))
  IN  WithUpdates(pd, All([i \in DOMAIN pd.updates |-> Update(pd.updates[i])]))

(* That a piece of metadata is missing is not noticed.                      *)
IrPacketIoToPd(fields, definitions, packet) ==
  IF Given(packet.metadata) \subseteq Names(NotPadding(definitions)) \cap Names(NotPadding(fields))
  THEN [packet EXCEPT !.metadata = Texts(@)]
  ELSE Refused

(* Every piece that the P4Info has is translated, an absent one as empty;   *)
(* others that the schema has are left out.  They come in order of name.    *)
PdPacketIoToIr(fields, definitions, packet) ==
  LET pieces == SetToSeq(NotPadding(definitions))
      text(d) == IF d.name \in DOMAIN packet.metadata THEN packet.metadata[d.name] ELSE NoText
  IN  IF Names(NotPadding(definitions)) \subseteq Names(NotPadding(fields))
      THEN [packet EXCEPT !.metadata =
              [i \in DOMAIN pieces |->
                 [field |-> pieces[i].name,
                  value |-> FormattedStringToIrValue(text(pieces[i]), pieces[i].format)]]]
      ELSE Refused

(* A stream message, given what its packet is as one in or as one out.      *)
StreamMessage(message, packet_in, packet_out) ==
  CASE message.kind = "arbitration" -> message
    [] message.kind = "packet"      -> WithPacket(message, packet_in)
    [] message.kind = "error"       -> WithPacket(message, packet_out)
    [] OTHER                        -> Refused

IrStreamMessageRequestToPd(schema, info, ir) ==
  StreamMessage(ir, IrPacketIoToPd(schema.packet_out_metadata, info.packet_out_metadata, ir.packet), Refused)

PdStreamMessageRequestToIr(schema, info, pd) ==
  StreamMessage(pd, PdPacketIoToIr(schema.packet_out_metadata, info.packet_out_metadata, pd.packet), Refused)

IrStreamMessageResponseToPd(schema, info, ir) ==
  StreamMessage(ir,
    IrPacketIoToPd(schema.packet_in_metadata, info.packet_in_metadata, ir.packet),
    IrPacketIoToPd(schema.packet_out_metadata, info.packet_out_metadata, ir.packet))

PdStreamMessageResponseToIr(schema, info, pd) ==
  StreamMessage(pd,
    PdPacketIoToIr(schema.packet_in_metadata, info.packet_in_metadata, pd.packet),
    PdPacketIoToIr(schema.packet_out_metadata, info.packet_out_metadata, pd.packet))

------------------------------------------------------------------------------
(* The status of a write is copied; a status of an update has a valid code. *)

IrWriteRpcStatusToPd(ir) ==
  IF \/ ir.kind = "rpc_wide_error"
     \/ ir.kind = "rpc_response" /\ \A s \in Elements(ir.statuses) : s.code \in 0 .. 16
  THEN ir ELSE Refused

PdWriteRpcStatusToIr(pd) == IF pd.kind \in {"rpc_response", "rpc_wide_error"} THEN pd ELSE Refused

=============================================================================
