---------------------------- MODULE EntityTranslation ----------------------------
(***************************************************************************)
(* Entities between PI, what P4Runtime sends, and IR (p4_pdpi/ir.cc).  PI  *)
(* names tables, match fields, actions and parameters by id, the IR by     *)
(* name; both are checked against the IrP4Info on the way.                 *)
(*                                                                         *)
(* The two representations are records of the same fields:                 *)
(*   table entry   table, matches, priority, metadata, action,             *)
(*                 meter_config, meter_counter_data, counter_data          *)
(*   match         field, value; value has a type, and value, mask, prefix *)
(*   action        type "action", action, params of [field, value]         *)
(*   action set    type "action_set", group_action, members of [action,    *)
(*                 weight, port], mode, semantics                          *)
(* where table, field and action are ids or names, values are byte strings *)
(* or IrValues, and an optional part is a set of at most one element.      *)
(* A translation that is refused gives Refused; it has no other effect.    *)
(* options has key_only, allow_unsupported and allow_arbitrary_format.     *)
(***************************************************************************)
EXTENDS IrValues

Definition(definitions, by, reference) == CHOOSE d \in definitions : d[by] = reference

AllOk(results) == \A i \in DOMAIN results : results[i] # Refused

OptionalOk(result) == result # {Refused}

------------------------------------------------------------------------------
(* Lists of [field, value]: match fields, parameters, metadata             *)

(* Each field is defined and given once.                                    *)
FieldsDefined(fields, definitions, by) ==
  /\ \A i, j \in DOMAIN fields : fields[i].field = fields[j].field => i = j
  /\ \A f \in Elements(fields) : f.field \in {d[by] : d \in definitions}

(* The fields with their translated values, if each of them translates.     *)
TranslatedFields(fields, definitions, by, to, values) ==
  IF FieldsDefined(fields, definitions, by) /\ AllOk(values)
  THEN [i \in DOMAIN fields |->
          [field |-> Definition(definitions, by, fields[i].field)[to], value |-> values[i]]]
  ELSE Refused

IrValueOf(definition, bytes) ==
  ArbitraryByteStringToIrValue(definition.format, definition.bitwidth, bytes)

PiValueOf(options, definition, value) ==
  PiValue(definition.format, definition.bitwidth, value, options)

PiParamsToIr(definitions, params) ==
  TranslatedFields(params, definitions, "id", "name",
    [i \in DOMAIN params |-> IrValueOf(Definition(definitions, "id", params[i].field), params[i].value)])

IrParamsToPi(options, definitions, params) ==
  TranslatedFields(params, definitions, "name", "id",
    [i \in DOMAIN params |->
       PiValueOf(options, Definition(definitions, "name", params[i].field), params[i].value)])

------------------------------------------------------------------------------
(* Match fields                                                            *)

Usable(element, options) == options.allow_unsupported \/ ~element.is_unsupported

Masked(value, mask) == Intersection(value, mask) = value

PiLpmToIr(field, match) ==
  LET value == ArbitraryToNormalizedByteString(match.value, field.bitwidth)
      mask  == PrefixLenToMask(match.prefix, field.bitwidth)
  IN  IF \/ match.prefix = 0 \/ Refused \in {value, mask}
         \/ ~Masked(value, mask) \/ IrValueOf(field, value) = Refused
      THEN Refused
      ELSE [match EXCEPT !.value = IrValueOf(field, value)]

(* Mutant of the next definition: the mask is not asked for.                *)
PiTernaryMayBeZero(field, match) ==
  LET value == ArbitraryToNormalizedByteString(match.value, field.bitwidth)
      mask  == ArbitraryToNormalizedByteString(match.mask, field.bitwidth)
  IN  IF Refused \in {value, mask} \/ ~Masked(value, mask) THEN Refused
      ELSE [match EXCEPT !.value = IrValueOf(field, value), !.mask = IrValueOf(field, mask)]

PiTernaryToIr(field, match) ==
  LET value == ArbitraryToNormalizedByteString(match.value, field.bitwidth)
      mask  == ArbitraryToNormalizedByteString(match.mask, field.bitwidth)
  IN  IF \/ Refused \in {value, mask} \/ IsAllZeros(mask) \/ ~Masked(value, mask)
         \/ Refused \in {IrValueOf(field, value), IrValueOf(field, mask)}
      THEN Refused
      ELSE [match EXCEPT !.value = IrValueOf(field, value), !.mask = IrValueOf(field, mask)]

PiMatchFieldToIr(options, field, match) ==
  LET value == IrValueOf(field, match.value)
  IN  IF ~Usable(field, options) \/ match.type # field.match_type THEN Refused
      ELSE IF match.type = "LPM" THEN PiLpmToIr(field, match)
      ELSE IF match.type = "TERNARY" THEN PiTernaryToIr(field, match)
      ELSE IF value = Refused THEN Refused
      ELSE [match EXCEPT !.value = value]

(* The value of an IPv6 address is as long as an address, the mask as long  *)
(* as the field.  The prefix length is an unsigned number here: a negative  *)
(* one, which PiLpmToIr takes, is longer than every field.                  *)
IrLpmToPi(options, field, match) ==
  LET value == IrValueToNormalizedByteString(match.value, field.bitwidth)
      mask  == PrefixLenToMask(match.prefix, field.bitwidth)
  IN  IF \/ match.prefix \notin 1 .. field.bitwidth
         \/ ~ValidateIrValueFormat(match.value, field.format, options)
         \/ Refused \in {value, mask} \/ ~Masked(value, mask)
      THEN Refused
      ELSE [match EXCEPT !.value = ArbitraryToCanonicalByteString(value)]

IrTernaryToPi(options, field, match) ==
  LET value == IrValueToNormalizedByteString(match.value, field.bitwidth)
      mask  == IrValueToNormalizedByteString(match.mask, field.bitwidth)
  IN  IF \/ ~ValidateIrValueFormat(match.value, field.format, options)
         \/ ~ValidateIrValueFormat(match.mask, field.format, options)
         \/ Refused \in {value, mask} \/ IsAllZeros(mask) \/ ~Masked(value, mask)
      THEN Refused
      ELSE [match EXCEPT !.value = ArbitraryToCanonicalByteString(value),
                         !.mask = ArbitraryToCanonicalByteString(mask)]

IrMatchFieldToPi(options, field, match) ==
  LET value == PiValueOf(options, field, match.value)
  IN  IF ~Usable(field, options) \/ match.type # field.match_type THEN Refused
      ELSE IF match.type = "LPM" THEN IrLpmToPi(options, field, match)
      ELSE IF match.type = "TERNARY" THEN IrTernaryToPi(options, field, match)
      ELSE IF value = Refused THEN Refused
      ELSE [match EXCEPT !.value = value]

------------------------------------------------------------------------------
(* Actions                                                                 *)

Referenced(refs, by, action) == CHOOSE r \in refs : r.action[by] = action

(* The action belongs to the table and neither it nor the table's reference *)
(* to it is unsupported; CheckParams counts the parameters.                 *)
InvocationOk(options, invocation, refs, by) ==
  LET r == Referenced(refs, by, invocation.action)
  IN  /\ invocation.action \in {s.action[by] : s \in refs}
      /\ Usable(r.action, options)
      /\ options.allow_unsupported \/ ~r.is_unsupported_by_table
      /\ Len(invocation.params) = Cardinality(r.action.params)

WithParams(invocation, action, params) ==
  IF params = Refused THEN Refused ELSE [invocation EXCEPT !.action = action, !.params = params]

PiActionToIr(options, pi, refs) ==
  LET action == Referenced(refs, "id", pi.action).action
  IN  IF InvocationOk(options, pi, refs, "id")
      THEN WithParams(pi, action.name, PiParamsToIr(action.params, pi.params)) ELSE Refused

IrActionInvocationToPi(options, ir, refs) ==
  LET action == Referenced(refs, "name", ir.action).action
  IN  IF InvocationOk(options, ir, refs, "name")
      THEN WithParams(ir, action.id, IrParamsToPi(options, action.params, ir.params)) ELSE Refused

(* Three tables disallow weights by their name.                             *)
WeightsDisallowed(info, table) ==
  \/ info.action_profiles_by_id[table.action_profile_id].weights_disallowed
  \/ table.name \in {"ars_group_table", "ars_path_profile_table", "ars_quality_map_table"}

WeightOk(info, table, weight) ==
  IF WeightsDisallowed(info, table) THEN weight = 0 ELSE weight >= 1

WeightsOk(info, table, set) == \A m \in Elements(set.members) : WeightOk(info, table, m.weight)

(* A set with its translated actions, if each of them translates.           *)
WithActions(set, group, members) ==
  IF OptionalOk(group) /\ AllOk(members)
  THEN [set EXCEPT !.group_action = group,
                   !.members = [i \in DOMAIN @ |-> [@[i] EXCEPT !.action = members[i]]]]
  ELSE Refused

(* The selection mode and the size semantics are taken over with each       *)
(* member: a set without any loses them.                                    *)
PiActionSetToIr(info, options, table, pi) ==
  LET Action(a) == PiActionToIr(options, a, table.entry_actions)
      given     == IF pi.members # << >> THEN pi
                   ELSE [pi EXCEPT !.mode = "unset", !.semantics = "unset"]
  IN  IF WeightsOk(info, table, pi)
      THEN WithActions(given, {Action(a) : a \in pi.group_action},
                       [i \in DOMAIN pi.members |-> Action(pi.members[i].action)])
      ELSE Refused

IrActionSetToPi(info, options, table, ir) ==
  LET Action(a) == IrActionInvocationToPi(options, a, table.entry_actions)
  IN  IF WeightsOk(info, table, ir)
      THEN WithActions(ir, {Action(a) : a \in ir.group_action},
                       [i \in DOMAIN ir.members |-> Action(ir.members[i].action)])
      ELSE Refused

(* action is {} or has one element, of type "action", "action_set" or some  *)
(* other one.                                                               *)
UsesOneshot(table) == table.action_profile_id # 0

ActionTypeOk(table, action) ==
  IF table.entry_actions = {} THEN action = {}
  ELSE \E a \in action : a.type = IF UsesOneshot(table) THEN "action_set" ELSE "action"

------------------------------------------------------------------------------
(* Table entries                                                           *)

ExactFields(table) == {f \in table.match_fields : f.match_type = "EXACT"}

CheckMandatoryMatches(table, matches) ==
  Cardinality({i \in DOMAIN matches : matches[i].value.type = "EXACT"}) = Cardinality(ExactFields(table))

PriorityOk(table, priority) == IF table.requires_priority THEN priority > 0 ELSE priority = 0

(* Meters and counters of the entry are those of the table.                 *)
CountersOk(table, entry) ==
  /\ entry.meter_config # {} => table.meter
  /\ entry.meter_counter_data # {} => table.meter /\ entry.meter_config # {}
  /\ entry.counter_data # {} => table.counter # {}

OnlyKey(entry) ==
  [entry EXCEPT !.metadata = "", !.action = {}, !.meter_config = {},
                !.meter_counter_data = {}, !.counter_data = {}]

EntryOk(options, table, entry, action) ==
  /\ Usable(table, options)
  /\ CheckMandatoryMatches(table, entry.matches)
  /\ PriorityOk(table, entry.priority)
  /\ options.key_only \/ (/\ ActionTypeOk(table, entry.action)
                          /\ OptionalOk(action)
                          /\ CountersOk(table, entry))

(* The entry of a table that is known, under its other key, when its parts  *)
(* translate.                                                               *)
Translated(options, entry, table, reference, matches, action) ==
  LET key == [entry EXCEPT !.table = reference, !.matches = matches]
  IN  IF matches = Refused \/ ~EntryOk(options, table, entry, action) THEN Refused
      ELSE IF options.key_only THEN OnlyKey(key) ELSE [key EXCEPT !.action = action]

PiMatchesToIr(options, table, matches) ==
  TranslatedFields(matches, table.match_fields, "id", "name",
    [i \in DOMAIN matches |->
       PiMatchFieldToIr(options, Definition(table.match_fields, "id", matches[i].field), matches[i].value)])

PiTableEntryToIr(info, options, pi) ==
  LET table     == info.tables_by_id[pi.table]
      Action(a) == IF a.type = "action" THEN PiActionToIr(options, a, table.entry_actions)
                   ELSE PiActionSetToIr(info, options, table, a)
  IN  IF pi.table \notin DOMAIN info.tables_by_id THEN Refused
      ELSE Translated(options, pi, table, table.name,
             PiMatchesToIr(options, table, pi.matches), {Action(a) : a \in pi.action})

IrMatchesToPi(options, table, matches) ==
  TranslatedFields(matches, table.match_fields, "name", "id",
    [i \in DOMAIN matches |->
       IrMatchFieldToPi(options, Definition(table.match_fields, "name", matches[i].field), matches[i].value)])

IrTableEntryToPi(info, options, ir) ==
  LET table     == info.tables_by_name[ir.table]
      Action(a) == IF a.type = "action" THEN IrActionInvocationToPi(options, a, table.entry_actions)
                   ELSE IrActionSetToPi(info, options, table, a)
  IN  IF ir.table \notin DOMAIN info.tables_by_name THEN Refused
      ELSE Translated(options, ir, table, table.id,
             IrMatchesToPi(options, table, ir.matches), {Action(a) : a \in ir.action})

------------------------------------------------------------------------------
(* Entries of the packet replication engine: multicast groups of           *)
(* [group_id, metadata, replicas], clone sessions of [session_id,          *)
(* class_of_service, packet_length_bytes, replicas], replicas of           *)
(* [port_kind, port, instance, backups].                                   *)

PiReplicaOk(replica) == replica.port_kind = "port"

(* The pairs of port and instance in the order they are looked at.          *)
Pairs(replicas) ==
  FlattenSeq([i \in DOMAIN replicas |->
    <<<<replicas[i].port, replicas[i].instance>>>>
    \o [j \in DOMAIN replicas[i].backups |->
          <<replicas[i].backups[j].port, replicas[i].backups[j].instance>>]])

ReplicaPorts(replica) ==
  <<replica.port>> \o [j \in DOMAIN replica.backups |-> replica.backups[j].port]

ReplicasUnique(replicas) ==
  /\ IsInjective(Pairs(replicas))
  /\ \A i \in DOMAIN replicas : IsInjective(ReplicaPorts(replicas[i]))

(* The metadata is copied before key_only is looked at.                     *)
PiMulticastGroupEntryToIr(options, pi) ==
  IF options.key_only THEN [pi EXCEPT !.replicas = << >>]
  ELSE IF (\A r \in Elements(pi.replicas) : PiReplicaOk(r)) /\ ReplicasUnique(pi.replicas)
  THEN pi ELSE Refused

IrMulticastGroupEntryToPi(options, ir) ==
  IF options.key_only THEN [ir EXCEPT !.replicas = << >>, !.metadata = ""]
  ELSE IF ReplicasUnique(ir.replicas) THEN ir ELSE Refused

SessionKey(entry) ==
  [entry EXCEPT !.class_of_service = 0, !.packet_length_bytes = 0, !.replicas = << >>]

PiCloneSessionEntryToIr(options, pi) ==
  IF options.key_only THEN SessionKey(pi)
  ELSE IF \A r \in Elements(pi.replicas) : PiReplicaOk(r) THEN pi ELSE Refused

IrCloneSessionEntryToPi(options, ir) == IF options.key_only THEN SessionKey(ir) ELSE ir

------------------------------------------------------------------------------
(* Entities                                                                *)

PiEntityToIr(info, options, pi) ==
  CASE pi.kind = "table_entry"           -> PiTableEntryToIr(info, options, pi)
    [] pi.kind = "multicast_group_entry" -> PiMulticastGroupEntryToIr(options, pi)
    [] pi.kind = "clone_session_entry"   -> PiCloneSessionEntryToIr(options, pi)
    [] OTHER                             -> Refused

IrEntityToPi(info, options, ir) ==
  CASE ir.kind = "table_entry"           -> IrTableEntryToPi(info, options, ir)
    [] ir.kind = "multicast_group_entry" -> IrMulticastGroupEntryToPi(options, ir)
    [] ir.kind = "clone_session_entry"   -> IrCloneSessionEntryToPi(options, ir)
    [] OTHER                             -> Refused

(* Lists are translated as a whole or not at all.                           *)
All(results) == IF AllOk(results) THEN results ELSE Refused

PiEntitiesToIr(info, options, pi) == All([i \in DOMAIN pi |-> PiEntityToIr(info, options, pi[i])])

IrEntitiesToPi(info, options, ir) == All([i \in DOMAIN ir |-> IrEntityToPi(info, options, ir[i])])

=============================================================================
