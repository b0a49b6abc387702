------------------------------- MODULE ProperMessages -------------------------------
(***************************************************************************)
(* What the protobuf types and the comments of ir.proto say of messages    *)
(* and of a P4Info that are not yet translated: which fields there are,    *)
(* what a repeated or an optional field is, and that a string of the IR is *)
(* text.  Nothing else is asked of them: tables, fields, lengths, formats  *)
(* and counts may be wrong in any way.                                     *)
(*                                                                         *)
(* side is "ir" or "pi"; messages of PD differ as PdTranslation says.      *)
(***************************************************************************)
EXTENDS PdTranslation

IsRecord(message, fields) == message = [f \in fields |-> message[f]]

IsOptional(part) == \A a, b \in part : a = b

------------------------------------------------------------------------------
(* Values, and lists of them                                               *)

IsBytes(bytes) ==
  IsRecord(bytes, {"size", "number"}) /\ bytes.size \in Nat /\ bytes.number \in Nat

(* An address that parses is no larger than its format allows; text is text *)
(* on the wire too.                                                         *)
IsIrValue(value) ==
  /\ IsRecord(value, {"format", "size", "number"})
  /\ value.size \in Nat /\ value.number \in Nat
  /\ value.format \in AddressFormats /\ value.size = AddressBits[value.format] =>
       value.number < TwoTo[value.size]
  /\ value.format = "STRING" =>
       IsStructurallyValid(value) /\ value.number < TwoTo[BitsPerByte * value.size]

IsValue(side, value) == IF side = "ir" THEN IsIrValue(value) ELSE IsBytes(value)

IsFields(side, fields) ==
  /\ IsSequence(fields)
  /\ \A f \in Elements(fields) : IsRecord(f, {"field", "value"}) /\ IsValue(side, f.value)

ValuesOf(type) == IF type = "TERNARY" THEN {"value", "mask"} ELSE {"value"}

PartsOf(type) == {"type"} \cup ValuesOf(type) \cup (IF type = "LPM" THEN {"prefix"} ELSE {})

IsMatch(side, match) ==
  IsRecord(match, PartsOf(match.type)) /\ \A n \in ValuesOf(match.type) : IsValue(side, match[n])

IsMatches(side, matches) ==
  /\ IsSequence(matches)
  /\ \A m \in Elements(matches) : IsRecord(m, {"field", "value"}) /\ IsMatch(side, m.value)

------------------------------------------------------------------------------
(* Actions and entities                                                    *)

IsInvocation(side, action) ==
  /\ action.type = "action" /\ IsRecord(action, {"type", "action", "params"})
  /\ IsFields(side, action.params)

IsMember(side, member) ==
  IsRecord(member, {"action", "weight", "port"}) /\ IsInvocation(side, member.action)

IsActionSet(side, set) ==
  /\ set.type = "action_set" /\ IsRecord(set, {"type", "group_action", "members", "mode", "semantics"})
  /\ IsOptional(set.group_action) /\ \A a \in set.group_action : IsInvocation(side, a)
  /\ IsSequence(set.members) /\ \A m \in Elements(set.members) : IsMember(side, m)

IsAction(side, action) ==
  /\ action.type = "action" => IsInvocation(side, action)
  /\ action.type = "action_set" => IsActionSet(side, action)

EntryFields == {"kind", "table", "matches", "priority", "metadata", "action",
                "meter_config", "meter_counter_data", "counter_data"}

IsTableEntry(side, entry) ==
  /\ IsRecord(entry, EntryFields)
  /\ IsMatches(side, entry.matches)
  /\ IsOptional(entry.action) /\ \A a \in entry.action : IsAction(side, a)

(* The IR has no other kind of port.                                        *)
IsReplicas(side, replicas) ==
  IsSequence(replicas) /\ (side = "ir" => \A r \in Elements(replicas) : PiReplicaOk(r))

GroupFields == {"kind", "group_id", "metadata", "replicas"}

SessionFields == {"kind", "session_id", "class_of_service", "packet_length_bytes", "replicas"}

IsEntity(side, entity) ==
  /\ IsRecord(entity, DOMAIN entity) /\ "kind" \in DOMAIN entity
  /\ entity.kind = "table_entry" => IsTableEntry(side, entity)
  /\ entity.kind = "multicast_group_entry" =>
       DOMAIN entity = GroupFields /\ IsReplicas(side, entity.replicas)
  /\ entity.kind = "clone_session_entry" =>
       DOMAIN entity = SessionFields /\ IsReplicas(side, entity.replicas)

IsEntities(side, entities) ==
  IsSequence(entities) /\ \A e \in Elements(entities) : IsEntity(side, e)

(* A type that P4Runtime does not define, which an open enum of protobuf    *)
(* can hold, is translated to the IR but not back (IrUpdateToPi).           *)
IsUpdates(side, updates) ==
  /\ IsSequence(updates)
  /\ \A u \in Elements(updates) :
       /\ IsRecord(u, {"type", "entity"}) /\ u.type \in UpdateTypes \cup {"UNSPECIFIED"}
       /\ IsEntity(side, u.entity)

------------------------------------------------------------------------------
(* Requests and answers of each kind                                       *)

WriteFields(side) ==
  {"device_id", "election_id", "updates"} \cup (IF side = "pi" THEN {"role_id", "atomicity"} ELSE {})

IsWrite(side, message) ==
  IsRecord(message, WriteFields(side)) /\ IsUpdates(side, message.updates)

IsIrRead(message) ==
  /\ IsRecord(message, {"device_id", "read_counter_data", "read_meter_configs"})
  /\ message.read_counter_data \in BOOLEAN /\ message.read_meter_configs \in BOOLEAN

(* The parts of the one entity that a read may have.                        *)
IsAsked(entity) ==
  /\ IsRecord(entity, {"kind", "wildcard", "counter_data", "meter_config"})
  /\ entity.wildcard \in BOOLEAN
  /\ entity.counter_data \subseteq {"empty", "filled"} /\ entity.meter_config \subseteq {"empty", "filled"}

IsPiRead(message) ==
  /\ IsRecord(message, {"device_id", "entities"})
  /\ IsSequence(message.entities) /\ \A e \in Elements(message.entities) : IsAsked(e)

IsPacket(side, packet) == IsRecord(packet, {"payload", "metadata"}) /\ IsFields(side, packet.metadata)

(* The only errors of the IR are about a packet-out.                        *)
IsStreamMessage(side, message) ==
  /\ IsRecord(message, DOMAIN message) /\ "kind" \in DOMAIN message
  /\ message.kind \in {"packet", "error"} => "packet" \in DOMAIN message /\ IsPacket(side, message.packet)
  /\ message.kind = "error" => "details" \in DOMAIN message
  /\ side = "ir" /\ message.kind = "error" => message.details = "packet_out"

IsStatus(status) ==
  IsRecord(status, {"code", "message"}) /\ status.code \in Int

IsStatuses(statuses) == IsSequence(statuses) /\ \A s \in Elements(statuses) : IsStatus(s)

IsIrWriteStatus(status) ==
  /\ IsRecord(status, DOMAIN status) /\ "kind" \in DOMAIN status
  /\ status.kind = "rpc_response" =>
       IsRecord(status, {"kind", "statuses"}) /\ IsStatuses(status.statuses)
  /\ status.kind = "rpc_wide_error" =>
       IsRecord(status, {"kind", "status"}) /\ IsStatus(status.status)

IsGrpcStatus(grpc) ==
  /\ IsRecord(grpc, {"code", "message", "details"}) /\ grpc.code \in Int
  /\ IsOptional(grpc.details)
  /\ \A d \in grpc.details : d = Refused \/ IsStatuses(d.statuses)

IsRequest(side, kind, message) ==
  CASE kind = "write"  -> IsWrite(side, message)
    [] kind = "read"   -> IF side = "ir" THEN IsIrRead(message) ELSE IsPiRead(message)
    [] kind = "stream" -> IsStreamMessage(side, message)

IsAnswer(side, kind, message) ==
  CASE kind = "write"  -> IF side = "ir" THEN IsIrWriteStatus(message) ELSE IsGrpcStatus(message)
    [] kind = "read"   -> IsEntities(side, message)
    [] kind = "stream" -> IsStreamMessage(side, message)

------------------------------------------------------------------------------
(* Requests as PD                                                          *)

IsTexts(texts) == \A n \in DOMAIN texts : IsIrValue(texts[n])

IsPdInvocation(action) ==
  /\ action.type = "action" /\ IsRecord(action, {"type", "action", "params"})
  /\ IsTexts(action.params)

IsPdActionSet(set) ==
  /\ set.type = "action_set" /\ IsRecord(set, {"type", "group_action", "members", "mode", "semantics"})
  /\ IsOptional(set.group_action) /\ \A a \in set.group_action : IsPdInvocation(a)
  /\ IsSequence(set.members)
  /\ \A m \in Elements(set.members) :
       IsRecord(m, {"action", "weight", "port"}) /\ IsPdInvocation(m.action)

IsPdTableEntry(entry) ==
  /\ IsRecord(entry, EntryFields)
  /\ \A n \in DOMAIN entry.matches : IsMatch("ir", entry.matches[n])
  /\ IsOptional(entry.action)
  /\ \A a \in entry.action : IsPdInvocation(a) \/ IsPdActionSet(a)

IsPdEntity(entity) ==
  \/ entity.kind = "table_entry" /\ IsPdTableEntry(entity)
  \/ /\ entity.kind = "multicast_group_entry"
     /\ IsRecord(entity, {"kind", "group_id", "metadata", "replicate"})
     /\ \A r \in entity.replicate : IsReplicas("ir", r)

IsPdWrite(message) ==
  /\ IsRecord(message, WriteFields("ir")) /\ IsSequence(message.updates)
  /\ \A u \in Elements(message.updates) :
       /\ IsRecord(u, {"type", "entity"}) /\ u.type \in UpdateTypes \cup {"UNSPECIFIED"}
       /\ IsPdEntity(u.entity)

IsPdStreamMessage(message) ==
  /\ IsRecord(message, DOMAIN message) /\ "kind" \in DOMAIN message
  /\ message.kind \in {"packet", "arbitration"}
  /\ message.kind = "packet" =>
       /\ "packet" \in DOMAIN message
       /\ IsRecord(message.packet, {"payload", "metadata"}) /\ IsTexts(message.packet.metadata)

IsPdRequest(kind, message) ==
  CASE kind = "write"  -> IsPdWrite(message)
    [] kind = "read"   -> IsIrRead(message)
    [] kind = "stream" -> IsPdStreamMessage(message)

------------------------------------------------------------------------------
(* The program                                                             *)

FieldLists(info) ==
  {a.params : a \in Elements(info.actions)} \cup {t.match_fields : t \in Elements(info.tables)}
  \cup {m.metadata : m \in Elements(info.controller_packet_metadata)}

(* Ids are numbers; a field that is a number has at least one bit.          *)
IsProgram(info) ==
  /\ CreationOk(info)
  /\ IsSequence(info.actions) /\ IsSequence(info.tables) /\ IsSequence(info.controller_packet_metadata)
  /\ \A fields \in FieldLists(info) :
       /\ IsSequence(fields)
       /\ \A f \in Elements(fields) :
            /\ f.id \in Nat /\ f.bitwidth \in Nat
            /\ Format(info, f) = "HEX_STRING" => f.bitwidth # 0

(* The part of an IPv6 address that an LPM field may be matched with fills  *)
(* as many bytes as the address: a shorter one is translated to the IR, but *)
(* not back (IrLpmToPi).                                                    *)
PrefixesAreOfWholeAddresses(info) ==
  \A t \in Elements(info.tables) : \A f \in Elements(t.match_fields) :
    f.match_type = "LPM" /\ Format(info, f) = "IPV6_ADDRESS" =>
      Ceiling(f.bitwidth, BitsPerByte) = Ceiling(AddressBits.IPV6_ADDRESS, BitsPerByte)

=============================================================================
