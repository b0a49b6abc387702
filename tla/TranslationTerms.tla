---------------------------- MODULE TranslationTerms ----------------------------
(***************************************************************************)
(* The terms in which the proofs about the translation speak: what its     *)
(* inputs look like, what its results mean, and the inductive invariant of *)
(* an exchange.                                                            *)
(***************************************************************************)
EXTENDS Translation

------------------------------------------------------------------------------
(* Lists and sets                                                          *)

(* One list has one element more than another.                              *)
HasOneMore(longer, list, e) ==
  /\ IsSequence(longer) /\ Len(longer) = Len(list) + 1 /\ Len(list) \in Nat
  /\ DOMAIN longer = 1 .. Len(list) + 1 /\ DOMAIN list = 1 .. Len(list)
  /\ \A i \in 1 .. Len(list) : longer[i] = list[i]
  /\ longer[Len(list) + 1] = e
  /\ Elements(longer) = Elements(list) \cup {e}

(* A list has all elements of one list, and then all of another.            *)
HasBoth(both, list, other) ==
  /\ IsSequence(both) /\ Len(both) = Len(list) + Len(other)
  /\ \A i \in DOMAIN list : i \in DOMAIN both /\ both[i] = list[i]
  /\ \A i \in DOMAIN other : Len(list) + i \in DOMAIN both /\ both[Len(list) + i] = other[i]
  /\ \A i \in DOMAIN both : i \in DOMAIN list \/ (i - Len(list) \in DOMAIN other /\ Len(list) + (i - Len(list)) = i)
  /\ Elements(both) = Elements(list) \cup Elements(other)

(* A sequence has all elements of a set, each of them once.                 *)
HasAllOnce(list, S) ==
  /\ IsSequence(list) /\ Len(list) = Cardinality(S) /\ DOMAIN list = 1 .. Cardinality(S)
  /\ Elements(list) = S
  /\ \A i, j \in DOMAIN list : list[i] = list[j] => i = j

Images(f, S) == {f[x] : x \in S}

(* No two pieces are of the same field.                                     *)
AreDistinct(fields) == \A i, j \in DOMAIN fields : fields[i].field = fields[j].field => i = j

------------------------------------------------------------------------------
(* What a P4Info and its definitions are                                   *)

(* No two definitions have the same id or the same name.                    *)
IsKeyed(definitions) ==
  \A d, e \in definitions : d.id = e.id \/ d.name = e.name => d = e

(* What a program says of a field, a parameter or a piece of metadata.      *)
IsDefinition(definition) ==
  /\ definition.bitwidth \in Nat
  /\ definition.format \in AddressFormats \cup {"STRING", "HEX_STRING"}
  /\ definition.format \in {"MAC_ADDRESS", "IPV4_ADDRESS"} =>
       definition.bitwidth = AddressBits[definition.format]
  /\ definition.format = "IPV6_ADDRESS" => definition.bitwidth <= AddressBits[definition.format]
  /\ definition.format = "HEX_STRING" => definition.bitwidth # 0

(* The bytes of a value that is not text, before it is made canonical.      *)
WireSize(definition) ==
  IF definition.format \in AddressFormats THEN Ceiling(AddressBits[definition.format], BitsPerByte)
  ELSE Ceiling(definition.bitwidth, BitsPerByte)

(* A number is read as a value, however many bytes it has.                  *)
ReadsAs(definition, number, value) ==
  \A size \in Nat \ {0} : IrValueOf(definition, Bytes(size, number)) = value

AreDefinitions(definitions) == IsKeyed(definitions) /\ \A d \in definitions : IsDefinition(d)

IsMatchField(field) ==
  /\ IsDefinition(field)
  /\ field.match_type \in {"LPM", "TERNARY"} => field.format # "STRING"

IsTable(table) ==
  IsKeyed(table.match_fields) /\ \A f \in table.match_fields : IsMatchField(f)

(* The fields of a table that are matched by prefixes are whole addresses.  *)
HasWholeAddresses(table) ==
  \A f \in table.match_fields :
    f.match_type = "LPM" => WireSize(f) = Ceiling(f.bitwidth, BitsPerByte)

(* Two references of a table to actions of the same id are to the same one. *)
AreReferences(refs) ==
  /\ \A r, s \in refs : r.action.id = s.action.id <=> r.action.name = s.action.name
  /\ \A r \in refs : AreDefinitions(r.action.params)

(* A table is found by its id and by its name, and its definitions are      *)
(* proper.                                                                  *)
IsInfo(info) ==
  /\ \A t \in {info.tables_by_id[i] : i \in DOMAIN info.tables_by_id}
              \cup {info.tables_by_name[n] : n \in DOMAIN info.tables_by_name} :
       /\ t.id \in DOMAIN info.tables_by_id /\ info.tables_by_id[t.id] = t
       /\ t.name \in DOMAIN info.tables_by_name /\ info.tables_by_name[t.name] = t
       /\ IsTable(t) /\ AreReferences(t.entry_actions)
  /\ \A i \in DOMAIN info.tables_by_id : info.tables_by_id[i].id = i
  /\ \A n \in DOMAIN info.tables_by_name : info.tables_by_name[n].name = n
  /\ AreDefinitions(info.packet_in_metadata) /\ AreDefinitions(info.packet_out_metadata)
  /\ IsFiniteSet(info.packet_in_metadata) /\ IsFiniteSet(info.packet_out_metadata)

------------------------------------------------------------------------------
(* The parts of an entry                                                   *)

Entry(table, matches, priority, metadata, action, meter, data, counter) ==
  [kind |-> "table_entry", table |-> table, matches |-> matches, priority |-> priority,
   metadata |-> metadata, action |-> action, meter_config |-> meter,
   meter_counter_data |-> data, counter_data |-> counter]

(* The checks of an entry look at these parts of it.                        *)
EntryPartsOk(opts, table, matches, priority, given, action, meter, data, counter) ==
  /\ Usable(table, opts) /\ CheckMandatoryMatches(table, matches) /\ PriorityOk(table, priority)
  /\ opts.key_only \/ (/\ ActionTypeOk(table, given)
                       /\ OptionalOk(action)
                       /\ meter # {} => table.meter
                       /\ data # {} => table.meter /\ meter # {}
                       /\ counter # {} => table.counter # {})

(* The translation of an entry, whose parts are given and translated.       *)
EntryOrError(opts, definition, reference, matches, others, priority, metadata, action, another,
             meter, data, counter) ==
  IF \/ others = Refused
     \/ ~EntryPartsOk(opts, definition, matches, priority, action, another, meter, data, counter)
  THEN Refused
  ELSE IF opts.key_only THEN Entry(reference, others, priority, "", {}, {}, {}, {})
  ELSE Entry(reference, others, priority, metadata, another, meter, data, counter)

(* An entry that only has a key.                                            *)
KeyEntry(table, matches, priority) == Entry(table, matches, priority, "", {}, {}, {}, {})

------------------------------------------------------------------------------
(* What messages mean                                                      *)

SameNumber(bytes, number) == \E size : bytes = Bytes(size, number)

(* Lists that differ in nothing but the lengths of their values.            *)
SameFields(fields, others) ==
  /\ DOMAIN fields = DOMAIN others
  /\ \A i \in DOMAIN others :
       /\ IsRecord(fields[i], {"field", "value"}) /\ IsRecord(others[i], {"field", "value"})
       /\ fields[i].field = others[i].field /\ IsBytes(others[i].value)
       /\ SameNumber(fields[i].value, others[i].value.number)

MatchMeaning(match) == EachValue(match, ValueMeaning)

MatchesMeaning(matches) == {[m EXCEPT !.value = MatchMeaning(@)] : m \in Elements(matches)}

SameMatches(matches, others) ==
  /\ DOMAIN matches = DOMAIN others
  /\ \A i \in DOMAIN others :
       /\ IsRecord(matches[i], {"field", "value"}) /\ IsRecord(others[i], {"field", "value"})
       /\ matches[i].field = others[i].field
       /\ MatchMeaning(matches[i].value) = MatchMeaning(others[i].value)

(* Lists of matches of the same types have as many exact ones.              *)
SameTypes(matches, others) ==
  /\ DOMAIN matches = DOMAIN others
  /\ \A i \in DOMAIN others : matches[i].value.type = others[i].value.type

(* What an entity means under some options.                                 *)
MeaningUnder(opts, entity) == IF opts.key_only THEN Key(WithMeaning(entity)) ELSE WithMeaning(entity)

EntryMeaning(opts, table, matches, priority, metadata, actions, meter, data, counter) ==
  IF opts.key_only THEN <<table, matches, priority>>
  ELSE Entry(table, matches, priority, metadata, actions, meter, data, counter)

EntitiesMeaning(opts, entities) == [i \in DOMAIN entities |-> MeaningUnder(opts, entities[i])]

Update(type, entity) == [type |-> type, entity |-> entity]

(* What updates mean under some options.                                    *)
UpdatesMeaning(opts, updates) ==
  [i \in DOMAIN updates |-> Update(updates[i].type, MeaningUnder(opts, updates[i].entity))]

(* What a write request means under some options.                           *)
WriteMeaning(opts, message) == [message EXCEPT !.updates = UpdatesMeaning(opts, message.updates)]

FieldMeaning(f) == [f EXCEPT !.value = ValueMeaning(@)]

PacketMeaning(packet) == [packet EXCEPT !.metadata = FieldsMeaning(@)]

------------------------------------------------------------------------------
(* Packets                                                                 *)

(* The pieces of metadata that are no padding, up to each of them.          *)
IsDataOf(definitions, metadata, data) ==
  data = [n \in 0 .. Len(metadata) |->
            IF n = 0 THEN << >>
            ELSE IF IsData(definitions, metadata[n]) THEN Append(data[n - 1], metadata[n])
            ELSE data[n - 1]]

(* Each piece is added to those before it, unless it is padding.            *)
AddsData(definitions, metadata, data) ==
  /\ data[0] = << >>
  /\ \A n \in 1 .. Len(metadata) :
       data[n] = IF IsData(definitions, metadata[n]) THEN Append(data[n - 1], metadata[n]) ELSE data[n - 1]

(* Every piece of a packet from the wire is there, and padding is zero.     *)
PiecesOk(definitions, metadata) ==
  /\ FieldsDefined(metadata, definitions, "id")
  /\ Len(metadata) = Cardinality(definitions)
  /\ \A m \in Elements(metadata) : IsData(definitions, m) \/ IsAllZeros(m.value)

------------------------------------------------------------------------------
(* Outcomes of a write                                                     *)

(* What ClientLearnsEveryOutcome says of one write.                         *)
OutcomesAreLearned(answer_, grpc, ir, n) ==
  /\ answer_ # None /\ answer_.kind = "rpc_response" /\ Len(answer_.statuses) = n => ir = answer_
  /\ answer_ # None /\ answer_.kind = "rpc_wide_error" => ir = answer_
  /\ ir # Refused /\ ir.kind = "rpc_response" =>
       /\ Len(ir.statuses) = n
       /\ answer_ # None => answer_ = ir \/ AllOK(answer_.statuses)
  /\ WriteRpcGrpcStatusToAbslStatus(grpc, n) = OK <=>
       ir # Refused /\ ir.kind = "rpc_response" /\ AllOK(ir.statuses)

(* The last part, for any status that is read.                              *)
MayBeRead(ir) ==
  ir # Refused => ir.kind = "rpc_response" \/ (ir.kind = "rpc_wide_error" /\ ir.status.code # OK)

IsOkAsAWhole(grpc, ir, n) ==
  WriteRpcGrpcStatusToAbslStatus(grpc, n) = OK <=>
    ir # Refused /\ ir.kind = "rpc_response" /\ AllOK(ir.statuses)

------------------------------------------------------------------------------
(* An exchange                                                             *)

(* A server answers with messages of the kind of the request.               *)
AnswersAreProper ==
  \A k \in Kinds : \A m :
    /\ \A a \in Answers(k, m) : IsAnswer("ir", k, a)
    /\ \A a \in WireAnswers(k, m) : IsAnswer("pi", k, a)

(* The translations of an exchange under some options.                      *)
SentAs(opts, k, ir) ==
  CASE k = "write"  -> IrWriteRequestToPi(IrInfo, opts, ir)
    [] k = "read"   -> IrReadRequestToPi(ir)
    [] k = "stream" -> IrStreamMessageRequestToPi(IrInfo, opts, ir)

ReceivedAs(opts, k, pi) ==
  CASE k = "write"  -> PiWriteRequestToIr(IrInfo, opts, pi)
    [] k = "read"   -> PiReadRequestToIr(pi)
    [] k = "stream" -> PiStreamMessageRequestToIr(IrInfo, pi)

AnsweredAs(opts, k, ir) ==
  CASE k = "write"  -> IrWriteRpcStatusToGrpcStatus(ir)
    [] k = "read"   -> IrReadResponseToPi(IrInfo, opts, ir)
    [] k = "stream" -> IrStreamMessageResponseToPi(IrInfo, opts, ir)

LearnedAs(opts, k, sent, pi) ==
  CASE k = "write"  -> GrpcStatusToIrWriteRpcStatus(pi, Len(sent.updates))
    [] k = "read"   -> PiReadResponseToIr(IrInfo, opts, pi)
    [] k = "stream" -> PiStreamMessageResponseToIr(IrInfo, pi)

(* The inductive invariant: a message that has arrived is what the          *)
(* translation makes of the one before it, and each is a message of its     *)
(* kind.                                                                    *)
RequestIsSent ==
  request # None => IsRequest("ir", kind, request) /\ wire = SentAs(options, kind, request)

WireIsProper ==
  /\ Arrived(wire) => IsRequest("pi", kind, wire)
  /\ wire = None => request = None

RequestIsReceived ==
  received # None => Arrived(wire) /\ received = ReceivedAs(options, kind, wire)

AnswerIsSent ==
  answer # None => IsAnswer("ir", kind, answer) /\ reply = AnsweredAs(options, kind, answer)

ReplyIsProper ==
  /\ Arrived(reply) => IsAnswer("pi", kind, reply)
  /\ reply = None => answer = None
  /\ reply # None => Arrived(received)

AnswerIsLearned ==
  learned # None => Arrived(reply) /\ learned = LearnedAs(options, kind, wire, reply)

ExchangeInv ==
  /\ kind \in Kinds
  /\ RequestIsSent /\ WireIsProper /\ RequestIsReceived
  /\ AnswerIsSent /\ ReplyIsProper /\ AnswerIsLearned

==============================================================================
