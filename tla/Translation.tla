------------------------------- MODULE Translation -------------------------------
(***************************************************************************)
(* One exchange between a P4Runtime client and a server that both work on  *)
(* the IR and use p4_pdpi/ir.cc at the wire: the client translates its     *)
(* request to PI, the server translates it to IR and its answer to PI, the *)
(* client translates the answer to IR.  Clients and servers that do not    *)
(* use the library put PI messages on the wire that follow no convention.  *)
(* A request is a write, a read, or a message of the stream; what a server *)
(* does with one, and so its answer, is not part of the library.  A client *)
(* may write its request as PD, and either side may show as PD what it     *)
(* has received (p4_pdpi/pd.cc).                                           *)
(***************************************************************************)
EXTENDS ProperMessages

CONSTANTS
  Program,         \* the P4Info both sides were given
  PdProgram,       \* the P4Info that PD was generated from
  OptionSets,      \* the translation options they may agree on
  Requests,        \* IR requests of each kind, by kind
  PdRequests,      \* PD requests of each kind
  WireRequests,    \* PI requests of each kind
  Answers(_, _),   \* IR answers to a request of a kind, as received
  WireAnswers(_, _),  \* PI answers to it
  None             \* no message yet

Kinds == {"write", "read", "stream"}

ASSUME ProgramsAreLegal == IsProgram(Program) /\ IsProgram(PdProgram)

ASSUME RequestsAreProper ==
  \A k \in Kinds :
    /\ \A m \in Requests[k] : IsRequest("ir", k, m)
    /\ \A m \in PdRequests[k] : IsPdRequest(k, m)
    /\ \A m \in WireRequests[k] : IsRequest("pi", k, m)

ASSUME NothingIsNoError == Refused \notin {None, OK}

IrInfo == CreateIrP4Info(Program)
Schema == CreateIrP4Info(PdProgram)

VARIABLES options, kind, shown, request, wire, received, answer, reply, learned

vars == <<options, kind, shown, request, wire, received, answer, reply, learned>>

------------------------------------------------------------------------------
(* The translations of each kind of exchange                               *)

RequestToPi(k, ir) ==
  CASE k = "write"  -> IrWriteRequestToPi(IrInfo, options, ir)
    [] k = "read"   -> IrReadRequestToPi(ir)
    [] k = "stream" -> IrStreamMessageRequestToPi(IrInfo, options, ir)

RequestToIr(k, pi) ==
  CASE k = "write"  -> PiWriteRequestToIr(IrInfo, options, pi)
    [] k = "read"   -> PiReadRequestToIr(pi)
    [] k = "stream" -> PiStreamMessageRequestToIr(IrInfo, pi)

AnswerToPi(k, ir) ==
  CASE k = "write"  -> IrWriteRpcStatusToGrpcStatus(ir)
    [] k = "read"   -> IrReadResponseToPi(IrInfo, options, ir)
    [] k = "stream" -> IrStreamMessageResponseToPi(IrInfo, options, ir)

(* The status of a write is read against the number of updates sent.        *)
AnswerToIr(k, pi) ==
  CASE k = "write"  -> GrpcStatusToIrWriteRpcStatus(pi, Len(wire.updates))
    [] k = "read"   -> PiReadResponseToIr(IrInfo, options, pi)
    [] k = "stream" -> PiStreamMessageResponseToIr(IrInfo, pi)

RequestFromPd(k, pd) ==
  CASE k = "write"  -> PdWriteRequestToIr(IrInfo, options, pd)
    [] k = "read"   -> PdReadRequestToIr(pd)
    [] k = "stream" -> PdStreamMessageRequestToIr(Schema, IrInfo, pd)

RequestToPd(k, ir) ==
  CASE k = "write"  -> IrWriteRequestToPd(Schema, IrInfo, options, ir)
    [] k = "read"   -> IrReadRequestToPd(ir)
    [] k = "stream" -> IrStreamMessageRequestToPd(Schema, IrInfo, ir)

AnswerFromPd(k, pd) ==
  CASE k = "write"  -> PdWriteRpcStatusToIr(pd)
    [] k = "read"   -> PdReadResponseToIr(IrInfo, options, pd)
    [] k = "stream" -> PdStreamMessageResponseToIr(Schema, IrInfo, pd)

AnswerToPd(k, ir) ==
  CASE k = "write"  -> IrWriteRpcStatusToPd(ir)
    [] k = "read"   -> IrReadResponseToPd(Schema, IrInfo, options, ir)
    [] k = "stream" -> IrStreamMessageResponseToPd(Schema, IrInfo, ir)

------------------------------------------------------------------------------
Init ==
  /\ options \in OptionSets
  /\ kind \in Kinds
  /\ shown = None /\ request = None /\ wire = None /\ received = None
  /\ answer = None /\ reply = None /\ learned = None

(* A client of the library; a request that is refused is not sent.          *)
Send ==
  /\ wire = None
  /\ \E r \in Requests[kind] : request' = r /\ wire' = RequestToPi(kind, r)
  /\ UNCHANGED <<options, kind, shown, received, answer, reply, learned>>

(* A client that writes its request as PD.                                  *)
SendPd ==
  /\ wire = None
  /\ \E pd \in PdRequests[kind] :
       LET ir == RequestFromPd(kind, pd)
       IN  /\ shown' = pd
           /\ IF ir = Refused THEN wire' = Refused /\ UNCHANGED request
              ELSE request' = ir /\ wire' = RequestToPi(kind, ir)
  /\ UNCHANGED <<options, kind, received, answer, reply, learned>>

SendOtherwise ==
  /\ wire = None
  /\ wire' \in WireRequests[kind]
  /\ UNCHANGED <<options, kind, shown, request, received, answer, reply, learned>>

Receive ==
  /\ wire \notin {None, Refused} /\ received = None
  /\ received' = RequestToIr(kind, wire)
  /\ UNCHANGED <<options, kind, shown, request, wire, answer, reply, learned>>

Answer ==
  /\ received \notin {None, Refused} /\ reply = None
  /\ \E a \in Answers(kind, received) : answer' = a /\ reply' = AnswerToPi(kind, a)
  /\ UNCHANGED <<options, kind, shown, request, wire, received, learned>>

AnswerOtherwise ==
  /\ received \notin {None, Refused} /\ reply = None
  /\ reply' \in WireAnswers(kind, received)
  /\ UNCHANGED <<options, kind, shown, request, wire, received, answer, learned>>

Learn ==
  /\ reply \notin {None, Refused} /\ learned = None
  /\ learned' = AnswerToIr(kind, reply)
  /\ UNCHANGED <<options, kind, shown, request, wire, received, answer, reply>>

Next == Send \/ SendPd \/ SendOtherwise \/ Receive \/ Answer \/ AnswerOtherwise \/ Learn

Spec == Init /\ [][Next]_vars

------------------------------------------------------------------------------
(* What a message means: for PI messages, whatever the length of values    *)

ValueMeaning(value) == IF "format" \in DOMAIN value THEN value ELSE value.number

(* No field is given twice, and their order does not matter.                *)
FieldsMeaning(fields) == {[f EXCEPT !.value = ValueMeaning(@)] : f \in Elements(fields)}

InvocationMeaning(action) == [action EXCEPT !.params = FieldsMeaning(@)]

(* How a choice among no members is made does not matter.                   *)
ActionMeaning(action) ==
  CASE action.type = "action" -> InvocationMeaning(action)
    [] action.type = "action_set" /\ action.members = << >> ->
         {InvocationMeaning(a) : a \in action.group_action}
    [] OTHER ->
         LET Member(m) == [m EXCEPT !.action = InvocationMeaning(m.action)]
         IN  [action EXCEPT
                !.group_action = {InvocationMeaning(a) : a \in action.group_action},
                !.members = [i \in DOMAIN action.members |-> Member(action.members[i])]]

WithMeaning(entity) ==
  IF entity.kind # "table_entry" THEN entity
  ELSE [entity EXCEPT
          !.matches = {[m EXCEPT !.value = EachValue(@, ValueMeaning)] : m \in Elements(@)},
          !.action = {ActionMeaning(a) : a \in @}]

Key(entity) ==
  CASE entity.kind = "table_entry"           -> <<entity.table, entity.matches, entity.priority>>
    [] entity.kind = "multicast_group_entry" -> <<entity.group_id>>
    [] entity.kind = "clone_session_entry"   -> <<entity.session_id>>

(* Of an entity that is translated with key_only, the key.                  *)
EntityMeaning(entity) ==
  LET meaning == WithMeaning(entity)
  IN  IF options.key_only THEN Key(meaning) ELSE meaning

OfUpdates(message, Entity(_)) ==
  LET Changed(update) == [update EXCEPT !.entity = Entity(update.entity)]
  IN  [message EXCEPT !.updates = [i \in DOMAIN @ |-> Changed(@[i])]]

RequestWith(message, Entity(_)) == IF kind = "write" THEN OfUpdates(message, Entity) ELSE message

AnswerWith(message, Entity(_)) ==
  IF kind = "read" THEN [i \in DOMAIN message |-> Entity(message[i])] ELSE message

StreamMeaning(message) ==
  IF message.kind = "arbitration" THEN message
  ELSE [message EXCEPT !.packet.metadata = FieldsMeaning(@)]

RequestMeaning(message) ==
  IF kind = "stream" THEN StreamMeaning(message) ELSE RequestWith(message, EntityMeaning)

AnswerMeaning(message) ==
  IF kind = "stream" THEN StreamMeaning(message) ELSE AnswerWith(message, EntityMeaning)

Arrived(message) == message \notin {None, Refused}

(* A prefix length of PI is signed.  A negative one is read as a prefix of  *)
(* no bits, and shown as PD; but IrLpmToPi and PdMatchEntryToIr refuse it.  *)
HasPrefixLengths(entity) ==
  entity.kind = "table_entry" =>
    \A m \in Elements(entity.matches) : m.value.type = "LPM" => m.value.prefix \in Nat

RequestHasLengths == kind = "write" => \A u \in Elements(wire.updates) : HasPrefixLengths(u.entity)

AnswerHasLengths == kind = "read" => \A e \in Elements(reply) : HasPrefixLengths(e)

(* What PD can say of an entity: counts in the unit of the table, but for   *)
(* an entry's own count of zero, and ids of 16 bits.                        *)
InPd(entity) ==
  LET table  == IrInfo.tables_by_name[entity.table]
      own(d) == [n \in DOMAIN d |-> IF n \in UnitFields(table) THEN d[n] ELSE 0]
  IN  CASE entity.kind = "table_entry" ->
             [entity EXCEPT
                !.meter_counter_data = {[c \in DOMAIN m |-> own(m[c])] : m \in @},
                !.counter_data = {d \in {own(c) : c \in @} : \E n \in DOMAIN d : d[n] # 0}]
        [] entity.kind = "multicast_group_entry" ->
             [entity EXCEPT !.group_id = Truncated(@),
                            !.replicas = [i \in DOMAIN @ |-> ShortReplica(@[i])]]
        [] OTHER -> entity

(* What matters of an entity written as PD, and of a message: metadata that *)
(* the P4Info does not know is left out without an error.                   *)
RelevantPd(pd) ==
  IF pd.kind = "multicast_group_entry"
  THEN IF options.key_only THEN GroupEntry(pd.group_id, "", {}) ELSE pd
  ELSE IF options.key_only THEN OnlyKey(pd)
  ELSE [pd EXCEPT
          !.counter_data = {d \in @ : \E n \in DOMAIN d : d[n] # 0},
          !.action = {IF a.type = "action_set" /\ a.members = << >>
                      THEN [EmptySet EXCEPT !.group_action = a.group_action] ELSE a : a \in @}]

RelevantMessage(message) ==
  IF kind = "stream" /\ message.kind = "packet"
  THEN [message EXCEPT !.packet.metadata =
          Restrict(@, DOMAIN @ \cap Names(IrInfo.packet_out_metadata))]
  ELSE RequestWith(message, RelevantPd)

------------------------------------------------------------------------------
(* Properties.  The deprecated allow_arbitrary_format gives up the first    *)
(* two: a value may arrive in another format, or be too long for its field. *)

(* What the client sends, the server sees, and the other way round: names,  *)
(* values, masks, prefixes, weights, metadata and counters come back from   *)
(* ids and canonical byte strings as they were.                             *)
NothingIsLostOnTheWay ==
  ~options.allow_arbitrary_format =>
    /\ request # None /\ Arrived(received) =>
         RequestMeaning(received) = RequestMeaning(request)
    /\ answer # None /\ Arrived(learned) /\ kind # "write" =>
         AnswerMeaning(learned) = AnswerMeaning(answer)

(* Both directions of the translation make the same checks: what one side   *)
(* translates to PI, the other side translates back, given the same program *)
(* and options.                                                             *)
WhatIsSentIsAccepted ==
  ~options.allow_arbitrary_format =>
    /\ request # None => received # Refused
    /\ answer # None /\ kind # "write" => learned # Refused

(* What is accepted from the wire can be put there again, and means the     *)
(* same, if its prefix lengths are not negative: of what the IR has a place *)
(* for, leading zeros, padding and the order of metadata are all that may   *)
(* change.  Fields of PI without such a place (is_default_action,           *)
(* idle_timeout_ns and controller_metadata of an entry, the role of a       *)
(* write) are dropped without an error; the messages here lack them.        *)
(* A server that stores IR entities and a client that stores what it read   *)
(* depend on it.                                                            *)
ForwardingKeepsTheMeaning ==
  LET SameRequest(again) ==
        again # Refused /\ RequestMeaning(again) = RequestMeaning(wire)
      SameAnswer(again) ==
        /\ again # Refused
        /\ kind # "write" => AnswerMeaning(again) = AnswerMeaning(reply)
  IN  /\ Arrived(received) /\ RequestHasLengths => SameRequest(RequestToPi(kind, received))
      /\ Arrived(learned) /\ AnswerHasLengths => SameAnswer(AnswerToPi(kind, learned))

(* The client learns of each of its updates whether it succeeded: it gets   *)
(* as many statuses as it sent updates, those the server gave unless all    *)
(* succeeded; a status for each update always gets through; and the write   *)
(* is OK as a whole just when every update is (GrpcStatusToIrWriteRpcStatus,*)
(* IrWriteRpcStatusToGrpcStatus and WriteRpcGrpcStatusToAbslStatus).        *)
ClientLearnsEveryOutcome ==
  LET n == Len(wire.updates)
  IN  kind = "write" /\ learned # None =>
        /\ answer # None /\ answer.kind = "rpc_response" /\ Len(answer.statuses) = n => learned = answer
        /\ answer # None /\ answer.kind = "rpc_wide_error" => learned = answer
        /\ learned # Refused /\ learned.kind = "rpc_response" =>
             /\ Len(learned.statuses) = n
             /\ answer # None => answer = learned \/ AllOK(answer.statuses)
        /\ WriteRpcGrpcStatusToAbslStatus(reply, n) = OK <=>
             learned # Refused /\ learned.kind = "rpc_response" /\ AllOK(learned.statuses)

(* PD, IR and PI say the same.  What a client wrote as PD is what the server *)
(* shows as PD, and what a message is shown as reads as that message:       *)
(* "PD -> IR -> PI -> IR2 -> PD2 and IR == IR2 and relevant_pd_fields(PD)   *)
(* == PD2" (test_helper.h, RunGenericPdTest), for whatever arrives without  *)
(* a negative prefix length.                                                *)
PdTellsTheSame ==
  LET RequestBack(back) ==
        /\ back # Refused
        /\ RequestMeaning(back) = RequestMeaning(RequestWith(received, InPd))
      AnswerBack(back) ==
        /\ back # Refused
        /\ AnswerMeaning(back) = AnswerMeaning(AnswerWith(learned, InPd))
      RequestShown(pd) ==
        /\ shown # None => pd = RelevantMessage(shown)
        /\ pd # Refused /\ RequestHasLengths => RequestBack(RequestFromPd(kind, pd))
      AnswerShown(pd) == pd # Refused /\ AnswerHasLengths => AnswerBack(AnswerFromPd(kind, pd))
  IN  /\ Arrived(received) => RequestShown(RequestToPd(kind, received))
      /\ Arrived(learned) => AnswerShown(AnswerToPd(kind, learned))

(* The bits of an LPM value below its prefix are zero: otherwise two        *)
(* entries that differ in nothing a packet can be matched by have different *)
(* keys.                                                                    *)
LpmValuesEndWithTheirPrefix ==
  kind = "write" /\ Arrived(received) =>
    \A u \in Elements(wire.updates) : u.entity.kind = "table_entry" =>
      \A m \in Elements(u.entity.matches) : m.value.type = "LPM" =>
        LET bits == Definition(IrInfo.tables_by_id[u.entity.table].match_fields, "id", m.field).bitwidth
        IN  m.value.value.number % TwoTo[bits - m.value.prefix] = 0

=============================================================================
