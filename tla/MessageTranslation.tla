--------------------------- MODULE MessageTranslation ---------------------------
(***************************************************************************)
(* P4Runtime messages between PI and IR (p4_pdpi/ir.cc): requests and      *)
(* responses of reads and writes, the messages of the stream, and the      *)
(* status of a write.                                                      *)
(*                                                                         *)
(*   write request   device_id, election_id, updates of [type, entity];    *)
(*                   a PI one also role_id and atomicity                   *)
(*   PI read request device_id and entities, of which only the reads of    *)
(*                   all table entries have a counterpart                  *)
(*   packet          payload and metadata, a sequence of [field, value]    *)
(*   stream message  [kind, arbitration | packet | error]                  *)
(*   write status    [kind |-> "rpc_response", statuses] or                *)
(*                   [kind |-> "rpc_wide_error", status], of [code, message]*)
(*   gRPC status     [code, message, details]; details is {} if empty, and *)
(*                   has Refused if it cannot be parsed                    *)
(* A oneof that is not set is outside of the model of stream messages: the *)
(* code follows a null pointer to say which case it got.                   *)
(***************************************************************************)
EXTENDS EntityTranslation

------------------------------------------------------------------------------
(* Packet-in and packet-out, by the definitions of their metadata          *)

IsPadding(definition) == HasAnnotation("padding", definition)

NotPadding(definitions) == {d \in definitions : ~IsPadding(d)}

WithMetadata(packet, metadata, padding) ==
  IF metadata = Refused THEN Refused ELSE [packet EXCEPT !.metadata = metadata \o padding]

IsData(definitions, piece) == piece.field \in {d.id : d \in NotPadding(definitions)}

DataOf(definitions, metadata) ==
  LET data[n \in 0 .. Len(metadata)] ==
        IF n = 0 THEN << >>
        ELSE IF IsData(definitions, metadata[n]) THEN Append(data[n - 1], metadata[n])
        ELSE data[n - 1]
  IN  data[Len(metadata)]

(* Every piece is there, padding too, which is zero and not translated.     *)
PiPacketIoToIr(definitions, packet) ==
  IF /\ FieldsDefined(packet.metadata, definitions, "id")
     /\ Len(packet.metadata) = Cardinality(definitions)
     /\ \A m \in Elements(packet.metadata) : IsData(definitions, m) \/ IsAllZeros(m.value)
  THEN WithMetadata(packet,
         PiParamsToIr(NotPadding(definitions), DataOf(definitions, packet.metadata)), << >>)
  ELSE Refused

CreatePaddingMetadata(id) == [field |-> id, value |-> Bytes(1, 0)]

(* Mutant of the next definition: the padding is left out.                  *)
IrPacketIoToPiUnpadded(options, definitions, packet) ==
  IF Len(packet.metadata) = Cardinality(NotPadding(definitions))
  THEN WithMetadata(packet, IrParamsToPi(options, NotPadding(definitions), packet.metadata), << >>)
  ELSE Refused

IrPacketIoToPi(options, definitions, packet) ==
  LET padding == {CreatePaddingMetadata(d.id) : d \in definitions \ NotPadding(definitions)}
  IN  IF Len(packet.metadata) = Cardinality(NotPadding(definitions))
      THEN WithMetadata(packet, IrParamsToPi(options, NotPadding(definitions), packet.metadata),
                        SetToSeq(padding))
      ELSE Refused

------------------------------------------------------------------------------
(* Reads                                                                   *)

(* counter_data and meter_config of the one entry that is asked for.        *)
PiReadRequestToIr(pi) ==
  IF /\ pi.device_id # 0
     /\ Len(pi.entities) = 1
     /\ pi.entities[1].kind = "table_entry" /\ pi.entities[1].wildcard
     /\ {"filled"} \cap (pi.entities[1].counter_data \cup pi.entities[1].meter_config) = {}
  THEN [device_id |-> pi.device_id,
        read_counter_data |-> pi.entities[1].counter_data # {},
        read_meter_configs |-> pi.entities[1].meter_config # {}]
  ELSE Refused

IrReadRequestToPi(ir) ==
  IF ir.device_id = 0 THEN Refused
  ELSE [device_id |-> ir.device_id,
        entities |-> <<[kind |-> "table_entry", wildcard |-> TRUE,
                        counter_data |-> IF ir.read_counter_data THEN {"empty"} ELSE {},
                        meter_config |-> IF ir.read_meter_configs THEN {"empty"} ELSE {}]>>]

PiReadResponseToIr(info, options, pi) == PiEntitiesToIr(info, options, pi)

IrReadResponseToPi(info, options, ir) == IrEntitiesToPi(info, options, ir)

------------------------------------------------------------------------------
(* Writes                                                                  *)

UpdateTypes == {"INSERT", "MODIFY", "DELETE"}

(* The entity of an update, when it translates.                             *)
WithEntity(update, entity) ==
  IF entity = Refused THEN Refused ELSE [update EXCEPT !.entity = entity]

PiUpdateToIr(info, options, update) ==
  IF update.type = "UNSPECIFIED" THEN Refused
  ELSE WithEntity(update, PiEntityToIr(info, options, update.entity))

IrUpdateToPi(info, options, update) ==
  IF update.type \notin UpdateTypes THEN Refused
  ELSE WithEntity(update, IrEntityToPi(info, options, update.entity))

(* An election id of zero is as good as none.                               *)
IrRequest(pi, updates) ==
  IF updates = Refused THEN Refused
  ELSE [device_id |-> pi.device_id, election_id |-> pi.election_id, updates |-> updates]

PiWriteRequestToIr(info, options, pi) ==
  IF pi.role_id # 0 \/ pi.atomicity # "CONTINUE_ON_ERROR" THEN Refused
  ELSE IrRequest(pi, All([i \in DOMAIN pi.updates |-> PiUpdateToIr(info, options, pi.updates[i])]))

PiRequest(ir, updates) ==
  IF updates = Refused THEN Refused
  ELSE [role_id |-> 0, atomicity |-> "CONTINUE_ON_ERROR",
        device_id |-> ir.device_id, election_id |-> ir.election_id, updates |-> updates]

IrWriteRequestToPi(info, options, ir) ==
  PiRequest(ir, All([i \in DOMAIN ir.updates |-> IrUpdateToPi(info, options, ir.updates[i])]))

------------------------------------------------------------------------------
(* The stream: packets out and their errors, packets in, arbitration       *)

WithPacket(message, packet) ==
  IF packet = Refused THEN Refused ELSE [message EXCEPT !.packet = packet]

PiStreamMessageRequestToIr(info, pi) ==
  CASE pi.kind = "arbitration" -> pi
    [] pi.kind = "packet"      -> WithPacket(pi, PiPacketIoToIr(info.packet_out_metadata, pi.packet))
    [] OTHER                   -> Refused

IrStreamMessageRequestToPi(info, options, ir) ==
  CASE ir.kind = "arbitration" -> ir
    [] ir.kind = "packet"      -> WithPacket(ir, IrPacketIoToPi(options, info.packet_out_metadata, ir.packet))
    [] OTHER                   -> Refused

(* An error is about a packet-out.                                          *)
PiStreamMessageResponseToIr(info, pi) ==
  CASE pi.kind = "arbitration" -> pi
    [] pi.kind = "packet"      -> WithPacket(pi, PiPacketIoToIr(info.packet_in_metadata, pi.packet))
    [] pi.kind = "error" /\ pi.details = "packet_out" ->
         WithPacket(pi, PiPacketIoToIr(info.packet_out_metadata, pi.packet))
    [] OTHER                   -> Refused

IrStreamMessageResponseToPi(info, options, ir) ==
  CASE ir.kind = "arbitration" -> ir
    [] ir.kind = "packet"      -> WithPacket(ir, IrPacketIoToPi(options, info.packet_in_metadata, ir.packet))
    [] ir.kind = "error"       -> WithPacket(ir, IrPacketIoToPi(options, info.packet_out_metadata, ir.packet))
    [] OTHER                   -> Refused

------------------------------------------------------------------------------
(* The status of a write: one for the request, or one for each update      *)

OK == 0
UNKNOWN == 2

IsGoogleRpcCode(code) == code \in 0 .. 15

ValidateGenericUpdateStatus(status) == status.code = OK => status.message = ""

StatusesOk(statuses) ==
  \A s \in Elements(statuses) : IsGoogleRpcCode(s.code) /\ ValidateGenericUpdateStatus(s)

AllOK(statuses) == \A s \in Elements(statuses) : s.code = OK

Response(statuses) == [kind |-> "rpc_response", statuses |-> statuses]

WideError(status) == [kind |-> "rpc_wide_error", status |-> status]

GrpcStatus(code, message, details) == [code |-> code, message |-> message, details |-> details]

(* Mutant of the next definition: any number of statuses will do.           *)
DetailsOkUncounted(details, n) ==
  /\ details # Refused
  /\ details.code = UNKNOWN
  /\ StatusesOk(details.statuses)
  /\ ~AllOK(details.statuses)

(* The details of an error are those of n updates that did not all succeed. *)
DetailsOk(details, n) ==
  /\ details # Refused
  /\ details.code = UNKNOWN
  /\ Len(details.statuses) = n
  /\ StatusesOk(details.statuses)
  /\ ~AllOK(details.statuses)

GrpcStatusToIrWriteRpcStatus(grpc, n) ==
  IF grpc.code = OK THEN
    IF grpc.message = "" /\ grpc.details = {}
    THEN Response([i \in 1 .. n |-> [code |-> OK, message |-> ""]]) ELSE Refused
  ELSE IF grpc.details = {} THEN
    IF IsGoogleRpcCode(grpc.code)
    THEN WideError([code |-> grpc.code, message |-> grpc.message]) ELSE Refused
  ELSE
    IF grpc.code = UNKNOWN /\ \A d \in grpc.details : DetailsOk(d, n)
    THEN Response((CHOOSE d \in grpc.details : TRUE).statuses) ELSE Refused

(* The message of an error that has details; it is for people to read.      *)
IrWriteResponseToReadableMessage(statuses) == "statuses"

IrWriteResponseToGrpcStatus(statuses) ==
  IF StatusesOk(statuses)
  THEN GrpcStatus(UNKNOWN, IrWriteResponseToReadableMessage(statuses),
                  {[code |-> UNKNOWN, statuses |-> statuses]})
  ELSE Refused

IrWriteRpcStatusToGrpcStatus(ir) ==
  CASE ir.kind = "rpc_response" ->
         IF \A s \in Elements(ir.statuses) : s.code = OK /\ s.message = ""
         THEN GrpcStatus(OK, "", {}) ELSE IrWriteResponseToGrpcStatus(ir.statuses)
    [] ir.kind = "rpc_wide_error" ->
         IF IsGoogleRpcCode(ir.status.code) /\ ir.status.code # OK
         THEN GrpcStatus(ir.status.code, ir.status.message, {}) ELSE Refused
    [] OTHER -> Refused

(* An error of some updates becomes the code UNKNOWN.                       *)
WriteRpcGrpcStatusToAbslStatus(grpc, n) ==
  LET ir == GrpcStatusToIrWriteRpcStatus(grpc, n)
  IN  IF ir = Refused THEN Refused
      ELSE IF ir.kind = "rpc_wide_error" THEN ir.status.code
      ELSE IF AllOK(ir.statuses) THEN OK ELSE UNKNOWN

=============================================================================
