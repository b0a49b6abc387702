---------------------------- MODULE PacketUpdates ----------------------------
(***************************************************************************)
(* A caller that builds a packet: it sets fields, has the packet padded,   *)
(* has the computed fields filled in or all of them computed, and has it   *)
(* serialized.  Computing goes through the headers from the innermost to   *)
(* the outermost, in place, and stops in the middle when a value cannot be *)
(* computed.                                                               *)
(***************************************************************************)
EXTENDS Packets

CONSTANTS
  InitialPackets,  \* packets to start with
  EditValues,      \* values that the caller sets fields to
  MaxEdits         \* bound on the number of edits

ASSUME InitialPacketsArePackets == \A p \in InitialPackets : IsPacket(p)

ASSUME EditValuesAreValues == EditValues \subseteq Nat \cup {Missing, Malformed}

ASSUME BoundIsNumber == MaxEdits \in Nat

VARIABLES
  packet,    \* the packet, or the copy of it that is being serialized
  before,    \* the packet when the last call was made
  call,      \* the last call
  todo,      \* the steps of the call that are still to be made
  index,     \* header_index of the loop, counting from one
  position,  \* the computed field of that header that comes next
  changes,   \* whether the step changed the packet
  result,    \* "none" before a call has ended and after an edit; "ok",
             \* "error", or "failed" in validation or out of bounds
  completed, \* the packet that was validated last
  edits      \* number of edits so far

loop == <<index, position>>
vars == <<packet, before, call, todo, index, position, changes, result,
          completed, edits>>

(* Mutant of the next definition: padding comes last.                       *)
PadLast == [
  PadPacketToMinimumSize      |-> <<"pad">>,
  UpdateMissingComputedFields |-> <<"missing">>,
  UpdateAllComputedFields     |-> <<"all">>,
  SerializePacket             |-> <<"missing", "pad", "validate">> ]

Calls == [
  PadPacketToMinimumSize      |-> <<"pad">>,
  UpdateMissingComputedFields |-> <<"missing">>,
  UpdateAllComputedFields     |-> <<"all">>,
  SerializePacket             |-> <<"pad", "missing", "validate">> ]

Init ==
  /\ packet \in InitialPackets
  /\ before = packet
  /\ call = "none"
  /\ todo = <<>>
  /\ index = 0 /\ position = 1
  /\ changes = FALSE
  /\ result = "none"
  /\ completed = packet
  /\ edits = 0

-----------------------------------------------------------------------------
(* The caller *)

EditField(i, f, value) ==
  /\ todo = <<>> /\ result # "failed"
  /\ edits < MaxEdits
  /\ packet.headers[i].field[f] # value
  /\ f \in Flags /\ value \in Nat => value < 2
  /\ packet' = [packet EXCEPT !.headers[i] = WithField(@, f, value)]
  /\ result' = "none"
  /\ edits' = edits + 1
  /\ UNCHANGED <<before, call, todo, loop, changes, completed>>

Call(c) ==
  /\ todo = <<>> /\ result # "failed"
  /\ call' = c
  /\ todo' = Calls[c]
  /\ before' = packet
  /\ index' = Len(packet.headers) /\ position' = 1
  /\ changes' = FALSE
  /\ result' = "none"
  /\ UNCHANGED <<packet, completed, edits>>

-----------------------------------------------------------------------------
(* How a step ends.  SerializePacket takes its packet by value. *)

Stop(status) ==
  /\ result' = status
  /\ todo' = <<>>
  /\ packet' = IF call = "SerializePacket" THEN before ELSE packet

\* On to the next step of the call, with what the step made of the packet.
Proceed(newPacket) ==
  /\ todo' = Tail(todo)
  /\ result' = IF Tail(todo) = <<>> THEN "ok" ELSE "none"
  /\ packet' = newPacket

-----------------------------------------------------------------------------
(* Padding *)

\* The first Ethernet header, looked for up to a header that is not set.
HasEthernet(p, i) ==
  /\ p.headers[i].case = "ethernet"
  /\ \A j \in 1 .. i - 1 : p.headers[j].case \notin {"ethernet", "not_set"}

\* Appends zeros to the payload (resize), or leaves it alone.
Padded(p, i) ==
  LET size    == SizeFrom(p, i + 1)
      missing == MinPayload - size
  IN  IF missing <= 0 THEN p
      ELSE [p EXCEPT !.payload = @ \o [k \in 1 .. missing |-> 0]]

Pad ==
  /\ todo # <<>> /\ Head(todo) = "pad"
  /\ IF \E i \in DOMAIN packet.headers : HasEthernet(packet, i)
     THEN LET i == CHOOSE i \in DOMAIN packet.headers : HasEthernet(packet, i)
          IN  IF SizeFrom(packet, i + 1) = Undefined
              THEN Stop("error") /\ UNCHANGED changes
              ELSE /\ Proceed(Padded(packet, i))
                   /\ changes' = (Padded(packet, i) # packet)
     ELSE Proceed(packet) /\ UNCHANGED changes
  /\ UNCHANGED <<before, call, loop, completed, edits>>

-----------------------------------------------------------------------------
(* UpdateComputedFields *)

Updating == todo # <<>> /\ Head(todo) \in {"missing", "all"}

Overwrite == Head(todo) = "all"

(* Mutant of the next definition: a size is always computed.                *)
SizeAlways(p, i, overwrite) ==
  LET old      == p.headers[i].field.ethertype
      computed == ComputedValue(p, i, "ethertype")
  IN  CASE old = Malformed -> Undefined
        [] old = Missing /\ i = Len(p.headers) -> computed
        [] old \in 0 .. Mtu /\ i = Len(p.headers) -> computed
        [] OTHER -> old

\* An EtherType is computed if it is a size and no header follows; it has to
\* be readable anyway, and an absent one counts as zero.
NewEtherType(p, i, overwrite) ==
  LET old       == p.headers[i].field.ethertype
      ethertype == IF old = Missing THEN 0 ELSE old
      computed  == ComputedValue(p, i, "ethertype")
  IN  CASE old = Malformed -> Undefined
        [] old # Malformed /\ (old = Missing \/ overwrite) /\ ethertype <= Mtu
             /\ i = Len(p.headers) ->
             IF computed = ethertype THEN old ELSE computed
        [] OTHER -> old

\* Options of IPv6 that are there are kept (those that are too short and get
\* padded are left out).  A UDP checksum of which nothing is known is kept,
\* too, or set to zero.
NewValue(p, i, f, overwrite) ==
  LET old      == p.headers[i].field[f]
      computed == ComputedValue(p, i, f)
  IN  CASE f = "ethertype" -> NewEtherType(p, i, overwrite)
        [] f # "ethertype" /\ old # Missing
             /\ (~overwrite \/ f = "options_and_padding") -> old
        [] OTHER -> IF computed # AnyValue THEN computed
                    ELSE IF old = Missing THEN 0 ELSE old

(* Mutant of the next definition: the last field decides.                   *)
LastChanged(h, f, value) == value # h.field[f]

Changed(h, f, value) == changes \/ value # h.field[f]

\* One computed field of the header of this turn of the loop.
UpdateField ==
  /\ Updating /\ index > 0
  /\ LET h      == packet.headers[index]
         fields == ComputedFieldsOf(h)
         f      == fields[position]
         value  == NewValue(packet, index, f, Overwrite)
     IN  /\ h.case # "not_set"
         /\ position <= Len(fields)
         /\ CASE value = Undefined -> Stop("error") /\ UNCHANGED <<loop, changes>>
              [] value = OutOfBounds ->
                   Stop("failed") /\ UNCHANGED <<loop, changes>>
              [] OTHER ->
                   /\ packet' = [packet EXCEPT !.headers[index] =
                                   WithField(@, f, value)]
                   /\ changes' = Changed(h, f, value)
                   /\ position' = position + 1
                   /\ UNCHANGED <<todo, index, result>>
  /\ UNCHANGED <<before, call, completed, edits>>

NextHeader ==
  /\ Updating /\ index > 0
  /\ LET h == packet.headers[index]
     IN  IF h.case = "not_set"
         THEN Stop("error") /\ UNCHANGED loop
         ELSE /\ position > Len(ComputedFieldsOf(h))
              /\ index' = index - 1 /\ position' = 1
              /\ UNCHANGED <<packet, todo, result>>
  /\ UNCHANGED <<before, call, changes, completed, edits>>

FinishUpdate ==
  /\ Updating /\ index = 0
  /\ Proceed(packet)
  /\ UNCHANGED <<before, call, loop, changes, completed, edits>>

-----------------------------------------------------------------------------
(* The end of SerializePacket: validation, and serialization as is *)

Validate ==
  /\ todo # <<>> /\ Head(todo) = "validate"
  /\ completed' = packet
  /\ IF ValidationFails(packet) THEN Stop("failed")
     ELSE IF ~PacketValid(packet) \/ RawSerializePacket(packet) = Undefined
     THEN Stop("error") ELSE Stop("ok")
  /\ UNCHANGED <<before, call, loop, changes, edits>>

\* A failure ends the program.
Aborted == result = "failed" /\ UNCHANGED vars

-----------------------------------------------------------------------------

Step == Pad \/ UpdateField \/ NextHeader \/ FinishUpdate \/ Validate

Next ==
  \/ \E i \in DOMAIN packet.headers : \E f \in FieldsOf(packet.headers[i].case) :
       \E value \in EditValues : EditField(i, f, value)
  \/ \E c \in DOMAIN Calls : Call(c)
  \/ Step
  \/ Aborted

Spec == Init /\ [][Next]_vars

-----------------------------------------------------------------------------
(* Properties *)

Fresh(c) == call = c /\ todo = <<>> /\ result = "ok"

\* A computed field, once computed, is what the validator wants it to be.  The
\* EtherType of a header before another one is not a size, and is left alone.
UpToDate(p, i, f) ==
  LET h == p.headers[i]
  IN  IF h.case = "ethernet"
      THEN \/ i < Len(p.headers) \/ h.field.ethertype \notin 0 .. Mtu
           \/ h.field.ethertype = SizeFrom(p, i + 1)
      ELSE h.field[f] \in Nat => ComputedFieldValid(p, i, f)

\* One pass is enough: after UpdateAllComputedFields every computed field is
\* what it should be in the packet as it is now, although lengths and
\* checksums are computed one after the other over fields that change.  The
\* checksum of a GRE header is the exception: it is computed before reserved1,
\* which it covers, is set.
NothingIsStale ==
  Fresh("UpdateAllComputedFields") =>
    \A i \in DOMAIN packet.headers :
      \A f \in FieldsOf(packet.headers[i].case) :
        /\ IsComputed(packet.headers[i], f)
        /\ ~(packet.headers[i].case = "gre" /\ f = "checksum")
        => UpToDate(packet, i, f)

InUpdate ==
  /\ call \in {"UpdateMissingComputedFields", "UpdateAllComputedFields"}
  /\ todo # <<>> \/ result # "none"

\* An update, finished, failed or under way, changes computed fields only, and
\* UpdateMissingComputedFields only those that were missing: the caller's
\* choice of a wrong value survives.
OnlyGapsAreFilled ==
  InUpdate =>
    /\ packet.payload = before.payload
    /\ DOMAIN packet.headers = DOMAIN before.headers
    /\ \A i \in DOMAIN packet.headers :
         LET h == packet.headers[i]  old == before.headers[i]
         IN  /\ h.case = old.case /\ h.options = old.options
             /\ \A f \in FieldsOf(h.case) :
                  h.field[f] = old.field[f]
                  \/ /\ IsComputed(old, f)
                     /\ call = "UpdateMissingComputedFields"
                          => old.field[f] = Missing

\* Padding and updates tell the caller whether they changed anything.
ChangesAreReported ==
  /\ result = "ok" /\ call # "SerializePacket"
  => (changes <=> packet # before)

\* Options of IPv6 that are missing will be the shortest ones.
WithShortestOptions(h) ==
  IF h.case = "hop_by_hop" THEN WithField(h, "header_extension_length", 0) ELSE h

\* Packets in which nothing is wrong but computed fields are missing.
OnlyComputedFieldsMissing(p) ==
  /\ p.headers # <<>>
  /\ OrderValid([i \in DOMAIN p.headers |-> WithShortestOptions(p.headers[i])])
  /\ \A i \in DOMAIN p.headers :
       LET h == p.headers[i]
       IN  /\ h.case # "not_set"
           /\ h.options # Malformed /\ Len(h.options) <= 10
           /\ \A f \in FieldsOf(h.case) :
                CASE h.case = "gre" /\ f \in GreOptionals /\ ~HasOptionals(h) ->
                       h.field[f] = Missing
                  [] HasOptionals(h) /\ f = "reserved1" -> h.field[f] = 0
                  [] IsComputed(h, f) /\ f \notin {"ethertype", "reserved1"} ->
                       h.field[f] = Missing
                  [] IsComputed(h, f) /\ f = "ethertype" ->
                       \/ h.field[f] \in Nat
                       \/ h.field[f] = Missing /\ i = Len(p.headers)
                  [] OTHER -> h.field[f] \in Nat
           /\ h.case \in {"udp", "icmp"} => FindPrecedingIpHeader(p, i) > 0
           /\ h.case = "gre" => h.field.reserved0 = 0 /\ h.field.version = 0
           /\ h.case = "ethernet" =>
                /\ h.field.ethertype \notin 0 .. Mtu
                /\ h.field.ethertype = Missing => SizeFrom(p, i + 1) <= Mtu

\* Such a packet is padded, completed, found valid and serialized.
CompletablePacketsAreSent ==
  call = "SerializePacket" /\ result \in {"error", "failed"}
    => ~OnlyComputedFieldsMissing(before)

\* What is appended to a packet with the right lengths is its trailer, also
\* behind lower headers, as long as lengths do not wrap.
IpTrailersAreFound ==
  Fresh("UpdateAllComputedFields") =>
    LET trailed == [packet EXCEPT !.payload = @ \o <<5, 6>>]
    IN  \A i \in DOMAIN packet.headers :
          /\ packet.headers[1].case = "ethernet"
          /\ IsUpperHeader(packet, i)
          /\ packet.headers[i].case \in {"ipv4", "ipv6"}
          /\ RawSerializePacket(packet) # Undefined
          /\ \A j \in {i, i + 1} : SizeFrom(packet, j) < WordLimit
          => GetEthernetTrailer(trailed) = <<5, 6>>

-----------------------------------------------------------------------------
(* What the documentation says besides *)

\* Validation returns "a list of reasons why the packet isn't valid", when a
\* field is missing as well.
ValidationAnswers == result # "failed"
=============================================================================
