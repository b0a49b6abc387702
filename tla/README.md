# A TLA+ model of p4-infra

This directory holds TLA+ modules for the core logic of
[google/p4-infra](https://github.com/google/p4-infra), TLC configurations that
check them on small instances, and TLAPS proofs of their most important
properties. Paths below are relative to the repository.

* [The system](#the-system): the inventory of its parts
* [The modules](#the-modules): what models what
* [The runs](#the-runs): what is checked, with which bounds
* [Disagreements found](#disagreements-found)
* [What is proved](#what-is-proved)
* [What is not modelled](#what-is-not-modelled)
* [Plan](#plan)

## The system

p4-infra is a library for programs that test P4Runtime switches: it translates
between representations of P4Runtime messages, keeps track of which table
entries refer to which, orders updates so that a switch accepts them, and builds
and takes apart packets. It is sequential C++ without threads or persistent
state. What is hard about it is not interleaving but *long histories* (a checker
that sees one entity at a time and must never drift from the whole table),
*orders* (updates, table references and hash maps visited in an order nobody
chose), *two enumerations that must meet* (the references an entity makes and
those it can satisfy), and *partial failure* (an error return in the middle of a
mutation). The one concurrent actor is the switch, which takes the updates of
one write request in any order.

| Component | State | Operations | Interacts with | Correct when |
|---|---|---|---|---|
| Concrete references (`p4_pdpi/references.cc`, `entity_keys.cc`) | none | references an entity makes, or can satisfy; unsatisfied references of a set | IrP4Info (table references), everything below | both enumerations meet exactly when the values agree |
| `StatefulReferenceChecker` (`references.cc`) | two maps: reference to a pair of counters, key to the references counted for it | `AddEntity`, `RemoveEntity`, `UpdateEntity`, `CanRemove` | concrete references; a caller that installs what it accepts | counters equal those of the installed entities; nothing dangles; decides as if it saw the table |
| Sequencing (`sequencing.cc`) | dependency graph, roots, batches | `SequencePiUpdatesInPlace`, `SequencePiUpdatesIntoWriteRequests`, `ExtractWriteRequests` | deprecated `@refers_to` list of the IrP4Info; a switch | each update sent once, after what it depends on; the switch refuses none |
| Sorting (`sequencing.cc`, `entity_keys.cc`) | the sorted vector | `SortEntities`, `StableSortEntities`, `StableSortUpdates` | dependency ranks, entity keys | referred-to entities first, stable, nothing lost on error |
| Collection of unreachable entities (`sequencing.cc`) | map of references to candidates, frontier, reached | `GetEntitiesUnreachableFromRoots` | concrete references; a callback that names the roots | returns exactly the unreachable entities |
| Dependency ranks (`ir.cc`) | map from tables to ranks with a mark for tables in progress | `SetAndReturnTableDependencyRank` (recursive) | table references | referring tables rank lower; only cycles are refused |
| Creation of the IrP4Info (`ir.cc`, `ir_properties.cc`) | two copies of every definition and of every reference | `CreateIrP4Info`, `RemoveUnsupportedEntities` | annotations, ranks, action profiles | definitions unique and closed under reference; unsupported elements leave nothing dangling |
| Reference annotations (`reference_annotations.cc`, `annotation_parser.cc`) | none | parse `@refers_to`, `@referenced_by`; group them by tables | creation of the IrP4Info | every pair of tables has one reference with all its fields |
| PI to IR and back (`ir.cc`, `ir_utils.cc`, `built_ins.cc`, `pi.cc`, `names.cc`) | none | translate entities, updates, requests, packets | IrP4Info, translation options, string encodings | a valid message survives the round trip; invalid ones are rejected |
| Status of write RPCs (`ir.cc`) | none | gRPC status to IR and back | the switch's answers | one status per update; OK exactly when all are; the client learns each |
| IR to PD and back, PD generation (`pd.cc`, `pdgenlib.cc`, `pdgen.cc`) | none | translate by reflection; print a `.proto` | IrP4Info, protobuf | round trip; field numbers fixed by the P4Info |
| Union of P4Infos (`p4info_union*.cc`) | the union so far | merge definitions by id | protobuf | the order of roles is irrelevant; only contradictions are refused; no role loses anything |
| Sequencing utilities, entity builders, IR tools, test helpers | none | checks and builders for tests | the above | - |
| Action profile modes, ternary values | none | sizes of action profiles; canonical ternary values | translation of action sets and matches | a canonical value for every value; bounds respected |
| Packets (`packetlib/packetlib.cc`) | the packet, a bit string being consumed | `ParsePacket`, `ValidatePacket`, `UpdateComputedFields`, `PadPacketToMinimumSize`, `SerializePacket` | bit strings, addresses | parse and serialize are inverse; computed fields valid after one update |
| Addresses and string encodings (`netaddr/`, `string_encodings/`) | none | parse, format, mask | all of the above | round trips; lengths and leading zeros preserved |

`PROJECT.json` lists the components with what is modelled of each, and the
hazards, at the line where each bites, with the properties that watch it.

## The modules

Four families. Arrows lead from a module to one that extends it, unless they
are labelled.

```
   DependencyRank                        References
                                   /         |        \         \
             StatefulReferenceChecker   Sequencing   GarbageCollection   ReferenceIntegrity
                     |      implements       |                              ^         ^
                     +-----------------------|------------------------------+         |
                                             |                                        |
                                       SequencedWrites  -- its server is an instance -+

   P4Infos -- IrP4Infos -- ProgramLoading -- what it creates satisfies the
                  |                          assumptions of References
              IrValues -- EntityTranslation -- MessageTranslation -- PdTranslation
                                                                          |
                                              Translation -------- ProperMessages
                    Packets
                   /       \
        PacketParsing     PacketUpdates
```

### References and updates

`References` is the shared vocabulary. An entity is a record of its kind, table,
priority, match fields and actions; a table reference is a set of pairs of
fields, as in `IrTableReference`. Values are model values: the code compares
them and does nothing else with them, once the multicast group id, an integer,
has been written in the byte string other fields use. `NotReferable` is the value
of a field whose match is neither exact nor optional. The error returns of the
enumerations are the predicates `OutgoingOk`, `IncomingOk`, `NeededOk` and
`SatisfiedOk`. The enumeration of incoming references keeps the code's
structure: each subset of the optional fields, each action that refers and the
case of an action that does not. Two assumptions state what `CreateIrP4Info`
guarantees: table references are grouped by tables, and tables are ranked.

`StatefulReferenceChecker` has the two maps of the class as variables, named as
in the code, `response` (the status of the last operation) and the history
variable `installed`, the table of a caller that carries out what the checker
accepts. One action per method; a disjunct per return statement, in the order of
the code. `CanRemove` is a query and thus an operator. The vectors of needed and
satisfied references are sets here: one table reference gives no reference twice
(the code returns a hash set) and two table references differ in their tables.

`ReferenceIntegrity` is the abstract specification: a table without counters in
which an operation succeeds exactly when the resulting table, seen as a whole,
has no unsatisfied reference (the stateless `UnsatisfiedOutgoingReferences`).
The order of checks is left open where it does not matter to a caller: when an
addition has two reasons to be refused, either may be reported.

`Sequencing` cuts `SequencePiUpdatesInPlace` into its steps: building the graph,
starting a batch, clearing the edges of one root (the inner loop, in the order
of indices), swapping the roots, returning. The graph of hash sets is a set of
edges. `pushed` is a history variable that counts how often an update was
pushed onto a vector of roots, which a set would hide. Sequencing uses the
deprecated list of `@refers_to` pairs, `RefersTo`, which leaves built-in tables
out.

`SequencedWrites` composes the ways of sending updates with a server. A client
passes its updates through the sequencer and `SequencePiUpdatesIntoWriteRequests`
cuts the batches into requests (`Cut`, `FormRequests`); or it sorts them
(`StableSortUpdates`, reversed for deletions) and sends them one by one; or it
hands them as they are to `ExtractWriteRequests`. A maximum below one is refused
first by the one function (`RefuseMaximum`) and only if it is exceeded by the
other. With `reverse_ordering` the comparator of the sort holds between equal
ranks, which is no strict order and leaves the result open: the model takes any
order of updates of equal rank. Requests are sent in order, one at a time, and
the server takes the updates of a request in any order. The server is outside
this repository; it is an instance of `ReferenceIntegrity`, that is, a switch
that refuses what would leave a reference dangling.

`GarbageCollection` models the scan and the expansion of the frontier of
`GetEntitiesUnreachableFromRoots`, one entity per step, with the callback's
answers as input. The frontier is a queue in the code and a set here: the model
covers every order of expansion, the code's among them, and entities in the
queue twice are found already followed.

`DependencyRank` models the recursion as a stack of calls; the iteration orders
of the map of tables and of the references are left open.

### Programs

`P4Infos` has the messages of a P4Info as records and the union of two of them:
`MergeP4Info` joins elements with the same id, kind by kind, and is `Refused`
where `p4info_union_lib.cc` returns an error. `IrP4Infos` has `CreateIrP4Info`
and `RemoveUnsupportedEntities`: a creation that fails gives nothing but an error,
so its error returns are the predicate `CreationOk`, and the two maps of
definitions (by id, by name), the references at both of their ends and the ranks
are what the code leaves in the result. Annotations are labels with arguments.

`ProgramLoading` is the program that calls them: it merges the roles of a switch
one after the other, in any order, creates the IrP4Info and removes what is not
supported. An error return is an action of its own (`RefuseToMerge`,
`RefuseRole`, `RefuseToCreate`). The instance `R` of `References` ties the two
families: what is assumed there of table references and ranks is an invariant
here.

### Translation

`IrValues` has values: on the wire a byte string, which is a number with a length;
in the IR a string with a format. Normalization, the checks of widths, prefixes
and masks work on numbers of few bits. `EntityTranslation` has both directions for
entities, `MessageTranslation` for packets, requests, responses, stream messages
and the status of a write, `PdTranslation` the step between IR and PD, a PD being a
record whose fields the schema, the P4Info that PD was generated from, determines.
A translation has no side effects: it gives a message or `Refused`, and its checks
are named (`EntryOk`, `PriorityOk`, `WeightOk`, ...).

`ProperMessages` says what a message is before anything is checked: which fields the
protobuf types give it, and what the comments of `ir.proto` say of them. Tables, fields,
lengths, formats and counts may be wrong in any way. `IsProgram` says the same of a
P4Info that `CreateIrP4Info` accepts.

`Translation` composes them to an exchange. A client sends a request as IR
(`Send`), as PD (`SendPd`) or as a PI message written by hand (`SendOtherwise`),
the server translates it (`Receive`) and answers through the library (`Answer`) or
not (`AnswerOtherwise`), and the client translates the answer (`Learn`). Both sides
use the same program and the same options, `key_only`, `allow_unsupported` and
`allow_arbitrary_format`.

### Packets

`Packets` has the functions of packetlib on packets: what a header demands of the
next one (`GetNextHeader`), sizes, serialization, the parsing of one header, the
value every computed field should have, validity and the Ethernet trailer. A
serialized packet is a sequence of cells where the code has bits: one cell for each
field that something depends on (next-header fields, computed fields, what checksums
of other headers cover), one for each word of options, one for each unit of payload.
Fields that are only carried along are left out, so the sizes are those of a
smaller packet, and the Ethernet minimum and the MTU are constants. A field that is
not set is `Missing`, one that is not of its format is `Malformed`; `Undefined` is
an error status and `OutOfBounds` the value of `packet.headers(-1)`. Checksums are
real ones'-complement sums; `ihl` and lengths keep their widths.

`PacketParsing` is the loop of `ParsePacket`, a turn per step. `PacketUpdates` is a
caller that sets fields of a packet and calls `PadPacketToMinimumSize`,
`UpdateMissingComputedFields`, `UpdateAllComputedFields` and `SerializePacket`,
whose steps, in the order of the code, are the entries of `Calls`. An update goes
through the headers from the last to the first and computes one field per step, in
place, so that the packet after an error in the middle is a state of the model.
`SerializePacket` works on a copy, which is given up when it ends; `completed` keeps
the packet that was validated. Using the value of a failed conversion and reading
`headers(-1)` end the program (`Aborted`).

### Instances

The `MC*` modules give the constants values. `MCReferences` and
`MCSequencingProgram` are small P4 programs with entities, chosen to contain
every kind of reference the code supports (several fields into one destination,
optional fields, action sets, multicast replicas), two entities that satisfy the
same reference, and entities the code must refuse. `MCP4Infos` has the parts from
which `MCProgramLoading` builds roles and `MCTranslation` builds a program with a
table for each way of translating a match field, an action or a part of an entry.
`MCPackets` has stacks of headers that contain every kind of header.

## The runs

| Run | Module and configuration | What it shows |
|---|---|---|
| `reference_checker` | `MCStatefulReferenceChecker` | All histories of operations on 22 entities of three tables. `CountersMatchEntities`: the counters are those of the installed entities. `NoDanglingReferences`. `ReferencesMeetWhenValuesAgree`: the two enumerations meet. `SomethingCanBeRemoved`: the caller can always empty the table. `ImplementsReferenceIntegrity`: refinement of the abstract table. `TypeOK`. |
| `sequenced_writes` | `MCSequencedWrites` | Every way from one consistent table to another by at most three updates, or by four that only build up or only tear down, all lists of at most two updates of any type, all orders of some longer ones, each sequenced, sorted and only cut, with maxima, and every order of the server. Of the sequencer: `EveryUpdateSentOnce`, `DependenciesComeFirst`, `NoBatchIsLate`, `NeverCyclic`. Of the requests: `RequestsFit` (disjoint, complete, in order, within one batch, and as few as the maximum allows, for lists of no updates too). Of the composition: `BuildUpAndTearDownAccepted` (lists without DELETE, or with DELETEs only, are never refused) and `TableEventuallyReached`. |
| `sequenced_writes_mixed` | `MCSequencedWrites`, `_mixed` | `SequencedCorrectly` fails, see below. |
| `garbage_collection` | `MCGarbageCollection` | All choices of roots among all sets of at most four of ten entities, and lists with an entity that cannot be handled. `ReturnsExactlyTheUnreachable`: against reachability defined by closed sets. `NothingKeptDangles`. |
| `dependency_rank` | `MCDependencyRank` | All graphs of at most five references between four tables, self references included, visited in every order. `ReferencedTablesRankHigher`, `RanksAreTight`, `RefusedOnlyIfCyclic`, `EveryTableIsRanked`. |
| `program_loading` | `MCProgramLoading` | Sets of roles merged in every order, and programs with one mistake each. Of the union: `OrderIsIrrelevant`, `OnlyContradictionsRefused` (no third role makes or resolves a contradiction), `RolesKeepTheirPrograms` (and every table that a role counts or meters is counted or metered). Of the program, before and after unsupported elements are removed: `CopiesAgree`, `ReferencesAreMutual`, `AssumptionsOfReferencesHold`, `NothingUnsupportedRemains` (but for what the code keeps on purpose: references of unsupported match fields and to unsupported destinations). |
| `packet_parsing` | `MCPacketParsing` | Packets of thirteen stacks of up to six headers, cut short at every cell or with one cell set to 0 or 1, parsed from each of three first headers. `ParsingIsLossless`, at every turn of the loop. `SupportedHeadersAreParsed`. `PacketsComeBack`: a valid packet (of `Sent`), serialized and parsed, is the same packet and valid. `ParsingEnds`. |
| `packet_options` | `MCPacketParsing`, `_options` | `PacketsComeBack` fails with 11 words of options, see below. |
| `packet_updates` | `MCPacketUpdates` | Any sequence of calls on any of 17 packets, with one field removed, malformed or set at any time between calls. `NothingIsStale`: one pass makes all computed fields what the validator wants. `OnlyGapsAreFilled`: an update, failed ones included, changes computed fields only. `ChangesAreReported`. `CompletablePacketsAreSent`: a packet in which only computed fields are missing is padded, completed, valid and serialized. `IpTrailersAreFound`: what is appended to a packet is its trailer, as long as lengths do not wrap. No call gets stuck (deadlock is checked). |
| `packet_validation_answers` | `MCPacketUpdates`, `_ethertype` | `ValidationAnswers` fails, see below. |
| `translation` | `MCTranslation` | Every exchange, under every set of options. `WhatIsSentIsAccepted`: both directions make the same checks. `NothingIsLostOnTheWay`: what was sent is what was received. `ForwardingKeepsTheMeaning`: what is accepted from the wire, without a negative prefix length, can be put there again and means the same. `ClientLearnsEveryOutcome`: of each update of a write. `PdTellsTheSame`: a message shown as PD, and one written as PD, is the message. |
| `translation_prefix` | `MCTranslation`, `_prefix` | `LpmValuesEndWithTheirPrefix` fails, see below. |

Bounds. `MaxUpdates` bounds the length of an update list, `MaxEntities` the
entities that are collected, `MaxReferences` the edges of a graph of tables; in
the checker the finite set of entities, each of one of few keys, bounds the
states without a counter bound. Two values per field are enough for every
pattern of agreement between two entities, two satisfiers for the only threshold
of the counters (one or more), four updates for the longest chain of the program
and for its diamond, four tables for a cycle entered from outside after a table
with a final rank was met. The maxima of requests are none, 2, 1 and 0: a batch is
below, at and above a maximum, or the maximum is refused.

`MCStatefulReferenceChecker.cfg` uses a VIEW without the last response. No
action reads it, so it does not affect what is reachable; invariants over it are
evaluated for every state generated with a new table, action properties for
every step.

In the run of program loading the roles own tables, actions and references of
their own and share some, which they describe in ways that may differ (sizes,
parameters, action scopes); to the four roles comes a fifth that varies or
contradicts one of them, and every two of these fifth roles are merged with one of
the four, since a conflict that depends on the order takes three. Some count a table in
another unit with another counter, some call a match field with a reference, or the
destination of one, or a constant default action unsupported. Mistakes of a
program are tried one at a time, because the first one ends the creation.

In the runs of translation a nibble has two bits (`BitsPerNibble`) and so a byte
has four; addresses have 8, 4 and 8 bits and the other fields 7, so that a field
ends within a byte, as 12-bit fields do in real programs, and all values, masks
and prefixes of interest can be listed: zero, one, the largest, one too large,
with and without leading zeros; prefix lengths from -1 to one too long. The ids that PD cuts to 16 bits are cut to 8
(`Truncated`). Requests contain every entity alone; only one request of each kind
(`Representative`) is answered in all ways, since an answer is translated without
regard to the request but for the number of its updates. The schema of PD has more fields
than the P4Info and lacks one of its tables.

In the packet runs, `MinPayload` and `Mtu` are chosen so that some packets of
`MCPackets` need padding and some payloads are sizes; a stack has at most six
headers, which puts a header between, before and behind every pair whose fields
depend on each other. `MaxEdits` is one: the properties compare the packet before
and after a call, and calls are not bounded.

The sequencer, the collection, the ranking, the parser and the loading of a program
are functions that return, and an exchange ends with its answer or with an error, so
their runs set `CHECK_DEADLOCK FALSE`: a state after the end has no successor. The
checker and the caller of packet functions never stop and are checked for deadlock.

Fairness is assumed as weak fairness of the whole next-state relation.
`DependencyRank`, `PacketParsing` and `ProgramLoading` are sequential computations
that run until they return, and in `SequencedWrites` a sequential client waits for
the answer to each request and the server answers. No action is assumed to be
chosen over another. An exchange of `Translation` assumes none: a peer may never
answer.

## Disagreements found

* `SequencedCorrectly` (`sequenced_writes_mixed`). `sequencing.h:35` promises that
  "updates are sequenced correctly when the write requests are sent in order".
  `sequencing.cc:97-106` records dependencies between two insertions, an
  insertion and a modification that refers to it, and two deletions. For a
  modification of a route away from a nexthop together with the deletion of that
  nexthop no dependency is recorded: both are in one request, and a server that
  looks at the deletion first refuses it, although the other order is accepted.
  The repository's sequencing tests have no MODIFY update.
* `PacketsComeBack` with 11 words of IPv4 options (`packet_options`). `ihl` is
  computed as 5 plus the words of options and truncated to four bits, by the
  update (`packetlib.cc:2694-2697`) and in the same way by the validator
  (`1146-1149`), which limits the options of TCP (`1020`) but not of IPv4. A packet
  with 11 words is found valid with an `ihl` of 0 and, serialized, parses as one
  without options, although `packetlib.h:65` says that in a valid packet "Computed
  fields have the right value".
* `ValidationAnswers` (`packet_validation_answers`). With an EtherType that is missing
  or malformed, `packetlib.cc:1080` lets the flow reach `*ethertype` in line 1085,
  the value of a status that is not OK, and the program aborts; `packetlib.h:70` says
  that a list of reasons is returned. In the model this also happens when options of
  IPv6 are the first header and UDP or ICMP follows: `FindPrecedingIpHeader`
  (`1415-1422`) then returns -1, and nobody checks it.
* `LpmValuesEndWithTheirPrefix` (`translation_prefix`). If the width of a field is not
  a multiple of 8, `PrefixLenToMask` sets every bit of the incomplete first byte,
  whatever the length of the prefix (`ir_utils.cc:462-467`), although
  `ir_utils.h:125` says that it "Returns the (normalized) mask for a given prefix
  length". An LPM value with bits below its prefix in that byte is accepted by both
  directions (`ir.cc:592-600`), and entries that match the same packets have
  different keys.

Met while modelling and in the model, but without a run of their own. Updates and
references:

* `sequencing.h:92` documents an invalid argument error for unsupported entities;
  `sequencing.cc:471-476` returns UNIMPLEMENTED.
* `sequencing.h:51-53` promises ceil(n / max) requests; for no updates, where that is
  none, `ExtractWriteRequests` gives one empty request (`sequencing.cc:280-282`), even
  with a maximum of zero, which it refuses otherwise. `RequestsFit` says so.

Programs:

* The comment at `ir.cc:217` says that only references *from* unsupported tables and
  actions are deleted, but a reference that several actions of a table share is
  dropped as a whole when one of them is unsupported (`ir.cc:197-203`). References
  *to* removed tables stay, as the comment says, while the tables lose their rank, so
  that `AssumptionsOfReferencesHold` is about the references between what is left.
* "Unsupported fields must be optional and optional fields do not yet support
  references to or from them" (`ir.cc:218-219`), the reason why references of
  unsupported match fields are not removed, is enforced nowhere: `CreateIrP4Info`
  accepts exact match fields that are unsupported and refer, or are referred to. After
  `RemoveUnsupportedEntities` a reference may therefore name a match field that is
  gone; `NothingUnsupportedRemains` says that such a field was unsupported.
* `RemoveUnsupportedEntities` "Removes all `@unsupported` tables/match fields/actions"
  (`ir.h:36`), and `p4info_test_runner.cc:67-70` warns if any is left; it keeps an
  unsupported `const_default_action`, the deprecated list of references, metadata of
  packets, and `requires_priority` of a table whose match field asked for it.
* A table has one counter and one meter. If two roles count a table with counters of
  different ids, the union has both and the creation keeps the last one's unit
  (`ir.cc:1812-1843`), without an error; so one role's table is counted in a unit that
  is not its own, and which one depends on the order of the counters.
* An error message says that optional fields do not support references from them yet,
  but only references to them are refused.
* An element that one role calls `@unsupported` is unsupported in the union. Two
  elements with one alias and different ids pass the union and are refused by the
  creation.

Translation between PI and IR:

* An LPM field with the format of an IPv6 address that is narrower than 128 bits is
  translated from PI to IR but never back.
* `IsGoogleRpcCode` refuses 16 (UNAUTHENTICATED), so a status with it cannot be
  learned. `ir_utils.h:131` says that a message should not be empty if the code is not
  ok; nothing checks it.
* Prefix lengths are signed in the messages of PI and IR. `PiMatchFieldToIr` accepts a
  negative one with the value zero (`ir.cc:566-601`, where it becomes an `int` again in
  `PrefixLenToMask`, `ir_utils.cc:454`), and it is shown as PD (`pd.cc:896-897`); but
  `IrMatchFieldToPi` compares it as a `uint32_t` with the width (`ir.cc:999-1005`) and
  `PdMatchEntryToIr` refuses it (`pd.cc:2014`), so what was accepted from the wire can
  neither be sent on nor read back. The run has such matches;
  `ForwardingKeepsTheMeaning` and `PdTellsTheSame` are about all others
  (`HasPrefixLengths`).
* `PiTableEntryToIr` drops `is_default_action`, `idle_timeout_ns`, `controller_metadata` and the
  like without an error, and `PiWriteRequestToIr` the role of a write; the messages of
  the model do not have these fields. An action set without members loses how
  members are chosen. With `key_only`, metadata of multicast groups are kept in one
  direction only.
* `allow_arbitrary_format` lets values through that are too wide for their field.
* A stream message whose oneof is not set makes the code follow a null descriptor;
  the model has no such message.

Translation between IR and PD:

* Dropped without an error: a match field that is not in the P4Info (`pd.cc`, the
  `continue` before the reason is recorded), an IR action of the wrong kind for its
  table, metadata that only PD knows, the role of an arbitration, and, on the way to
  PD, a counter that is zero.
* Ids of multicast groups and instances of replicas are cut to 16 bits on the way to
  PD (`std::bitset<16>`) but read back as 32 bits, which may make replicas equal.
* Clone sessions have no PD. An empty `group_action` reads the first element of an
  empty list.
* `PdTableEntryToOnlyKeyPd` (not in the model) clears fields `meter` and `counter`
  that the generated PD does not have, and so fails for tables with direct meters or
  counters, and keeps `group_action` and the metadata of multicast groups (`pd.h:61`).

Packets:

* `UpdateAllComputedFields` computes the checksum of a GRE header before it resets
  `reserved1`, which the checksum covers (`packetlib.cc:2900`, `2911`), so that one
  call need not make a packet valid, against `packetlib.h:103`.
* `UpdateMissingComputedFields` leaves a missing EtherType missing if the payload is
  empty, because a missing one counts as 0 and only a difference is written
  (`packetlib.cc:2652`, `2671`), and it never sets `reserved0` and `version` of GRE,
  which `packetlib.proto:203` and `205` call computed fields.
* `protocol_type` of GRE is not validated (`packetlib.cc:1532-1604`), so that a valid
  packet may fail to serialize, against `packetlib.h:76`.
* `GetEthernetTrailer` returns the whole packet for ARP (`packetlib.cc:2032`), against
  `packetlib.h:177`.

## What is proved

All proofs are for every value of the constants and are checked by TLAPS. They use
these named assumptions, which TLC evaluates in every run:

| Assumption | What it says | Why it may be assumed |
|---|---|---|
| `GroupedByTables`, `RankAssumption` (`References`) | table references are grouped by pairs of tables; tables are ranked | proved of every program that is created (`ReferencesCanRelyOnThePrograms`, `AcceptedProgramsAreRanked`) |
| `NoEmptyReferences` (`GarbageCollection`) | a table reference has fields, of matches or of actions | likewise (`ReferencesCanRelyOnThePrograms`) |
| `UpdateListsAreFinite`, `InputsAreLists` | lists of updates and entities are finite | they are vectors |
| `RolesAreP4Infos` (`ProgramLoading`) | the P4Infos of roles are messages: their repeated fields are sequences, tables and actions have their fields | protobuf's types |
| `RolesAreWhole` (`ProgramLoading`) | the roles are finitely many messages with their fields; the largest weight of a member is there only with `sum_of_members`; if there are several roles, no table has two match fields or two references to actions with the same id | a set of files; protobuf's types (the weight is a field of that `oneof`); `CreateIrP4Info` refuses a table with two match fields of one id, P4 a table that lists an action twice (nothing here checks that); without it the theorems on the order are false, as merging compares with the first of the two only |
| `ProblemsAreReal` (`SequencedWrites`) | in the server's table entries are found by their key and no reference dangles; the maximum is an integer | the server checked what is in its table (`NothingEverDangles`) |
| `GraphsAssumption` (`DependencyRank`) | references lead from tables of the program to tables of the program | `CreateIrP4Info` refuses others |
| `ProgramsAreLegal` (`Translation`) | both P4Infos are messages that `CreateIrP4Info` accepts; a field that is a hexadecimal number has at least one bit | there is no `IrP4Info` otherwise; P4 has no values of no bits |
| `RequestsAreProper` (`Translation`) | what is sent is a message of its kind: repeated fields are sequences, optional ones are there at most once, an address that parses is one of its format, text is UTF-8 (`ProperMessages`) | protobuf's types; a `string` of protobuf is UTF-8 |
| `BitsAreCounted` (`IrValues`), `NothingIsNoError` (`Translation`) | a nibble and an address have bits; an error is neither OK nor "nothing yet" | `kNumBitsInNibble` and the address formats; they name what a `StatusOr` tells apart |
| `MarkersAreNoValues`, `SizesAreNumbers` (`Packets`) | an absent or malformed field is no number; the minimum of a payload is positive and at most the MTU, which is below all EtherTypes | they name what protobuf presence and a `StatusOr` tell apart |
| `InputsAreCells`, `FirstHeadersExist`, `SentArePackets`, `InitialPacketsArePackets`, `EditValuesAreValues`, `BoundIsNumber` | what callers pass has its type | the types of the functions |

The theorems on `Translation` have three hypotheses of their own, because TLC cannot
evaluate them as assumptions (they quantify over everything, or ask what a model value
is). `ErrorsAreNoMessages`: `Refused` and `None` are no functions, that is, no messages;
they are model values. `AnswersAreProper`: whatever was asked, a server answers with a
message of the kind that was asked for, the counterpart of `RequestsAreProper`. And
`ForwardingSafety` only, `PrefixesAreOfWholeAddresses`: the LPM matches of the program on
IPv6 addresses take all 16 bytes. Without it the theorem is false, since
`ir.cc` translates an LPM match on a narrower part of an address to the IR, but not back
(see [Disagreements found](#disagreements-found)). The other exception to forwarding,
messages with a negative prefix length, is part of the property and not a hypothesis:
`ForwardingKeepsTheMeaning` excludes them one by one.

The type invariants of `Sequencing`, `GarbageCollection` and `DependencyRank` are implied
for every value of the constants by these proofs and are properties of no run. Each
proofs module starts with an inductive invariant, shows that every action
keeps it, and draws the properties from it.

`StatefulReferenceChecker_proofs` starts with what the references themselves guarantee:
`SameKeySatisfiesSame` (what an entity satisfies depends on its key alone, which is why
`RemoveEntity` may be called with a key only and `UpdateEntity` leaves the satisfying
counts alone), `ReferenceMeetsWhenValuesAgree` and `SatisfiesWhenValuesAgree` (the two
enumerations meet exactly when the values agree; the witnesses are the optional fields
and the action the source entity really has), `NeverSatisfiesItself` (from the ranks).

The inductive invariant of the checker is

    IInv == TypeOK /\ CountersMatchEntities /\ NoDanglingReferences

None of the three is inductive alone. That a reference in use has a satisfier is
what keeps a referrer count from being lost when a reference is erased; that the
counts are exact is what makes the refusal of a removal right; that cached
references are those the installed entity needs, and only well-formed entities
are installed, is what makes decrements match earlier increments. The proof
splits each committed operation into its effect on the maps and on the sets of
referrers and satisfiers, whose cardinalities change by one or not at all.
From the invariant follow `TypeCorrect`, `CountersAreExact`,
`NothingEverDangles`, `EnumerationsMeet` and, with an argument by the lowest
rank among the installed tables, `NeverWedged`. The refinement
`CheckerImplementsReferenceIntegrity` is in the same module, with one lemma per
operation: under `IInv`, "all needed references are tracked" and "no reference this
entity alone satisfies is in use" hold exactly when the table after the operation has
no unsatisfied reference.

`SequencedWrites_proofs`, first part, about the sequencer alone: `IInv` says what the
in-degrees of the code stand for. The graph holds the dependencies on updates whose
edges were not cleared; an update was pushed once if no edge into it is left and never
otherwise; it is then in a batch, or waits in the vector of new roots; whatever waits
depends on an update of the last batch. `NothingLostOrRepeated`, `BatchesAreOrdered`,
`BatchesAreFew` (`NoBatchIsLate`: what is in a later batch depends on the one just
before) and `TypeCorrect` follow. `CyclesAreImpossible` needs one more argument: along
every edge the rank of the table grows between deletions and falls otherwise, so among
finitely many updates with edges into them a lowest one would have an edge from a lower
one.

Second part, about the composition with the client and the server. `WritesInv` says
that requests are formed from a beginning of the batches (`FormedInv`), what they hold
(`CutInv`), that no update is in a request before one it needs (`OrderInv`), and that
the server's table is the one before with the updates made that it has looked at
(`ServerInv`). That the server refuses nothing then is a theorem without time,
`NothingDanglesOnTheWay`: between two consistent tables, if the list only builds up or
only tears down, every set of updates that is closed under "must come before" leads to
a table without dangling references. When it builds up, an entity's needs are met by
the table before or by an insertion that must precede it; when it tears down, what a
satisfier's deletion would leave dangling must be deleted before. Both are
`SatisfiesWhenValuesAgree`: the sequencer's `@refers_to` pairs see all that the
checker's references see. `BuildUpAndTearDownAlwaysAccepted` and `RequestsAlwaysFit`
follow from `WritesInvariantHolds`.

`GarbageCollection_proofs`: what was found (reached or in the frontier) is
reachable; what was scanned and not found is still recorded under every reference it
satisfies; a reached entity needs no reference that is still recorded. When the
frontier is empty the reached entities are therefore closed under references, and
reachable entities are the least closed set (`CollectsTheUnreachable`). That nothing
kept dangles (`CollectionIsSafe`) follows from that set being closed.

`DependencyRank_proofs`: tables with the mark of the recursion are the calls on
the stack, each waiting for the next one; every reference a call has looked at leads
to a table whose rank is final and above the call's. A reference to a marked table
thus closes a cycle (`OnlyCyclesAreRefused`), ranks never change once set
(`RanksAreFinal`, `RanksAreLongestChains`), and an accepted program satisfies what
`References` assumes of `DependencyRank` (`AcceptedProgramsAreRanked`).

`ProgramLoading_proofs`: the invariant `LoadingInv` says that the IrP4Info is the one
made of a union that the creation accepts, or what is left of it
(`LoadedFromTheUnion`). The rest is about what `CreateIrP4Info` and
`RemoveUnsupportedEntities` make of such a union: the grouping of annotations is a
function on pairs of tables, so both tables of a pair get the same references
(`ReferencesAreAlwaysMutual`, `CopiesAlwaysAgree`), removal takes both ends,
and every match field that a reference names was declared, so one that is gone was
unsupported (`NothingUnsupportedEverRemains`), and what `References` and `GarbageCollection` assume
of a program holds of what is created (`ReferencesCanRelyOnThePrograms`). The invariant
also says that the union so far contains every role merged (`HasAllOf`): a list joined
by ids has all elements of both lists, and a table joined with another has the match
fields, actions and resources of both. What is created is therefore created of a union
that has each role's own tables, and by the definitions found by id has their match
fields, actions and references too; a table that a role counts has a counter in the
union, so there is a last one, and every counter of the union comes from a role
(`RolesAlwaysKeepTheirPrograms`).

The union itself is described without any order (`Combines`): each of its elements is
the sum of all elements of the roles that have its id. Of a table that is the largest
size, all annotations and resources, all match fields and references to actions. Of an
action profile the sizes are the largest ones too; its size semantics are the common
ones, or the sum of weights if they differ, and it has a largest weight of a member only
with the sum of members. Properties of the platform are the largest ones, types are
collected. `Agree` says when two elements do not contradict each other, and it compares
just these two. For each kind of element, joining it with such a sum succeeds exactly if
it agrees with everything summed so far, and then gives the larger sum (`JoinsWell`:
`TablesJoinWell`, `ActionsJoinWell`, `ProfilesJoinWell`, `EqualsJoinWell`). This is the
step that is easy to get wrong in the code, where the element found so far stands for all
those it was joined from. Lists are then joined element by element (`ListsAreJoined`), and
P4Infos part by part (`MergedCombine`). The inductive invariant `UnionInv`
(`UnionOfCompatibleRoles`) says that what was merged is the sum of the roles merged, which
agree in pairs, and that a role that was refused does not agree with itself or with one of
them. A sum determines what a P4Info means (`MeaningIsDetermined`), so the order is
irrelevant (`OrderIsAlwaysIrrelevant`), and agreement is a matter of pairs, so only
contradictions are refused (`OnlyContradictionsAreEverRefused`). A single role is not
compared with anything and may say more; it is a case of its own. These three theorems
have the hypothesis `ErrorIsNoMessage`, that `Refused` is not a function, as messages are:
TLC cannot evaluate this for a model value, so it is not an ASSUME.

`PacketUpdates_proofs`: `UpdateInv` follows the two loops: what was not visited yet is
as before the call, what was visited differs in computed fields only, and in missing
ones only if the caller asked for that; `changes` tells whether anything differs. From
it follow `OnlyGapsAreEverFilled` and `ChangesAreAlwaysReported`. `StaleInv` says that
the computed fields visited are up to date in the packet *as it is now*, though fields
of outer headers are still being written. The lemma behind it, `ComputingLeavesTheRest`,
is why one pass from the innermost header outwards is enough: no computed field depends
on one that is computed later, since checksums are the last field of their header but
for GRE, and lengths depend on what lies behind them. `NothingIsEverStale` excludes the
checksum of GRE, where the code's order is the other one. `TrailersAreAlwaysFound`
adds what appending does: the serialization gets longer at its end and every size grows
by as much, while the length of the IP header stays.

`CompletablePacketsAreAlwaysSent` takes a packet through the steps of `SerializePacket`
(`SendInv`): as given, all its computed fields are open (`IsOpen`); padded
(`IsPadded`), with all done from some header and field on (`IsDone`, `IsCompletedTo`);
and in the end valid. What the caller must have given is `IsCompletable`, and each step
keeps it. Three lemmas carry the argument. `GapsCanBeComputed`: whatever the loop comes
to has a value, because a checksum finds all that it covers in place (it is the last
field of its header, and the headers behind are done) and the order of headers puts IP
or PSP before UDP. `OneFieldIsCompleted`: filling it in makes it what the validator
wants and leaves done what is done; `ComputingKeepsTheNextHeader` says why headers stay
in order. `PaddedPackets`: the only Ethernet header is the one that padding finds
(`OneEthernet`), and its EtherType, if missing, has room for the size after padding.

`PacketParsing_proofs`: `ParsingInv` says that the headers parsed so far can be
serialized, that they and the data left are the input, and that the header parsed next
is the one the last one demands. With it go `ParsingIsAlwaysLossless`, whose core is
that the cells a header takes are those it is serialized to even when options end early
or the optional fields of GRE are absent (`ParsedHeader`), and
`SupportedHeadersAreAlwaysParsed`. `ValidPacketsComeBack` adds that the headers parsed
so far are the first ones of any valid packet the input is serialized from
(`RoundTripInv`): what is left of the input begins with the serialization of its next
header, which announces its own options (`HeaderComesBack`). The theorem assumes at most
ten words of IPv4 options, the most that `ihl` has room for; run `packet_options` shows
that it is false without that.

`Translation_proofs`: that the two directions of the translation make the same checks
is a statement about every check of every kind of message, so the proof is built like
the code, from values up. `TranslationTerms` has the terms the lemmas share: what a P4Info
and an entry must be, what messages mean, and the inductive invariant (`ExchangeInv`).

* *Numbers and their bytes.* A byte string of the canonical length is the number it
  encodes; the digits, bits and bytes of a number agree (`TwoTo`, `Ceiling`). The mask of
  a prefix, the lowest set bit of it, and what the bitwise AND with a mask leaves are
  facts about these powers. `NormalizedIrValue` says what may be sent for a value of the IR;
  a value that was read is one of them, and reads again as it was.
* *Matches, parameters and actions.* Each kind of match comes back from the wire, in both
  directions, with the checks of one direction implied by those of the other (masked
  values, masks that are not zero, prefixes within the width). Lists of fields are
  translated by name in one direction and by id in the other: names and ids of a program
  are unique, so a list that mentions each field at most once stays such a list.
* *Entities, updates, requests, answers, packets and messages of the stream.* An entity of
  the IR that was sent is accepted and is the same (`IrEntityComesBack`); one that was
  accepted from the wire may be sent again and means the same (`PiEntityIsSentAgain`). A
  packet has each piece of metadata once, padding included (`MetadataIsComplete`: a list
  without repetitions as long as the definitions names them all).
* *The program.* All of this needs that the definitions found by id are those found by
  name and that ids and names are unique. That is shown of what `CreateIrP4Info` makes of
  any P4Info it accepts.
* *PD.* What is read from PD, however it was written, is a proper message of the IR.
* *The status of a write* is a lemma of its own (`EveryOutcomeIsLearned`): as many
  statuses as updates, and OK just if each is.

Over these, `ExchangeInv` is the inductive invariant of an exchange (`ExchangeFollows`):
each message on either side is `None` until the one before is there, and then is exactly
what the translation makes of the one before, or a proper message of a peer that does not
use the library. From it follow `NothingIsLostSafety`, `SentIsAcceptedSafety`,
`ForwardingSafety` and `ClientLearnsSafety`, for programs, messages, options and widths of
any size.

Recursive functions over numbers (`FlattenSeq`, `Total`, sizes from a header on) are
reasoned about by their values at least counterexamples: a set of numbers at which a
statement fails has a least element, and the definition relates it to its neighbour
(`LeastNatural`, `IntervalInduction`).

Only model-checked:

* `PdTellsTheSame`. Its proof would need for IR and PD what `Translation_proofs` has for
  PI and IR, for fields that are found by name in a schema of another program and taken in
  the order of its numbers, and with everything that PD drops or cuts. That part of it,
  that what is read from PD is proper IR, is proved.
* Liveness (`TableEventuallyReached`, `EveryTableIsRanked`, `ParsingEnds`), which is
  outside the prover's reach, as ENABLED is. So are theorems that take an operator as a
  parameter, such as the general induction over sequences, and modules with a RECURSIVE
  operator, of which there is none.

## What is not modelled

* The text of error messages, logging and printing; errors are told apart by
  their code only, and INVALID_ARGUMENT and UNIMPLEMENTED are one code,
  `MALFORMED`, where they report an entity the program does not allow.
* The identifiers of tables, fields and actions in PI messages: entities carry
  names in the modules on references and sequencing. Unknown tables are covered there,
  unknown fields and actions are not; the modules of translation have identifiers.
* `StatefulReferenceChecker::CheckInvariantsForTesting` is not an action but a
  property.
* Of packetlib: fields that nothing depends on and their widths, the reserved bits of
  PSP, `PadPacket`, and the contents and the padding of options of IPv6.
* Of sorting: the order of entity keys, by which `SortEntities` breaks ties, and what is
  left of the caller's vector when it fails.
* Of programs: the tokens of an annotation's text; the modes that
  `ParseRequiredModesFromActionProfile` hands to its callers.
* Of translation: the fields of PI that `ir.cc` never looks at (`is_default_action`,
  `idle_timeout_ns`, `controller_metadata`, `time_since_last_hit` of a table entry, the
  role of a write); the text of values (a string that does not parse is one of a wrong
  size), a stream message whose oneof is not set, `ShortDescription` and
  `PdTableEntryToOnlyKeyPd`, and the reflection by which PD fields are read and written.
  Of the generation of PD only which fields a message has, not the text of the `.proto`
  file and its tag numbers.
* Sequencing utilities, entity builders and IR tools, packet matchers: support for tests,
  without state. Ternary values: a class template that nothing here uses. Addresses and
  string encodings: conversions of text; the translation has addresses as numbers.

## Plan

Done: references, the checker and its abstract specification, sequencing, sorting and
cutting of updates and their composition with a server, garbage collection, dependency
ranks, loading of programs and packets, and the translation
between PI and IR, with proofs; the translation between IR and PD.

Left, in this order:

1. A proof of `PdTellsTheSame`, field by field as for PI.
2. `SortEntities`, with an order of keys and the vector after an error return;
   `PadPacket`; ternary values, addresses and encodings against reference definitions on
   small widths.
