------------------------------- MODULE IrP4Infos -------------------------------
(***************************************************************************)
(* From P4Info to IrP4Info (CreateIrP4Info, ParseIrTableReferences and     *)
(* RemoveUnsupportedEntities).  An IrP4Info keeps two copies of every      *)
(* definition, one under its id and one under its name, and two of every   *)
(* reference, at its source table and at its destination table.            *)
(*                                                                         *)
(* A creation that fails gives an error and nothing else, so the checks    *)
(* are a predicate, CreationOk, and the definitions are what they are when *)
(* it holds.  The two maps of the fields of a table, and of the parameters *)
(* of an action, are always changed together and are one set here.         *)
(***************************************************************************)
EXTENDS P4Infos

CONSTANT AddressBits  \* the bits of an address of each format: 48, 32 and 128

Unique(fields) ==
  \A i, j \in DOMAIN fields :
    fields[i].id = fields[j].id \/ fields[i].name = fields[j].name => i = j

ById(definitions) ==
  [i \in {d.id : d \in definitions} |-> CHOOSE d \in definitions : d.id = i]

ByName(definitions) ==
  [n \in {d.name : d \in definitions} |-> CHOOSE d \in definitions : d.name = n]

HasAnnotation(label, element) == Annotations(label, element) # {}

IsUnsupported(element) == HasAnnotation("unsupported", element)

------------------------------------------------------------------------------
(* Formats of parameters, match fields and packet-io metadata              *)

SdnString(info, element) == element.type_name # "" /\ info.new_types[element.type_name] = "sdn_string"

FormatOk(info, element) ==
  /\ element.type_name # "" => element.type_name \in DOMAIN info.new_types
  /\ SdnString(info, element) => ~HasAnnotation("format", element)
  /\ Cardinality(Annotations("format", element)) <= 1
  /\ \A a \in Annotations("format", element) :
       \/ a.args = <<"MAC_ADDRESS">> /\ element.bitwidth = AddressBits.MAC_ADDRESS
       \/ a.args = <<"IPV4_ADDRESS">> /\ element.bitwidth = AddressBits.IPV4_ADDRESS
       \/ a.args = <<"IPV6_ADDRESS">> /\ element.bitwidth <= AddressBits.IPV6_ADDRESS

Format(info, element) ==
  IF SdnString(info, element) THEN "STRING"
  ELSE IF HasAnnotation("format", element) THEN (CHOOSE a \in Annotations("format", element) : TRUE).args[1]
  ELSE "HEX_STRING"

WithFormat(info, element) ==
  [id |-> element.id, name |-> element.name, annotations |-> element.annotations,
   format |-> Format(info, element), bitwidth |-> element.bitwidth]

ValidateMatchFieldDefinition(info, field) ==
  \/ field.match_type \in {"EXACT", "OPTIONAL"}
  \/ field.match_type \in {"LPM", "TERNARY"} /\ Format(info, field) # "STRING"

------------------------------------------------------------------------------
(* The deprecated list of references: the @refers_to annotations of every  *)
(* parameter and match field, looked up among the tables of the P4Info.    *)

RefersToOk(element) == \A a \in Annotations("refers_to", element) : Len(a.args) = 2

BuiltInTables == {"builtin::multicast_group_table", "builtin::clone_session_table"}

BuiltInParameters == {"replica.port", "replica.instance"}

FieldsNamed(info, table, field) ==
  {f \in UNION {Elements(t.match_fields) : t \in {u \in Elements(info.tables) : u.name = table}} :
     f.name = field}

RefersToP4Tables(element) ==
  {a.args : a \in {b \in Annotations("refers_to", element) : b.args[1] \notin BuiltInTables}}

Referrers(info) ==
  (UNION {Elements(a.params) : a \in Elements(info.actions)})
  \cup UNION {Elements(t.match_fields) : t \in Elements(info.tables)}

DeprecatedReferencesOk(info) ==
  \A e \in Referrers(info) :
    /\ RefersToOk(e)
    /\ \A args \in RefersToP4Tables(e) :
         /\ FieldsNamed(info, args[1], args[2]) # {}
         /\ \A f \in FieldsNamed(info, args[1], args[2]) : f.match_type \in {"EXACT", "OPTIONAL"}

DeprecatedReferences(info) == UNION {RefersToP4Tables(e) : e \in Referrers(info)}

------------------------------------------------------------------------------
(* Definitions of actions, tables and packet-io metadata                   *)

ActionOk(info, action) ==
  Unique(action.params) /\ \A p \in Elements(action.params) : FormatOk(info, p)

IrAction(info, action) ==
  [id |-> action.id, name |-> action.name,
   params |-> {WithFormat(info, p) : p \in Elements(action.params)},
   is_unsupported |-> IsUnsupported(action)]

ActionsById(info) == ById({IrAction(info, a) : a \in Elements(info.actions)})

MatchFieldsOk(info, table) ==
  /\ Unique(table.match_fields)
  /\ \A f \in Elements(table.match_fields) : FormatOk(info, f) /\ ValidateMatchFieldDefinition(info, f)

IrMatchField(info, field) ==
  [id |-> field.id, name |-> field.name, annotations |-> field.annotations,
   match_type |-> field.match_type, format |-> Format(info, field), bitwidth |-> field.bitwidth,
   is_unsupported |-> IsUnsupported(field)]

(* A table uses an action profile exactly when it has the @oneshot          *)
(* annotation; every action of an entry has one @proto_id; the constant     *)
(* default action is among the actions of the table.                        *)
TableOk(info, table) ==
  /\ MatchFieldsOk(info, table)
  /\ table.implementation_id # 0 <=> HasAnnotation("oneshot", table)
  /\ \A r \in Elements(table.action_refs) :
       /\ r.id \in DOMAIN ActionsById(info)
       /\ r.scope # "DEFAULT_ONLY" => Cardinality(Annotations("proto_id", r)) = 1
  /\ table.const_default_action_id # 0 =>
       \E r \in Elements(table.action_refs) : r.id = table.const_default_action_id

IrActionReference(info, ref) ==
  [action |-> ActionsById(info)[ref.id], annotations |-> ref.annotations,
   is_unsupported_by_table |-> IsUnsupported(ref)]

(* Every direct counter or meter of a table overwrites the one before.      *)
LastOf(resources, table_id) ==
  LET own == {i \in DOMAIN resources : resources[i].table_id = table_id}
  IN  {resources[i] : i \in {j \in own : \A k \in own : k <= j}}

(* Of a meter, only its presence is kept.                                   *)
IrTable(info, table) ==
  LET References(default_only) ==
        {IrActionReference(info, r) :
           r \in {q \in Elements(table.action_refs) : (q.scope = "DEFAULT_ONLY") = default_only}}
  IN  [id |-> table.id, name |-> table.name, size |-> table.size,
       match_fields |-> {IrMatchField(info, f) : f \in Elements(table.match_fields)},
       requires_priority |-> \E f \in Elements(table.match_fields) : f.match_type \in {"OPTIONAL", "TERNARY"},
       action_profile_id |-> table.implementation_id,
       entry_actions |-> References(FALSE),
       default_only_actions |-> References(TRUE),
       const_default_action |->
         {ActionsById(info)[a] : a \in {table.const_default_action_id} \ {0}},
       role |-> {a.args[1] : a \in Annotations("p4runtime_role", table)},
       is_unsupported |-> IsUnsupported(table),
       counter |-> {c.unit : c \in LastOf(info.direct_counters, table.id)},
       meter |-> LastOf(info.direct_meters, table.id) # {},
       outgoing_references |-> {}, incoming_references |-> {}]

(* A second message of a kind is refused only if the first has metadata.    *)
MetadataOk(info) ==
  LET messages == info.controller_packet_metadata
  IN  \A i \in DOMAIN messages :
        /\ messages[i].name \in {"packet_in", "packet_out"}
        /\ Unique(messages[i].metadata)
        /\ \A m \in Elements(messages[i].metadata) : FormatOk(info, m)
        /\ \A j \in 1 .. (i - 1) :
             messages[j].name = messages[i].name => messages[j].metadata = << >>

Metadata(info, message) ==
  {WithFormat(info, m) :
     m \in UNION {Elements(c.metadata) :
                    c \in {d \in Elements(info.controller_packet_metadata) : d.name = message}}}

ResourcesOk(info) ==
  \A resource \in Elements(info.direct_counters) \cup Elements(info.direct_meters) :
    \E t \in Elements(info.tables) : t.id = resource.table_id

(* Tables and action profiles name each other.                              *)
ProfilesOk(info) ==
  LET tables   == Elements(info.tables)
      profiles == Elements(info.action_profiles)
  IN  /\ \A t \in tables : t.implementation_id # 0 =>
           \E p \in profiles : p.id = t.implementation_id /\ t.id \in p.table_ids
      /\ \A p \in profiles : \A id \in p.table_ids :
           \E t \in tables : t.id = id /\ t.implementation_id = p.id

------------------------------------------------------------------------------
(* ParseIrTableReferences                                                  *)

ActionNames(info) == {a.name : a \in Elements(info.actions)}
TableNames(info) == {t.name : t \in Elements(info.tables)}

BuiltInMatchField(table, field) ==
  table = "builtin::multicast_group_table" /\ field = "multicast_group_id"

MatchFieldExists(info, table, field) ==
  IF table \in BuiltInTables THEN BuiltInMatchField(table, field)
  ELSE \E f \in FieldsNamed(info, table, field) : f.match_type \in {"EXACT", "OPTIONAL"}

MatchField(info, table, field) ==
  [kind |-> "match", action |-> "", name |-> field,
   optional |-> /\ table \notin BuiltInTables
                /\ \E f \in FieldsNamed(info, table, field) : f.match_type = "OPTIONAL"]

ActionField(action, param) ==
  [kind |-> "action", action |-> action, name |-> param, optional |-> FALSE]

(* What an annotation names as the destination of a reference.              *)
DestinationOk(info, args) ==
  /\ args[1] \notin ActionNames(info)
  /\ ~(args[1] \in BuiltInTables /\ args[2] \in BuiltInParameters)
  /\ MatchFieldExists(info, args[1], args[2])
  /\ ~MatchField(info, args[1], args[2]).optional

(* ... and what one names as its source: only fields of built-in tables.    *)
SourceOk(args) ==
  /\ args[1] \in BuiltInTables
  /\ \/ args[2] = "multicast_group_id" /\ BuiltInMatchField(args[1], args[2])
     \/ args[2] \in BuiltInParameters /\ args[1] = "builtin::multicast_group_table"

SourceField(info, args) ==
  IF args[2] \in BuiltInParameters THEN ActionField("builtin::replica", args[2])
  ELSE MatchField(info, args[1], args[2])

IsReferrer(element) == HasAnnotation("refers_to", element)

TableReferencesOk(info) ==
  /\ \A e \in Referrers(info) :
       \A a \in Annotations("refers_to", e) : DestinationOk(info, a.args)
  /\ \A action \in Elements(info.actions) :
       \A p \in Elements(action.params) : ~HasAnnotation("referenced_by", p)
  /\ \A t \in Elements(info.tables) :
       /\ \A f \in Elements(t.match_fields) :
            /\ IsReferrer(f) \/ HasAnnotation("referenced_by", f) => MatchFieldExists(info, t.name, f.name)
            /\ \A a \in Annotations("referenced_by", f) :
                 Len(a.args) = 2 /\ SourceOk(a.args) /\ ~MatchField(info, t.name, f.name).optional
       /\ \A r \in Elements(t.action_refs) : r.scope = "DEFAULT_ONLY" =>
            \A action \in {a \in Elements(info.actions) : a.id = r.id} :
              \A p \in Elements(action.params) : ~IsReferrer(p)

(* Every single reference, of [source, destination, field].                 *)
Reference(source, destination, from, to) ==
  [source |-> source, destination |-> destination, field |-> [source |-> from, destination |-> to]]

MatchFieldReferences(info, table) ==
  UNION {{Reference(table.name, a.args[1], MatchField(info, table.name, f.name),
                    MatchField(info, a.args[1], a.args[2])) : a \in Annotations("refers_to", f)}
         \cup
         {Reference(a.args[1], table.name, SourceField(info, a.args),
                    MatchField(info, table.name, f.name)) : a \in Annotations("referenced_by", f)} :
         f \in Elements(table.match_fields)}

(* A table inherits the references of the actions of its entries.           *)
InheritedReferences(info, table) ==
  UNION {UNION {{Reference(table.name, a.args[1], ActionField(r.action.name, p.name),
                           MatchField(info, a.args[1], a.args[2])) : a \in Annotations("refers_to", p)} :
                  p \in r.action.params} :
           r \in IrTable(info, table).entry_actions}

(* One IrTableReference for each pair of tables.                            *)
GroupedByTables(all) ==
  {[source |-> pair[1], destination |-> pair[2],
    fields |-> {r.field : r \in {s \in all : s.source = pair[1] /\ s.destination = pair[2]}}] :
     pair \in {<<r.source, r.destination>> : r \in all}}

ParseIrTableReferences(info) ==
  GroupedByTables(UNION {MatchFieldReferences(info, t) \cup InheritedReferences(info, t) :
                           t \in Elements(info.tables)})

------------------------------------------------------------------------------
(* ConstructDependencyRankByTableName: module DependencyRank has its steps. *)

(* Mutant of the next definition: a table gets the rank of what it refers   *)
(* to.                                                                      *)
EqualRankStep(tables, references, rank) ==
  [t \in tables |->
     Min({0} \cup {rank[r.destination] : r \in {s \in references : s.source = t}})]

RankStep(tables, references, rank) ==
  [t \in tables |->
     Min({0} \cup {rank[r.destination] - 1 : r \in {s \in references : s.source = t}})]

(* Along a cycle the ranks would sink forever.                              *)
Ranks(tables, references) ==
  LET rank[n \in 0 .. Cardinality(tables)] ==
        IF n = 0 THEN [t \in tables |-> 0] ELSE RankStep(tables, references, rank[n - 1])
      last == rank[Cardinality(tables)]
  IN  IF RankStep(tables, references, last) = last THEN last ELSE Refused

------------------------------------------------------------------------------
(* CreateIrP4Info                                                          *)

CreationOk(info) ==
  /\ Unique(info.actions) /\ \A a \in Elements(info.actions) : ActionOk(info, a)
  /\ Unique(info.action_profiles)
  /\ Unique(info.tables) /\ \A t \in Elements(info.tables) : TableOk(info, t)
  /\ MetadataOk(info)
  /\ ResourcesOk(info)
  /\ DeprecatedReferencesOk(info)
  /\ ProfilesOk(info)
  /\ TableReferencesOk(info)
  /\ Ranks(TableNames(info) \cup BuiltInTables, ParseIrTableReferences(info)) # Refused

(* InsertOutgoingReferenceInfo and InsertIncomingReferenceInfo, for the     *)
(* tables by id, by name, and built in.                                     *)
InsertReferences(references, tables) ==
  [k \in DOMAIN tables |->
     [tables[k] EXCEPT
        !.outgoing_references = {r \in references : r.source = tables[k].name},
        !.incoming_references = {r \in references : r.destination = tables[k].name}]]

BuiltInTableDefinitions ==
  [n \in BuiltInTables |-> [name |-> n, outgoing_references |-> {}, incoming_references |-> {}]]

IrP4InfoOf(info, tables, references) ==
  [pkg_info |-> info.pkg_info,
   actions_by_id |-> ActionsById(info),
   actions_by_name |-> ByName({IrAction(info, a) : a \in Elements(info.actions)}),
   action_profiles_by_id |-> ById(Elements(info.action_profiles)),
   action_profiles_by_name |-> ByName(Elements(info.action_profiles)),
   tables_by_id |-> InsertReferences(references, ById(tables)),
   tables_by_name |-> InsertReferences(references, ByName(tables)),
   built_in_tables |-> InsertReferences(references, BuiltInTableDefinitions),
   packet_in_metadata |-> Metadata(info, "packet_in"),
   packet_out_metadata |-> Metadata(info, "packet_out"),
   references |-> DeprecatedReferences(info),
   dependency_rank_by_table_name |-> Ranks(TableNames(info) \cup BuiltInTables, references)]

CreateIrP4Info(info) ==
  IrP4InfoOf(info, {IrTable(info, t) : t \in Elements(info.tables)}, ParseIrTableReferences(info))

------------------------------------------------------------------------------
(* RemoveUnsupportedEntities                                               *)

Supported(map) == Restrict(map, {k \in DOMAIN map : ~map[k].is_unsupported})

(* Mutant of the next definition: only the table is asked.                  *)
ActionsSupportedByTable(refs) == {r \in refs : ~r.is_unsupported_by_table}

SupportedActions(refs) == {r \in refs : ~r.is_unsupported_by_table /\ ~r.action.is_unsupported}

(* The reference is dangling as soon as one of its fields belongs to a      *)
(* missing action.                                                          *)
IsDanglingReference(ir, r) ==
  \/ r.source \notin BuiltInTables \cup {ir.tables_by_id[i].name : i \in DOMAIN ir.tables_by_id}
  \/ \E f \in r.fields :
       /\ f.source.kind = "action" /\ f.source.action # "builtin::replica"
       /\ \A i \in DOMAIN ir.actions_by_id : ir.actions_by_id[i].name # f.source.action

WithoutUnsupportedElements(table) ==
  [table EXCEPT
     !.entry_actions = SupportedActions(@),
     !.default_only_actions = SupportedActions(@),
     !.match_fields = {f \in @ : ~f.is_unsupported}]

(* Mutant of the next definition: incoming references stay.                 *)
RemoveDanglingOutgoing(ir, tables) ==
  [k \in DOMAIN tables |->
     [tables[k] EXCEPT !.outgoing_references = {r \in @ : ~IsDanglingReference(ir, r)}]]

RemoveDanglingReferences(ir, tables) ==
  [k \in DOMAIN tables |->
     [tables[k] EXCEPT
        !.outgoing_references = {r \in @ : ~IsDanglingReference(ir, r)},
        !.incoming_references = {r \in @ : ~IsDanglingReference(ir, r)}]]

RemoveUnsupportedElements(tables) ==
  [k \in DOMAIN Supported(tables) |-> WithoutUnsupportedElements(tables[k])]

(* Mutant of the next definition: the tables by id keep their references.   *)
RemoveByName(ir) ==
  LET pruned == [ir EXCEPT
                   !.tables_by_id = RemoveUnsupportedElements(@),
                   !.tables_by_name = RemoveUnsupportedElements(@),
                   !.actions_by_id = Supported(@),
                   !.actions_by_name = Supported(@)]
  IN  [pruned EXCEPT !.tables_by_name = RemoveDanglingReferences(pruned, @)]

RemoveUnsupportedEntities(ir) ==
  LET pruned == [ir EXCEPT
                   !.tables_by_id = RemoveUnsupportedElements(@),
                   !.tables_by_name = RemoveUnsupportedElements(@),
                   !.actions_by_id = Supported(@),
                   !.actions_by_name = Supported(@)]
  IN  [pruned EXCEPT
         !.tables_by_id = RemoveDanglingReferences(pruned, @),
         !.tables_by_name = RemoveDanglingReferences(pruned, @),
         !.built_in_tables = RemoveDanglingReferences(pruned, @),
         !.dependency_rank_by_table_name =
            Restrict(@, BuiltInTables \cup DOMAIN pruned.tables_by_name)]

=============================================================================
