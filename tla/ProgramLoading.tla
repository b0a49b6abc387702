----------------------------- MODULE ProgramLoading -----------------------------
(***************************************************************************)
(* How a program is loaded: the P4Infos of the roles of a switch are       *)
(* merged one after the other (UnionP4info), an IrP4Info is created from   *)
(* the result (CreateIrP4Info), and what the switch does not support is    *)
(* removed from it (RemoveUnsupportedEntities).  The order of the roles is *)
(* the caller's, so any order may come.                                    *)
(***************************************************************************)
EXTENDS IrP4Infos

CONSTANT RoleSets  \* the sets of P4Infos that may have to be merged

IsTable(t) ==
  /\ {"id", "name", "implementation_id", "size", "match_fields", "action_refs"} \subseteq DOMAIN t
  /\ t.size \in Nat /\ IsSequence(t.match_fields) /\ IsSequence(t.action_refs)

IsAction(a) == {"id", "name", "params"} \subseteq DOMAIN a

(* The repeated fields of a P4Info are sequences of messages.               *)
ASSUME RolesAreP4Infos ==
  \A infos \in RoleSets : \A r \in infos :
    /\ IsSequence(r.tables) /\ IsSequence(r.actions) /\ IsSequence(r.direct_counters)
    /\ \A t \in Elements(r.tables) : IsTable(t)
    /\ \A a \in Elements(r.actions) : IsAction(a)

(* The fields of the messages.                                              *)
FieldsOfTable ==
  {"id", "name", "annotations", "structured", "size", "fixed", "implementation_id",
   "const_default_action_id", "match_fields", "action_refs", "direct_resource_ids", "other_properties"}

FieldsOfAction == {"id", "name", "annotations", "structured", "params"}

FieldsOfProfile ==
  {"id", "name", "annotations", "structured", "size", "max_group_size", "size_semantics",
   "max_member_weight", "table_ids", "weights_disallowed", "modes"}

FieldsOfProperties == {"size", "replicas", "max_replicas"}

HasFields(message, fields) == message = [f \in fields |-> message[f]]

AreMessages(elements) == \A e \in Elements(elements) : HasFields(e, DOMAIN e)

IsWholeTable(t) ==
  /\ HasFields(t, FieldsOfTable) /\ t.structured \in BOOLEAN /\ t.other_properties \in BOOLEAN
  /\ AreMessages(t.match_fields) /\ AreMessages(t.action_refs)

IsWholeAction(a) == HasFields(a, FieldsOfAction) /\ a.structured \in BOOLEAN

(* A profile has the largest weight of a member in its size semantics.      *)
IsWholeProfile(p) ==
  /\ HasFields(p, FieldsOfProfile) /\ p.structured \in BOOLEAN
  /\ p.size \in Nat /\ p.max_group_size \in Nat /\ p.max_member_weight \in Nat
  /\ p.size_semantics # "sum_of_members" => p.max_member_weight = 0

IsWholePkgInfo(info) ==
  /\ HasFields(info, DOMAIN EmptyPkgInfo) /\ IsSequence(info.names)
  /\ \A p \in info.platform_properties :
       HasFields(p, FieldsOfProperties) /\ info.platform_properties = {p} /\ \A f \in FieldsOfProperties : p[f] \in Nat

(* The repeated fields whose elements have ids, and those of them whose     *)
(* elements are only compared.                                              *)
ComparedParts == {"direct_counters", "direct_meters", "controller_packet_metadata", "others"}
RepeatedParts == {"tables", "actions", "action_profiles"} \cup ComparedParts

IdsDiffer(elements) == \A i, j \in DOMAIN elements : elements[i].id = elements[j].id => i = j

(* P4Infos are protobuf messages, and if there are several, no table has    *)
(* two match fields or two references to actions with the same id: merging  *)
(* would compare only one of them.                                          *)
ASSUME RolesAreWhole ==
  \A infos \in RoleSets : IsFiniteSet(infos) /\ \A r \in infos :
    /\ HasFields(r, DOMAIN EmptyP4Info)
    /\ \A p \in RepeatedParts : IsSequence(r[p])
    /\ \A t \in Elements(r.tables) :
         IsWholeTable(t) /\ (infos # {r} => IdsDiffer(t.match_fields) /\ IdsDiffer(t.action_refs))
    /\ \A a \in Elements(r.actions) : IsWholeAction(a)
    /\ \A p \in Elements(r.action_profiles) : IsWholeProfile(p)
    /\ \A p \in ComparedParts : AreMessages(r[p])
    /\ IsWholePkgInfo(r.pkg_info)
    /\ HasFields(r.new_types, DOMAIN r.new_types) /\ r.other_types \in BOOLEAN

VARIABLES
  roles,    \* the P4Infos to merge
  waiting,  \* those that are still to be merged
  unioned,  \* unioned_info
  ir,       \* the IrP4Info, Refused before there is one
  stage     \* "merging", "created", "supported", or where it was refused:
            \* "refused union", "refused creation"

vars == <<roles, waiting, unioned, ir, stage>>

Init ==
  /\ roles \in RoleSets
  /\ waiting = roles
  /\ unioned = EmptyP4Info
  /\ ir = Refused
  /\ stage = "merging"

Refuse(step) ==
  /\ stage' = step
  /\ UNCHANGED <<roles, waiting, unioned, ir>>

(* The checks of all P4Infos come before the first is merged.               *)
RefuseToMerge ==
  /\ stage = "merging" /\ waiting = roles
  /\ \E r \in roles : ~Mergeable(<<r>>)
  /\ Refuse("refused union")

MergeRole(r) ==
  /\ stage = "merging" /\ \A s \in roles : Mergeable(<<s>>)
  /\ MergeP4Info(r, unioned) # Refused
  /\ waiting' = waiting \ {r}
  /\ unioned' = MergeP4Info(r, unioned)
  /\ UNCHANGED <<roles, ir, stage>>

RefuseRole(r) ==
  /\ stage = "merging" /\ \A s \in roles : Mergeable(<<s>>)
  /\ MergeP4Info(r, unioned) = Refused
  /\ Refuse("refused union")

Create ==
  /\ stage = "merging" /\ waiting = {}
  /\ CreationOk(unioned)
  /\ ir' = CreateIrP4Info(unioned)
  /\ stage' = "created"
  /\ UNCHANGED <<roles, waiting, unioned>>

RefuseToCreate ==
  /\ stage = "merging" /\ waiting = {}
  /\ ~CreationOk(unioned)
  /\ Refuse("refused creation")

RemoveUnsupported ==
  /\ stage = "created"
  /\ ir' = RemoveUnsupportedEntities(ir)
  /\ stage' = "supported"
  /\ UNCHANGED <<roles, waiting, unioned>>

Next ==
  \/ RefuseToMerge
  \/ \E r \in waiting : MergeRole(r) \/ RefuseRole(r)
  \/ Create \/ RefuseToCreate
  \/ RemoveUnsupported

Spec == Init /\ [][Next]_vars /\ WF_vars(Next)

------------------------------------------------------------------------------
(* Properties of the union                                                 *)

(* What a P4Info says, whatever the order of its elements.                  *)
Meaning(info) ==
  [tables |-> {[t EXCEPT !.match_fields = Elements(@), !.action_refs = Elements(@)] :
                 t \in Elements(info.tables)},
   properties |-> info.pkg_info.platform_properties,
   types |-> info.new_types,
   parts |-> [p \in {"actions", "action_profiles", "direct_counters", "direct_meters",
                     "controller_packet_metadata", "others"} |-> Elements(info[p])]]

UnionOf(infos) ==
  LET acc[n \in 0 .. Len(infos)] ==
        IF n = 0 THEN EmptyP4Info
        ELSE IF acc[n - 1] = Refused THEN Refused
        ELSE MergeP4Info(infos[n], acc[n - 1])
  IN  acc[Len(infos)]

(* UnionP4info: the union of the P4Infos merged so far does not depend on   *)
(* the order they were merged in, but for names, versions and the order of  *)
(* elements.                                                                *)
OrderIsIrrelevant ==
  stage = "merging" => Meaning(unioned) = Meaning(UnionOf(SetToSeq(roles \ waiting)))

(* UnionP4info: what is refused is refused for one P4Info, or for two that  *)
(* contradict each other: no third one makes or resolves a contradiction.   *)
OnlyContradictionsRefused ==
  LET contradiction ==
        \E r, s \in roles : UnionOf(<<r>>) = Refused \/ (r # s /\ UnionOf(<<r, s>>) = Refused)
  IN  \A r \in roles : Mergeable(<<r>>) =>
        /\ stage = "refused union" /\ (\A s \in roles : Mergeable(<<s>>)) => contradiction
        /\ waiting = {} => ~contradiction

Units(table_id) ==
  {c.unit : c \in {d \in UNION {Elements(r.direct_counters) : r \in roles} : d.table_id = table_id}}

(* UnionP4info, CreateIrP4Info: the whole program has every table, match    *)
(* field, action and reference of every role's own program, and counts and  *)
(* meters every table that a role does.  Of counters with different ids on  *)
(* one table, the last one's unit stays: a table is counted as some role    *)
(* counts it, and as its own role does if all that count it agree.          *)
RolesKeepTheirPrograms ==
  stage = "created" =>
    \A r \in {q \in roles : CreationOk(q)} :
      LET mine == CreateIrP4Info(r)
      IN  /\ DOMAIN mine.actions_by_name \subseteq DOMAIN ir.actions_by_name
          /\ \A n \in DOMAIN mine.tables_by_name :
               LET own == mine.tables_by_name[n]
               IN  /\ n \in DOMAIN ir.tables_by_name
                   /\ LET whole == ir.tables_by_name[n]
                      IN  /\ own.id = whole.id /\ own.size <= whole.size
                          /\ own.match_fields \subseteq whole.match_fields
                          /\ own.requires_priority => whole.requires_priority
                          /\ own.counter # {} => whole.counter # {}
                          /\ whole.counter \subseteq Units(own.id)
                          /\ own.meter => whole.meter
                          /\ {a.action.name : a \in own.entry_actions}
                               \subseteq {a.action.name : a \in whole.entry_actions}
                          /\ \A s \in own.outgoing_references :
                               \E t \in whole.outgoing_references :
                                 s.destination = t.destination /\ s.fields \subseteq t.fields

------------------------------------------------------------------------------
(* Properties of the IrP4Info                                              *)

Loaded == stage \in {"created", "supported"}

Values(map) == {map[k] : k \in DOMAIN map}

(* CreateIrP4Info, RemoveUnsupportedEntities: the definitions found by id   *)
(* and by name are the same ones, references and counters included.         *)
CopiesAgree ==
  Loaded =>
    /\ Values(ir.tables_by_id) = Values(ir.tables_by_name)
    /\ Values(ir.actions_by_id) = Values(ir.actions_by_name)
    /\ \A i \in DOMAIN ir.tables_by_id : ir.tables_by_id[i].id = i
    /\ \A n \in DOMAIN ir.tables_by_name : ir.tables_by_name[n].name = n
    /\ \A t \in Values(ir.tables_by_id) : \A a \in t.entry_actions :
         a.action \in Values(ir.actions_by_id)

AllTables == Values(ir.tables_by_name) \cup Values(ir.built_in_tables)

Outgoing == UNION {t.outgoing_references : t \in AllTables}

(* InsertOutgoingReferenceInfo, InsertIncomingReferenceInfo: a reference is *)
(* at its source exactly if it is at its destination, for tables that are   *)
(* there.                                                                   *)
ReferencesAreMutual ==
  Loaded =>
    \A s, t \in AllTables : \A r \in s.outgoing_references \cup t.incoming_references :
      r.source = s.name /\ r.destination = t.name =>
        r \in s.outgoing_references /\ r \in t.incoming_references

Present(tables) == {r \in Outgoing : r.source \in tables /\ r.destination \in tables}

R == INSTANCE References WITH
       Tables <- DOMAIN ir.dependency_rank_by_table_name,
       TableReferences <- Present(DOMAIN ir.dependency_rank_by_table_name),
       DependencyRank <- ir.dependency_rank_by_table_name,
       NotReferable <- Refused

(* What the modules about references take for granted of a program, and     *)
(* the error branches of references.cc that a created program cannot reach: *)
(* one reference for each pair of tables, ranks that rise along references, *)
(* no reference to an optional field, none that is empty.                   *)
AssumptionsOfReferencesHold ==
  Loaded =>
    LET tables == DOMAIN ir.dependency_rank_by_table_name
    IN  /\ tables = {t.name : t \in AllTables}
        /\ \A s, t \in Outgoing : s.source = t.source /\ s.destination = t.destination => s = t
        /\ \A r \in Present(tables) :
             ir.dependency_rank_by_table_name[r.source] < ir.dependency_rank_by_table_name[r.destination]
        /\ stage = "created" => Present(tables) = Outgoing
        /\ \A r \in Outgoing : r.fields # {} /\ \A f \in r.fields : R!IsSupported(f)

(* The match field of a table is left, or was itself unsupported, or is one *)
(* of an unsupported table.                                                 *)
LeftOrUnsupported(table, field) ==
  \/ table \in BuiltInTables
  \/ /\ table \in DOMAIN ir.tables_by_name
     /\ \E f \in ir.tables_by_name[table].match_fields : f.name = field
  \/ \E t \in {u \in Elements(unioned.tables) : u.name = table} :
       \/ IsUnsupported(t)
       \/ \E f \in Elements(t.match_fields) : f.name = field /\ IsUnsupported(f)

(* RemoveUnsupportedEntities: no map of tables, actions or match fields and *)
(* no action of a table's entries or default is unsupported, and every      *)
(* reference comes from a table and from an action that are left.  Nothing  *)
(* else is deleted with what it names: a reference may keep a match field,  *)
(* or a destination table, that is not left, but only one that was          *)
(* unsupported, and none that never was there.                              *)
NothingUnsupportedRemains ==
  stage = "supported" =>
    /\ \A t \in Values(ir.tables_by_id) \cup Values(ir.tables_by_name) :
         /\ ~t.is_unsupported
         /\ \A f \in t.match_fields : ~f.is_unsupported
         /\ \A a \in t.entry_actions \cup t.default_only_actions :
              ~a.is_unsupported_by_table /\ ~a.action.is_unsupported
    /\ \A a \in Values(ir.actions_by_id) \cup Values(ir.actions_by_name) : ~a.is_unsupported
    /\ \A t \in AllTables : \A r \in t.outgoing_references \cup t.incoming_references :
         /\ r.source \in {s.name : s \in AllTables}
         /\ \A f \in r.fields :
              /\ f.source.kind = "action" =>
                   f.source.action \in DOMAIN ir.actions_by_name \cup {"builtin::replica"}
              /\ f.source.kind = "match" => LeftOrUnsupported(r.source, f.source.name)
              /\ LeftOrUnsupported(r.destination, f.destination.name)

=============================================================================
