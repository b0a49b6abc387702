-------------------------------- MODULE MCP4Infos --------------------------------
(***************************************************************************)
(* The parts that the P4Infos of the checks are put together from.         *)
(***************************************************************************)
EXTENDS P4Infos

Annotation(label, args) == [label |-> label, args |-> args]
RefersToField(table, field) == Annotation("refers_to", <<table, field>>)
ReferencedBy(table, field) == Annotation("referenced_by", <<table, field>>)
Unsupported == Annotation("unsupported", << >>)
ProtoId(n) == Annotation("proto_id", <<n>>)

Element(id, name, annotations) ==
  [id |-> id, name |-> name, annotations |-> annotations, type_name |-> "", bitwidth |-> 32]
Field(id, name, match_type, annotations) ==
  [id |-> id, name |-> name, annotations |-> annotations, type_name |-> "", bitwidth |-> 32,
   match_type |-> match_type]
Typed(element, type) == [element EXCEPT !.type_name = type]
Wide(element, bitwidth) == [element EXCEPT !.bitwidth = bitwidth]

Action(id, name, params) ==
  [id |-> id, name |-> name, annotations |-> {}, structured |-> FALSE, params |-> params]
Ref(id) == [id |-> id, scope |-> "TABLE_AND_DEFAULT", annotations |-> {ProtoId("1")}]
DefaultOnly(id) == [id |-> id, scope |-> "DEFAULT_ONLY", annotations |-> {}]

Table(id, name, match_fields, action_refs) ==
  [id |-> id, name |-> name, annotations |-> {}, structured |-> FALSE, size |-> 1,
   fixed |-> "not const", implementation_id |-> 0, const_default_action_id |-> 0,
   match_fields |-> match_fields, action_refs |-> action_refs,
   direct_resource_ids |-> {}, other_properties |-> FALSE]

Profile(id, name, table_ids) ==
  [id |-> id, name |-> name, annotations |-> {}, structured |-> FALSE, size |-> 2,
   max_group_size |-> 2, size_semantics |-> "not_set", max_member_weight |-> 0,
   table_ids |-> table_ids, weights_disallowed |-> FALSE, modes |-> {}]

Info(tables, actions) ==
  [EmptyP4Info EXCEPT
     !.pkg_info = [names |-> <<"role">>, arch |-> "v1", platform_properties |-> {}],
     !.tables = tables, !.actions = actions]

=============================================================================
