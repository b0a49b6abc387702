-------------------------------- MODULE P4Infos --------------------------------
(***************************************************************************)
(* P4Info messages and their union (p4_pdpi/p4info_union_lib.cc): every    *)
(* role of a switch has its own P4Info, and UnionP4info merges them one    *)
(* after the other, element by element and by id, into one P4Info for the  *)
(* whole switch.                                                           *)
(*                                                                         *)
(* An element is a record; those with a preamble have the fields           *)
(*   id, name     name stands for the preamble's name and alias            *)
(*   annotations  a set of [label, args], args a sequence                  *)
(*   structured   whether the preamble has structured annotations          *)
(* Repeated fields whose order the code looks at are sequences.            *)
(***************************************************************************)
EXTENDS Integers, FiniteSets, SequencesExt

CONSTANT Refused  \* stands for an error status, where a message is expected

Elements(fields) == {fields[i] : i \in DOMAIN fields}

Annotations(label, element) == {a \in element.annotations : a.label = label}

Larger(m, n) == IF m > n THEN m ELSE n

IsSequence(list) == Len(list) \in Nat /\ list = [i \in 1 .. Len(list) |-> list[i]]

------------------------------------------------------------------------------
(* Elements with the same id                                               *)

JoinEqual(field, unioned) == IF field = unioned THEN unioned ELSE Refused

PreamblesCompatible(preamble, unioned) ==
  /\ preamble.name = unioned.name
  /\ ~preamble.structured /\ ~unioned.structured

AddField(acc, field, Join(_, _)) ==
  LET same == IF acc = Refused THEN {} ELSE {i \in DOMAIN acc : acc[i].id = field.id}
      first == Min(same)
      joined == Join(field, acc[first])
  IN  IF acc = Refused \/ (same # {} /\ joined = Refused) THEN Refused
      ELSE IF same = {} THEN Append(acc, field)
      ELSE [acc EXCEPT ![first] = joined]

MapUnion(fields, unioned, Join(_, _)) ==
  LET acc[n \in 0 .. Len(fields)] ==
        IF n = 0 THEN unioned ELSE AddField(acc[n - 1], fields[n], Join)
  IN  acc[Len(fields)]

JoinAction(action, unioned) ==
  IF PreamblesCompatible(action, unioned) /\ action.params = unioned.params
  THEN [unioned EXCEPT !.annotations = @ \cup action.annotations]
  ELSE Refused

(* Mutant of the next definition: the match fields of the table that comes  *)
(* first stay.                                                              *)
FirstMatchFieldsStay(table, unioned) ==
  IF PreamblesCompatible(table, unioned)
  THEN [unioned EXCEPT !.size = Larger(@, table.size), !.annotations = @ \cup table.annotations]
  ELSE Refused

(* `fixed' is what AssertTableCompatibility does not look into but compares:  *)
(* idle timeout, constness and the like.                                     *)
JoinTable(table, unioned) ==
  LET match_fields == MapUnion(table.match_fields, unioned.match_fields, JoinEqual)
      action_refs  == MapUnion(table.action_refs, unioned.action_refs, JoinEqual)
  IN  IF /\ table.implementation_id = unioned.implementation_id
         /\ table.const_default_action_id = unioned.const_default_action_id
         /\ table.fixed = unioned.fixed
         /\ PreamblesCompatible(table, unioned)
         /\ match_fields # Refused /\ action_refs # Refused
         /\ ~table.other_properties /\ ~unioned.other_properties
      THEN [unioned EXCEPT
              !.size = Larger(@, table.size),
              !.annotations = @ \cup table.annotations,
              !.match_fields = match_fields,
              !.action_refs = action_refs,
              !.direct_resource_ids = @ \cup table.direct_resource_ids]
      ELSE Refused

(* Mutant of the next definition: the semantics of the profile that comes   *)
(* first stays.                                                             *)
FirstSemanticsStay(profile, unioned) ==
  IF /\ PreamblesCompatible(profile, unioned)
     /\ profile.table_ids = unioned.table_ids
     /\ profile.weights_disallowed = unioned.weights_disallowed
  THEN [unioned EXCEPT
          !.size = Larger(@, profile.size),
          !.max_group_size = Larger(@, profile.max_group_size),
          !.max_member_weight =
             IF unioned.size_semantics = "sum_of_members" THEN Larger(@, profile.max_member_weight) ELSE 0,
          !.annotations = @ \cup profile.annotations,
          !.modes = @ \cup profile.modes]
  ELSE Refused

(* `table_ids' and `weights_disallowed' stand for all that is compared.      *)
(* Profiles whose size semantics differ count the sum of weights.            *)
JoinProfile(profile, unioned) ==
  LET semantics == IF profile.size_semantics = unioned.size_semantics
                   THEN unioned.size_semantics ELSE "sum_of_weights"
  IN  IF /\ PreamblesCompatible(profile, unioned)
         /\ profile.table_ids = unioned.table_ids
         /\ profile.weights_disallowed = unioned.weights_disallowed
      THEN [unioned EXCEPT
              !.size = Larger(@, profile.size),
              !.max_group_size = Larger(@, profile.max_group_size),
              !.size_semantics = semantics,
              !.max_member_weight =
                 IF semantics = "sum_of_members" THEN Larger(@, profile.max_member_weight) ELSE 0,
              !.annotations = @ \cup profile.annotations,
              !.modes = @ \cup profile.modes]
      ELSE Refused

------------------------------------------------------------------------------
(* Messages without an id                                                  *)

(* platform_properties is {} or the set of one record.                      *)
JoinProperties(properties, unioned) ==
  {[size |-> Larger(p.size, q.size), replicas |-> Larger(p.replicas, q.replicas),
    max_replicas |-> Larger(p.max_replicas, q.max_replicas)] :
     p \in IF properties = {} THEN unioned ELSE properties,
     q \in IF unioned = {} THEN properties ELSE unioned}

EmptyPkgInfo == [names |-> << >>, arch |-> "", platform_properties |-> {}]

(* Mutant of the next definition: the first message is taken as it is, so   *)
(* that a union with an empty one is still empty.                           *)
FirstAsItIs(info, unioned) ==
  IF unioned = EmptyPkgInfo THEN info
  ELSE IF info.arch # unioned.arch THEN Refused
  ELSE [unioned EXCEPT !.names = @ \o info.names]

(* The name that the first message gets makes every union nonempty.         *)
JoinPkgInfo(info, unioned) ==
  IF unioned = EmptyPkgInfo THEN [info EXCEPT !.names = <<"Union of">> \o @]
  ELSE IF info.arch # unioned.arch THEN Refused
  ELSE [names |-> unioned.names \o info.names, arch |-> unioned.arch,
        platform_properties |->
          JoinProperties(info.platform_properties, unioned.platform_properties)]

(* new_types maps the name of a type to its definition.                     *)
JoinTypes(info, unioned) ==
  IF \/ info.other_types
     \/ \E type \in DOMAIN info.new_types \cap DOMAIN unioned : info.new_types[type] # unioned[type]
  THEN Refused
  ELSE [type \in DOMAIN unioned \cup DOMAIN info.new_types |->
          IF type \in DOMAIN unioned THEN unioned[type] ELSE info.new_types[type]]

------------------------------------------------------------------------------
(* Action profile modes: what annotations promise of the sizes of groups.  *)
(* A mode is the sequence of its [key, value] arguments; "number" stands   *)
(* for a value that parses as one.                                         *)

ModeKeys == {"action_selection_mode", "size_semantics", "max_member_weight",
             "member_usage_multiplier"}

ModeValues(key) ==
  CASE key = "action_selection_mode" -> {"HASH", "RANDOM"}
    [] key = "size_semantics"        -> {"sum_of_weights", "sum_of_members"}
    [] OTHER                         -> {"number"}

(* The last size_semantics counts; only members have a largest weight.      *)
IsMode(mode) ==
  LET At(key) == {i \in DOMAIN mode : mode[i].key = key}
  IN  /\ \A i \in DOMAIN mode : mode[i].key \in ModeKeys /\ mode[i].value \in ModeValues(mode[i].key)
      /\ At("max_member_weight") # {} =>
           /\ At("size_semantics") # {}
           /\ mode[Max(At("size_semantics"))].value = "sum_of_members"

ModesOk(info) == \A p \in Elements(info.action_profiles) : \A mode \in p.modes : IsMode(mode)

------------------------------------------------------------------------------
(* UnionP4info                                                             *)

(* `others' stands for counters, meters, value sets, registers and digests, *)
(* which are treated alike.                                                 *)
EmptyP4Info ==
  [pkg_info |-> EmptyPkgInfo, tables |-> << >>, actions |-> << >>, action_profiles |-> << >>,
   direct_counters |-> << >>, direct_meters |-> << >>, controller_packet_metadata |-> << >>,
   others |-> << >>, externs |-> FALSE, new_types |-> << >>, other_types |-> FALSE]

Mergeable(infos) == \A i \in DOMAIN infos : ~infos[i].externs /\ ModesOk(infos[i])

(* One iteration of the loop of UnionP4info.                                *)
MergeP4Info(info, unioned) ==
  LET merged ==
        [pkg_info |-> JoinPkgInfo(info.pkg_info, unioned.pkg_info),
         tables |-> MapUnion(info.tables, unioned.tables, JoinTable),
         actions |-> MapUnion(info.actions, unioned.actions, JoinAction),
         action_profiles |-> MapUnion(info.action_profiles, unioned.action_profiles, JoinProfile),
         direct_counters |-> MapUnion(info.direct_counters, unioned.direct_counters, JoinEqual),
         direct_meters |-> MapUnion(info.direct_meters, unioned.direct_meters, JoinEqual),
         controller_packet_metadata |->
           MapUnion(info.controller_packet_metadata, unioned.controller_packet_metadata, JoinEqual),
         others |-> MapUnion(info.others, unioned.others, JoinEqual),
         externs |-> FALSE,
         new_types |-> JoinTypes(info, unioned.new_types),
         other_types |-> FALSE]
  IN  IF \E part \in DOMAIN merged \ {"externs", "other_types"} : merged[part] = Refused
      THEN Refused ELSE merged

=============================================================================
