------------------------------ MODULE References ------------------------------
(***************************************************************************)
(* Concrete references between P4Runtime entities (p4_pdpi/references.cc). *)
(*                                                                         *)
(* An IrP4Info lists, for every pair of tables, an IrTableReference: the   *)
(* pairs of fields through which an entry of the source table refers to an *)
(* entry of the destination table.  OutgoingConcreteTableReferences lists  *)
(* the references an entity makes; PossibleIncomingConcreteTableReferences *)
(* lists every reference another entity could make to it.  An entity       *)
(* refers to another one exactly when the two sets intersect.              *)
(*                                                                         *)
(* Field values are model values; a field is a record that carries its     *)
(* name, so two fields of different actions never share a name.            *)
(***************************************************************************)
EXTENDS Integers, FiniteSets

CONSTANTS
  Tables,           \* tables of the IrP4Info, the built-in multicast table included
  TableReferences,  \* its IrTableReferences
  DependencyRank,   \* dependency_rank_by_table_name
  NotReferable      \* value of a present match that is neither EXACT nor OPTIONAL

(***************************************************************************)
(* CreateIrP4Info groups field references by (source, destination) table,  *)
(* and rejects a program whose table references have a cycle, by giving    *)
(* every table a rank below the ranks of all tables it refers to.          *)
(***************************************************************************)
ASSUME GroupedByTables ==
  \A s, t \in TableReferences :
    (s.source = t.source /\ s.destination = t.destination) => s = t

ASSUME RankAssumption ==
  /\ DependencyRank \in [Tables -> Int]
  /\ \A t \in TableReferences :
       /\ t.source \in Tables
       /\ t.destination \in Tables
       /\ DependencyRank[t.source] < DependencyRank[t.destination]

(***************************************************************************)
(* An entity is a record                                                   *)
(*   kind         "table_entry", "multicast_group_entry",                  *)
(*                "clone_session_entry" or "other"                         *)
(*   table, priority                                                       *)
(*   match        function from the names of the present match fields      *)
(*   action_type  "action", "action_set", "replicas" or "unset"            *)
(*   actions      set of [action, params]; the members of an action set,   *)
(*                or the replicas and backup replicas of a multicast group *)
(* The key of an entity is all of it that its actions leave out.           *)
(***************************************************************************)
HasKey(e) == e.kind # "other"

Key(e) ==
  [kind |-> e.kind, table |-> e.table, priority |-> e.priority, match |-> e.match]

------------------------------------------------------------------------------
(* Field references, grouped by match field or by source action            *)

IsSupported(fr) == fr.destination.kind = "match" /\ ~fr.destination.optional

MatchReferences(tr) == {fr \in tr.fields : fr.source.kind = "match"}

OptionalReferences(tr) == {fr \in MatchReferences(tr) : fr.source.optional}

ActionReferences(tr, a) ==
  {fr \in tr.fields : fr.source.kind = "action" /\ fr.source.action = a}

SourceActions(tr) ==
  {fr.source.action : fr \in tr.fields \ MatchReferences(tr)}

(* GetMatchFieldValue: an absent field is an error unless it is optional.   *)
HasReferableMatch(e, f) ==
  IF f.name \in DOMAIN e.match THEN e.match[f.name] # NotReferable ELSE f.optional

ConcreteField(fr, v) ==
  [source_field |-> fr.source, destination_field |-> fr.destination, value |-> v]

ConcreteTable(tr, fields) ==
  [source_table |-> tr.source, destination_table |-> tr.destination, fields |-> fields]

------------------------------------------------------------------------------
(* OutgoingConcreteTableReferences                                         *)

OutgoingOk(tr, e) ==
  /\ e.table = tr.source
  /\ \A fr \in tr.fields : IsSupported(fr)
  /\ e.action_type # "unset"
  /\ \A i \in e.actions : \A fr \in ActionReferences(tr, i.action) :
       fr.source.name \in DOMAIN i.params
  /\ \A fr \in MatchReferences(tr) : HasReferableMatch(e, fr.source)

PartialReferenceFromAction(tr, i) ==
  {ConcreteField(fr, i.params[fr.source.name]) : fr \in ActionReferences(tr, i.action)}

PartialReferenceFromMatch(tr, e) ==
  {ConcreteField(fr, e.match[fr.source.name]) :
     fr \in {r \in MatchReferences(tr) : r.source.name \in DOMAIN e.match}}

PartialReferencesFromActions(tr, e) ==
  IF e.actions = {} THEN {{}} ELSE {PartialReferenceFromAction(tr, i) : i \in e.actions}

OutgoingConcreteTableReferences(tr, e) ==
  LET unions == {a \cup PartialReferenceFromMatch(tr, e) :
                   a \in PartialReferencesFromActions(tr, e)}
  IN  {ConcreteTable(tr, fields) : fields \in unions \ {{}}}

------------------------------------------------------------------------------
(* PossibleIncomingConcreteTableReferences                                 *)

IncomingOk(tr, e) ==
  /\ e.table = tr.destination
  /\ \A fr \in tr.fields :
       IsSupported(fr) /\ HasReferableMatch(e, fr.destination)

FieldsReferredTo(frs, e) ==
  {ConcreteField(fr, e.match[fr.destination.name]) : fr \in frs}

(* Every subset of the optional fields may be present in the source entity, *)
(* and its action may be one the references do not mention.                 *)
PossibleMatchPartials(tr, e) ==
  {FieldsReferredTo((MatchReferences(tr) \ OptionalReferences(tr)) \cup present, e) :
     present \in SUBSET OptionalReferences(tr)}

(* Mutant: the source entity always has one of the actions that refer.      *)
MentionedActionPartials(tr, e) ==
  {FieldsReferredTo(ActionReferences(tr, a), e) : a \in SourceActions(tr)}

PossibleActionPartials(tr, e) ==
  {{}} \cup {FieldsReferredTo(ActionReferences(tr, a), e) : a \in SourceActions(tr)}

PossibleIncomingConcreteTableReferences(tr, e) ==
  LET unions == {m \cup a : m \in PossibleMatchPartials(tr, e),
                            a \in PossibleActionPartials(tr, e)}
  IN  {ConcreteTable(tr, fields) : fields \in unions \ {{}}}

------------------------------------------------------------------------------
(* References of an entity over all tables (GetOutgoingTableReferences,     *)
(* GetIncomingTableReferences and the loops over their results).            *)

IsSupportedEntity(e) ==
  e.kind \in {"table_entry", "multicast_group_entry"} /\ e.table \in Tables

OutgoingTableReferences(e) == {tr \in TableReferences : tr.source = e.table}

IncomingTableReferences(e) == {tr \in TableReferences : tr.destination = e.table}

NeededOk(e) ==
  IsSupportedEntity(e) /\ \A tr \in OutgoingTableReferences(e) : OutgoingOk(tr, e)

NeededReferences(e) ==
  UNION {OutgoingConcreteTableReferences(tr, e) : tr \in OutgoingTableReferences(e)}

SatisfiedOk(e) ==
  IsSupportedEntity(e) /\ \A tr \in IncomingTableReferences(e) : IncomingOk(tr, e)

SatisfiedReferences(e) ==
  UNION {PossibleIncomingConcreteTableReferences(tr, e) : tr \in IncomingTableReferences(e)}

UnsatisfiedOutgoingReferences(entities) ==
  LET satisfiable == UNION {SatisfiedReferences(e) : e \in entities}
  IN  {[entity |-> e, unsatisfied_references |-> NeededReferences(e) \ satisfiable] :
         e \in {d \in entities : ~ NeededReferences(d) \subseteq satisfiable}}

=============================================================================
