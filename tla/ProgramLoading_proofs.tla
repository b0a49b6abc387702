-------------------------- MODULE ProgramLoading_proofs --------------------------
(***************************************************************************)
(* Proofs about the loading of a program: what is created of a P4Info,     *)
(* whatever roles it was merged from, is consistent, and stays so when     *)
(* what is not supported is removed from it.  In particular, it has all    *)
(* that the modules about references assume of a program.  The last parts  *)
(* are about the merging itself: what it gives does not depend on the      *)
(* order of the roles, and only what contradicts is refused.               *)
(***************************************************************************)
EXTENDS ProgramLoading, FiniteSetTheorems, SequenceTheorems, WellFoundedInduction, TLAPS

------------------------------------------------------------------------------
(* Two copies of every definition                                          *)

(* Two maps hold the same definitions, one by id and one by name.           *)
Copies(by_id, by_name) ==
  /\ Values(by_id) = Values(by_name)
  /\ \A i \in DOMAIN by_id : by_id[i].id = i
  /\ \A n \in DOMAIN by_name : by_name[n].name = n

LEMMA UniqueDefinitions ==
  ASSUME NEW fields, Unique(fields)
  PROVE  \A d, e \in Elements(fields) : d.id = e.id \/ d.name = e.name => d = e
BY DEF Unique, Elements

LEMMA IdsAndNames ==
  ASSUME NEW D, \A d, e \in D : d.id = e.id \/ d.name = e.name => d = e
  PROVE  Values(ById(D)) = D /\ Values(ByName(D)) = D /\ Copies(ById(D), ByName(D))
<1>1. \A d \in D : d.id \in DOMAIN ById(D) /\ ById(D)[d.id] = d
  BY DEF ById
<1>2. \A i \in DOMAIN ById(D) : ById(D)[i] \in D /\ ById(D)[i].id = i
  BY DEF ById
<1>3. \A d \in D : d.name \in DOMAIN ByName(D) /\ ByName(D)[d.name] = d
  BY DEF ByName
<1>4. \A n \in DOMAIN ByName(D) : ByName(D)[n] \in D /\ ByName(D)[n].name = n
  BY DEF ByName
<1>5. Values(ById(D)) = D
  BY <1>1, <1>2 DEF Values
<1>6. Values(ByName(D)) = D
  BY <1>3, <1>4 DEF Values
<1> QED
  BY <1>2, <1>4, <1>5, <1>6 DEF Copies

LEMMA NamesOfCopies ==
  ASSUME NEW by_id, NEW by_name, Copies(by_id, by_name)
  PROVE  {by_id[i].name : i \in DOMAIN by_id} = DOMAIN by_name
<1>1. ASSUME NEW i \in DOMAIN by_id PROVE by_id[i].name \in DOMAIN by_name
  <2>1. by_id[i] \in Values(by_name)
    BY DEF Copies, Values
  <2>2. PICK n \in DOMAIN by_name : by_id[i] = by_name[n]
    BY <2>1 DEF Values
  <2> QED
    BY <2>2 DEF Copies
<1>2. ASSUME NEW n \in DOMAIN by_name PROVE \E i \in DOMAIN by_id : by_id[i].name = n
  <2>1. by_name[n] \in Values(by_id)
    BY DEF Copies, Values
  <2>2. PICK i \in DOMAIN by_id : by_id[i] = by_name[n]
    BY <2>1 DEF Values
  <2> QED
    BY <2>2 DEF Copies
<1> QED
  BY <1>1, <1>2

------------------------------------------------------------------------------
(* What is true of an IrP4Info                                             *)

TableFields == {"id", "name", "match_fields", "entry_actions", "default_only_actions",
                "is_unsupported", "outgoing_references", "incoming_references"}

BuiltInFields == {"name", "outgoing_references", "incoming_references"}

InfoFields == {"actions_by_id", "actions_by_name", "tables_by_id", "tables_by_name",
               "built_in_tables", "dependency_rank_by_table_name"}

Consistent(info) ==
  /\ InfoFields \subseteq DOMAIN info
  /\ Copies(info.tables_by_id, info.tables_by_name)
  /\ Copies(info.actions_by_id, info.actions_by_name)
  /\ \A t \in Values(info.tables_by_id) :
       TableFields \subseteq DOMAIN t /\ \A a \in t.entry_actions : a.action \in Values(info.actions_by_id)
  /\ DOMAIN info.built_in_tables = BuiltInTables
  /\ \A n \in BuiltInTables :
       BuiltInFields \subseteq DOMAIN info.built_in_tables[n] /\ info.built_in_tables[n].name = n

TablesOf(info) == Values(info.tables_by_name) \cup Values(info.built_in_tables)

NamesOf(info) == {t.name : t \in TablesOf(info)}

(* The references of an IrP4Info are at both of their tables.               *)
HasReferences(info, references) ==
  \A t \in TablesOf(info) :
    /\ t.outgoing_references = {r \in references : r.source = t.name}
    /\ t.incoming_references = {r \in references : r.destination = t.name}

(* References are inserted into a table without changing it otherwise.      *)
LEMMA InsertedReferences ==
  ASSUME NEW references, NEW map, NEW k \in DOMAIN map, BuiltInFields \subseteq DOMAIN map[k]
  PROVE  LET t == map[k]
             u == InsertReferences(references, map)[k]
         IN  /\ DOMAIN InsertReferences(references, map) = DOMAIN map
             /\ DOMAIN u = DOMAIN t
             /\ \A f \in DOMAIN t \ {"outgoing_references", "incoming_references"} : u[f] = t[f]
             /\ u.outgoing_references = {r \in references : r.source = t.name}
             /\ u.incoming_references = {r \in references : r.destination = t.name}
BY DEF InsertReferences, BuiltInFields

(* Copies stay copies when references are inserted into both.               *)
LEMMA InsertingKeepsCopies ==
  ASSUME NEW references, NEW by_id, NEW by_name, Copies(by_id, by_name),
         \A t \in Values(by_id) : TableFields \subseteq DOMAIN t
  PROVE  /\ Copies(InsertReferences(references, by_id), InsertReferences(references, by_name))
         /\ \A u \in Values(InsertReferences(references, by_id)) : \E t \in Values(by_id) :
              /\ DOMAIN u = DOMAIN t
              /\ \A f \in DOMAIN t \ {"outgoing_references", "incoming_references"} : u[f] = t[f]
              /\ u.outgoing_references = {r \in references : r.source = t.name}
              /\ u.incoming_references = {r \in references : r.destination = t.name}
<1> DEFINE In(t) == [t EXCEPT
                       !.outgoing_references = {r \in references : r.source = t.name},
                       !.incoming_references = {r \in references : r.destination = t.name}]
<1>1. InsertReferences(references, by_id) = [i \in DOMAIN by_id |-> In(by_id[i])]
  BY DEF InsertReferences
<1>2. InsertReferences(references, by_name) = [n \in DOMAIN by_name |-> In(by_name[n])]
  BY DEF InsertReferences
<1>3. ASSUME NEW t \in Values(by_id)
      PROVE  /\ DOMAIN In(t) = DOMAIN t
             /\ \A f \in DOMAIN t \ {"outgoing_references", "incoming_references"} : In(t)[f] = t[f]
             /\ In(t).outgoing_references = {r \in references : r.source = t.name}
             /\ In(t).incoming_references = {r \in references : r.destination = t.name}
             /\ In(t).id = t.id /\ In(t).name = t.name
  BY <1>3 DEF TableFields
<1> HIDE DEF In
<1>4. Values(InsertReferences(references, by_id)) = {In(t) : t \in Values(by_id)}
  BY <1>1 DEF Values
<1>5. Values(InsertReferences(references, by_name)) = {In(t) : t \in Values(by_name)}
  BY <1>2 DEF Values
<1>6. \A i \in DOMAIN by_id : by_id[i] \in Values(by_id)
  BY DEF Values
<1>7. \A n \in DOMAIN by_name : by_name[n] \in Values(by_id)
  BY DEF Values, Copies
<1>8. Copies(InsertReferences(references, by_id), InsertReferences(references, by_name))
  <2>1. \A i \in DOMAIN by_id : InsertReferences(references, by_id)[i].id = i
    BY <1>1, <1>3, <1>6 DEF Copies
  <2>2. \A n \in DOMAIN by_name : InsertReferences(references, by_name)[n].name = n
    BY <1>2, <1>3, <1>7 DEF Copies
  <2> QED
    BY <1>1, <1>2, <1>4, <1>5, <2>1, <2>2 DEF Copies
<1> QED
  BY <1>3, <1>4, <1>8

------------------------------------------------------------------------------
(* Creation                                                                *)

LEMMA CreatedDefinitions ==
  ASSUME NEW info, CreationOk(info)
  PROVE  LET tables  == {IrTable(info, t) : t \in Elements(info.tables)}
             actions == {IrAction(info, a) : a \in Elements(info.actions)}
         IN  /\ Values(ById(tables)) = tables /\ Copies(ById(tables), ByName(tables))
             /\ Values(ById(actions)) = actions /\ Copies(ById(actions), ByName(actions))
             /\ \A t \in tables : \A a \in t.entry_actions : a.action \in actions
<1> DEFINE tables  == {IrTable(info, t) : t \in Elements(info.tables)}
           actions == {IrAction(info, a) : a \in Elements(info.actions)}
<1>1. \A s, t \in Elements(info.tables) : s.id = t.id \/ s.name = t.name => s = t
  BY UniqueDefinitions DEF CreationOk
<1>2. \A a, b \in Elements(info.actions) : a.id = b.id \/ a.name = b.name => a = b
  BY UniqueDefinitions DEF CreationOk
<1>3. \A t : IrTable(info, t).id = t.id /\ IrTable(info, t).name = t.name
  BY DEF IrTable
<1>4. \A a : IrAction(info, a).id = a.id /\ IrAction(info, a).name = a.name
  BY DEF IrAction
<1>5. \A s, t \in tables : s.id = t.id \/ s.name = t.name => s = t
  BY <1>1, <1>3
<1>6. \A a, b \in actions : a.id = b.id \/ a.name = b.name => a = b
  BY <1>2, <1>4
<1> HIDE DEF tables, actions
<1>7. Values(ById(tables)) = tables /\ Copies(ById(tables), ByName(tables))
  BY <1>5, IdsAndNames
<1>8. Values(ById(actions)) = actions /\ Copies(ById(actions), ByName(actions))
  BY <1>6, IdsAndNames
<1>9. ASSUME NEW t \in Elements(info.tables), NEW a \in IrTable(info, t).entry_actions
      PROVE  a.action \in actions
  <2>1. PICK r \in Elements(t.action_refs) : a = IrActionReference(info, r)
    BY <1>9 DEF IrTable
  <2>2. r.id \in DOMAIN ActionsById(info)
    BY <2>1 DEF CreationOk, TableOk
  <2>3. a.action = ActionsById(info)[r.id]
    BY <2>1 DEF IrActionReference
  <2>4. ActionsById(info) = ById(actions)
    BY DEF ActionsById, actions
  <2> QED
    BY <1>8, <2>2, <2>3, <2>4 DEF Values
<1> QED
  BY <1>7, <1>8, <1>9 DEF tables, actions

LEMMA CreatedIsConsistent ==
  ASSUME NEW info, CreationOk(info)
  PROVE  LET created == CreateIrP4Info(info)
         IN  /\ Consistent(created)
             /\ HasReferences(created, ParseIrTableReferences(info))
             /\ NamesOf(created) = TableNames(info) \cup BuiltInTables
             /\ created.dependency_rank_by_table_name
                   = Ranks(TableNames(info) \cup BuiltInTables, ParseIrTableReferences(info))
             /\ Values(created.actions_by_name) = {IrAction(info, a) : a \in Elements(info.actions)}
<1> DEFINE created == CreateIrP4Info(info)
           references == ParseIrTableReferences(info)
           tables  == {IrTable(info, t) : t \in Elements(info.tables)}
           actions == {IrAction(info, a) : a \in Elements(info.actions)}
<1>1. /\ created.actions_by_id = ById(actions)
      /\ created.actions_by_name = ByName(actions)
      /\ created.tables_by_id = InsertReferences(references, ById(tables))
      /\ created.tables_by_name = InsertReferences(references, ByName(tables))
      /\ created.built_in_tables = InsertReferences(references, BuiltInTableDefinitions)
      /\ created.dependency_rank_by_table_name = Ranks(TableNames(info) \cup BuiltInTables, references)
      /\ InfoFields \subseteq DOMAIN created
  BY DEF CreateIrP4Info, IrP4InfoOf, ActionsById, InfoFields
<1>2. /\ Values(ById(tables)) = tables /\ Copies(ById(tables), ByName(tables))
      /\ Values(ById(actions)) = actions /\ Copies(ById(actions), ByName(actions))
      /\ \A t \in tables : \A a \in t.entry_actions : a.action \in actions
  BY CreatedDefinitions
<1>3. \A t \in tables : TableFields \subseteq DOMAIN t
  BY DEF TableFields, IrTable
<1>4. {t.name : t \in tables} = TableNames(info)
  <2>1. \A t : IrTable(info, t).name = t.name
    BY DEF IrTable
  <2> HIDE DEF tables
  <2>2. \A n : n \in {t.name : t \in tables} <=> n \in TableNames(info)
    BY <2>1 DEF TableNames, tables
  <2> QED
    BY <2>2
<1> HIDE DEF created, references, tables, actions
<1>5. /\ Copies(created.tables_by_id, created.tables_by_name)
      /\ \A u \in Values(created.tables_by_id) : \E t \in tables :
           /\ DOMAIN u = DOMAIN t
           /\ \A f \in DOMAIN t \ {"outgoing_references", "incoming_references"} : u[f] = t[f]
           /\ u.outgoing_references = {r \in references : r.source = t.name}
           /\ u.incoming_references = {r \in references : r.destination = t.name}
  BY <1>1, <1>2, <1>3, InsertingKeepsCopies
<1>6. ASSUME NEW u \in Values(created.tables_by_id)
      PROVE  \E t \in tables :
               /\ TableFields \subseteq DOMAIN u
               /\ u.name = t.name
               /\ u.entry_actions = t.entry_actions
               /\ u.outgoing_references = {r \in references : r.source = u.name}
               /\ u.incoming_references = {r \in references : r.destination = u.name}
  BY <1>3, <1>5 DEF TableFields
<1>7. /\ DOMAIN created.built_in_tables = BuiltInTables
      /\ \A n \in BuiltInTables :
           LET u == created.built_in_tables[n]
           IN  /\ BuiltInFields \subseteq DOMAIN u
               /\ u.name = n
               /\ u.outgoing_references = {r \in references : r.source = u.name}
               /\ u.incoming_references = {r \in references : r.destination = u.name}
  <2> DEFINE B == BuiltInTableDefinitions
  <2>1. DOMAIN B = BuiltInTables /\ \A n \in BuiltInTables : BuiltInFields \subseteq DOMAIN B[n] /\ B[n].name = n
    BY DEF BuiltInTableDefinitions, BuiltInFields
  <2> HIDE DEF B
  <2>2. DOMAIN InsertReferences(references, B) = DOMAIN B
    BY DEF InsertReferences
  <2>3. ASSUME NEW n \in BuiltInTables
        PROVE  LET u == InsertReferences(references, B)[n]
               IN  /\ BuiltInFields \subseteq DOMAIN u
                   /\ u.name = n
                   /\ u.outgoing_references = {r \in references : r.source = u.name}
                   /\ u.incoming_references = {r \in references : r.destination = u.name}
    <3> DEFINE u == InsertReferences(references, B)[n]
    <3>1. /\ DOMAIN u = DOMAIN B[n]
          /\ \A f \in DOMAIN B[n] \ {"outgoing_references", "incoming_references"} : u[f] = B[n][f]
          /\ u.outgoing_references = {r \in references : r.source = B[n].name}
          /\ u.incoming_references = {r \in references : r.destination = B[n].name}
      BY <2>1, InsertedReferences
    <3>2. u.name = n
      BY <2>1, <3>1 DEF BuiltInFields
    <3> QED
      BY <2>1, <3>1, <3>2
  <2> QED
    BY <1>1, <2>1, <2>2, <2>3 DEF B
<1>8. Consistent(created)
  BY <1>1, <1>2, <1>5, <1>6, <1>7 DEF Consistent
<1>9. Values(created.tables_by_name) = Values(created.tables_by_id)
  BY <1>5 DEF Copies
<1>10. Values(created.built_in_tables) = {created.built_in_tables[n] : n \in BuiltInTables}
  BY <1>7 DEF Values
<1>11. HasReferences(created, references)
  BY <1>6, <1>7, <1>9, <1>10 DEF HasReferences, TablesOf
<1>12. {u.name : u \in Values(created.tables_by_id)} = TableNames(info)
  <2>1. \A u \in Values(created.tables_by_id) : u.name \in TableNames(info)
    BY <1>4, <1>6
  <2>2. ASSUME NEW t \in tables PROVE \E u \in Values(created.tables_by_id) : u.name = t.name
    <3>1. PICK n \in DOMAIN ByName(tables) : ByName(tables)[n] = t
      BY <1>2 DEF Copies, Values
    <3>2. t.name = n
      BY <1>2, <3>1 DEF Copies
    <3>3. n \in DOMAIN created.tables_by_name
      BY <1>1, <3>1 DEF InsertReferences
    <3>4. created.tables_by_name[n].name = n
      BY <1>5, <3>3 DEF Copies
    <3>5. created.tables_by_name[n] \in Values(created.tables_by_id)
      BY <1>9, <3>3 DEF Values
    <3> QED
      BY <3>2, <3>4, <3>5
  <2> QED
    BY <1>4, <2>1, <2>2
<1>13. {u.name : u \in Values(created.built_in_tables)} = BuiltInTables
  BY <1>7, <1>10
<1>14. NamesOf(created) = TableNames(info) \cup BuiltInTables
  BY <1>9, <1>12, <1>13 DEF NamesOf, TablesOf
<1>15. Values(created.actions_by_name) = actions
  BY <1>1, <1>2 DEF Copies
<1> QED
  BY <1>1, <1>8, <1>11, <1>14, <1>15 DEF created, references, actions

------------------------------------------------------------------------------
(* Removal of what is not supported                                        *)

(* Changing the definitions of both maps in the same way, or leaving some   *)
(* out of both, keeps them copies of each other.                            *)
Changed(map, kept, F) == [k \in {j \in DOMAIN map : map[j] \in kept} |-> F[map[k]]]

LEMMA CopiesAreChangedAlike ==
  ASSUME NEW by_id, NEW by_name, Copies(by_id, by_name),
         NEW kept \in SUBSET Values(by_id), NEW F,
         \A t \in kept : F[t].id = t.id /\ F[t].name = t.name
  PROVE  /\ Copies(Changed(by_id, kept, F), Changed(by_name, kept, F))
         /\ \A u : u \in Values(Changed(by_id, kept, F)) <=> \E t \in kept : u = F[t]
<1> DEFINE new_by_id   == Changed(by_id, kept, F)
           new_by_name == Changed(by_name, kept, F)
<1>1. /\ new_by_id = [i \in {j \in DOMAIN by_id : by_id[j] \in kept} |-> F[by_id[i]]]
      /\ new_by_name = [n \in {m \in DOMAIN by_name : by_name[m] \in kept} |-> F[by_name[n]]]
  BY DEF Changed
<1> HIDE DEF new_by_id, new_by_name
<1>2. Values(new_by_id) = {F[t] : t \in kept}
  <2>1. \A t \in kept : \E i \in DOMAIN by_id : by_id[i] = t
    BY DEF Values
  <2> QED
    BY <1>1, <2>1 DEF Values
<1>3. Values(new_by_name) = {F[t] : t \in kept}
  <2>1. \A t \in kept : \E n \in DOMAIN by_name : by_name[n] = t
    BY DEF Values, Copies
  <2> QED
    BY <1>1, <2>1 DEF Values
<1>4. Copies(new_by_id, new_by_name)
  BY <1>1, <1>2, <1>3 DEF Copies
<1> QED
  BY <1>2, <1>4 DEF new_by_id, new_by_name

(* An IrP4Info without unsupported definitions, but with all references.    *)
Pruned(info) ==
  [info EXCEPT
     !.tables_by_id = RemoveUnsupportedElements(@),
     !.tables_by_name = RemoveUnsupportedElements(@),
     !.actions_by_id = Supported(@),
     !.actions_by_name = Supported(@)]

SupportedTables(info) == {t \in Values(info.tables_by_id) : ~t.is_unsupported}

LEMMA PrunedTables ==
  ASSUME NEW info, Consistent(info)
  PROVE  /\ Copies(Pruned(info).tables_by_id, Pruned(info).tables_by_name)
         /\ Values(Pruned(info).tables_by_id)
              = {WithoutUnsupportedElements(t) : t \in SupportedTables(info)}
<1> DEFINE by_id   == info.tables_by_id
           by_name == info.tables_by_name
           kept    == SupportedTables(info)
           F       == [t \in kept |-> WithoutUnsupportedElements(t)]
<1>1. Pruned(info).tables_by_id = RemoveUnsupportedElements(by_id)
      /\ Pruned(info).tables_by_name = RemoveUnsupportedElements(by_name)
  BY DEF Pruned, Consistent, InfoFields
<1>2. Copies(by_id, by_name)
  BY DEF Consistent
<1>3. \A t \in kept : F[t].id = t.id /\ F[t].name = t.name
  BY DEF Consistent, TableFields, WithoutUnsupportedElements, SupportedTables
<1>4. \A map : RemoveUnsupportedElements(map)
                 = [k \in {j \in DOMAIN map : ~map[j].is_unsupported} |-> WithoutUnsupportedElements(map[k])]
  BY DEF RemoveUnsupportedElements, Supported, Restrict
<1>5. \A i \in DOMAIN by_id : by_id[i] \in kept <=> ~by_id[i].is_unsupported
  BY DEF SupportedTables, Values
<1>6. \A n \in DOMAIN by_name : by_name[n] \in kept <=> ~by_name[n].is_unsupported
  BY <1>2 DEF SupportedTables, Values, Copies
<1>7. RemoveUnsupportedElements(by_id) = Changed(by_id, kept, F)
  BY <1>4, <1>5 DEF Changed
<1>8. RemoveUnsupportedElements(by_name) = Changed(by_name, kept, F)
  BY <1>4, <1>6 DEF Changed
<1>9. kept \in SUBSET Values(by_id)
  BY DEF SupportedTables
<1>10. \A t \in kept : F[t] = WithoutUnsupportedElements(t)
  OBVIOUS
<1> HIDE DEF F, kept, by_id, by_name
<1> QED
  <2>1. /\ Copies(RemoveUnsupportedElements(by_id), RemoveUnsupportedElements(by_name))
        /\ \A u : u \in Values(RemoveUnsupportedElements(by_id)) <=> \E t \in kept : u = F[t]
    BY <1>2, <1>3, <1>7, <1>8, <1>9, CopiesAreChangedAlike
  <2> QED
    BY <1>1, <1>10, <2>1 DEF kept

LEMMA PrunedActions ==
  ASSUME NEW info, Consistent(info)
  PROVE  /\ Copies(Pruned(info).actions_by_id, Pruned(info).actions_by_name)
         /\ Values(Pruned(info).actions_by_id) = {a \in Values(info.actions_by_id) : ~a.is_unsupported}
<1> DEFINE by_id   == info.actions_by_id
           by_name == info.actions_by_name
           kept    == {a \in Values(by_id) : ~a.is_unsupported}
           F       == [a \in kept |-> a]
<1>1. Pruned(info).actions_by_id = Supported(by_id) /\ Pruned(info).actions_by_name = Supported(by_name)
  BY DEF Pruned, Consistent, InfoFields
<1>2. Copies(by_id, by_name)
  BY DEF Consistent
<1>3. \A t \in kept : F[t].id = t.id /\ F[t].name = t.name
  OBVIOUS
<1>4. \A map : Supported(map) = [k \in {j \in DOMAIN map : ~map[j].is_unsupported} |-> map[k]]
  BY DEF Supported, Restrict
<1>5. \A i \in DOMAIN by_id : by_id[i] \in kept <=> ~by_id[i].is_unsupported
  BY DEF Values
<1>6. \A n \in DOMAIN by_name : by_name[n] \in kept <=> ~by_name[n].is_unsupported
  BY <1>2 DEF Values, Copies
<1>7. Supported(by_id) = Changed(by_id, kept, F)
  BY <1>4, <1>5 DEF Changed
<1>8. Supported(by_name) = Changed(by_name, kept, F)
  BY <1>4, <1>6 DEF Changed
<1>9. kept \in SUBSET Values(by_id)
  OBVIOUS
<1>10. \A a \in kept : F[a] = a
  OBVIOUS
<1> HIDE DEF F, kept, by_id, by_name
<1> QED
  <2>1. /\ Copies(Supported(by_id), Supported(by_name))
        /\ \A u : u \in Values(Supported(by_id)) <=> \E t \in kept : u = F[t]
    BY <1>2, <1>3, <1>7, <1>8, <1>9, CopiesAreChangedAlike
  <2> QED
    BY <1>1, <1>10, <2>1 DEF kept, by_id

(* What is left of a table: `table' is one of an IrP4Info, `kept' is what   *)
(* RemoveUnsupportedEntities makes of it.                                   *)
WithoutDangling(info, references) == {r \in references : ~IsDanglingReference(Pruned(info), r)}

LeftOver(info, table) ==
  [table EXCEPT !.outgoing_references = WithoutDangling(info, @),
                !.incoming_references = WithoutDangling(info, @)]

IsLeftOf(info, kept, table) ==
  /\ TableFields \subseteq DOMAIN kept
  /\ kept.id = table.id /\ kept.name = table.name
  /\ ~kept.is_unsupported
  /\ kept.entry_actions = SupportedActions(table.entry_actions)
  /\ kept.default_only_actions = SupportedActions(table.default_only_actions)
  /\ kept.match_fields = {f \in table.match_fields : ~f.is_unsupported}
  /\ kept.outgoing_references = WithoutDangling(info, table.outgoing_references)
  /\ kept.incoming_references = WithoutDangling(info, table.incoming_references)

LEMMA PrunedParts ==
  ASSUME NEW info, Consistent(info)
  PROVE  LET pruned   == Pruned(info)
             supported == RemoveUnsupportedEntities(info)
         IN  /\ InfoFields \subseteq DOMAIN supported
             /\ supported.actions_by_id = pruned.actions_by_id
             /\ supported.actions_by_name = pruned.actions_by_name
             /\ supported.tables_by_id = RemoveDanglingReferences(pruned, pruned.tables_by_id)
             /\ supported.tables_by_name = RemoveDanglingReferences(pruned, pruned.tables_by_name)
             /\ supported.built_in_tables = RemoveDanglingReferences(pruned, info.built_in_tables)
             /\ supported.dependency_rank_by_table_name
                  = Restrict(info.dependency_rank_by_table_name,
                             BuiltInTables \cup DOMAIN pruned.tables_by_name)
<1> DEFINE pruned == Pruned(info)
<1>1. /\ InfoFields \subseteq DOMAIN pruned
      /\ pruned.built_in_tables = info.built_in_tables
      /\ pruned.dependency_rank_by_table_name = info.dependency_rank_by_table_name
  BY DEF Pruned, Consistent, InfoFields
<1>2. RemoveUnsupportedEntities(info) =
        [pruned EXCEPT
           !.tables_by_id = RemoveDanglingReferences(pruned, @),
           !.tables_by_name = RemoveDanglingReferences(pruned, @),
           !.built_in_tables = RemoveDanglingReferences(pruned, @),
           !.dependency_rank_by_table_name =
              Restrict(@, BuiltInTables \cup DOMAIN pruned.tables_by_name)]
  BY DEF RemoveUnsupportedEntities, Pruned
<1> HIDE DEF pruned
<1> QED
  BY <1>1, <1>2 DEF InfoFields, pruned

LEMMA TablesAreLeft ==
  ASSUME NEW info, Consistent(info)
  PROVE  LET supported == RemoveUnsupportedEntities(info)
         IN  /\ Copies(supported.tables_by_id, supported.tables_by_name)
             /\ \A u \in Values(supported.tables_by_id) : \E t \in SupportedTables(info) : IsLeftOf(info, u, t)
             /\ \A t \in SupportedTables(info) : \E u \in Values(supported.tables_by_id) : IsLeftOf(info, u, t)
<1> DEFINE pruned  == Pruned(info)
           by_id   == pruned.tables_by_id
           by_name == pruned.tables_by_name
           kept    == Values(by_id)
           F       == [t \in kept |-> LeftOver(info, t)]
<1>1. Copies(by_id, by_name) /\ kept = {WithoutUnsupportedElements(t) : t \in SupportedTables(info)}
  BY PrunedTables
<1>2. \A v : v \in kept <=> \E t \in SupportedTables(info) : v = WithoutUnsupportedElements(t)
  BY <1>1
<1>3. \A map : RemoveDanglingReferences(pruned, map) = [k \in DOMAIN map |-> LeftOver(info, map[k])]
  BY DEF RemoveDanglingReferences, WithoutDangling, LeftOver
<1>4. ASSUME NEW t \in SupportedTables(info)
      PROVE  IsLeftOf(info, F[WithoutUnsupportedElements(t)], t)
  <2> DEFINE v == WithoutUnsupportedElements(t)
  <2>1. TableFields \subseteq DOMAIN t /\ ~t.is_unsupported
    BY DEF Consistent, SupportedTables
  <2>2. /\ DOMAIN v = DOMAIN t
        /\ v.id = t.id /\ v.name = t.name /\ v.is_unsupported = t.is_unsupported
        /\ v.entry_actions = SupportedActions(t.entry_actions)
        /\ v.default_only_actions = SupportedActions(t.default_only_actions)
        /\ v.match_fields = {f \in t.match_fields : ~f.is_unsupported}
        /\ v.outgoing_references = t.outgoing_references
        /\ v.incoming_references = t.incoming_references
    BY <2>1 DEF WithoutUnsupportedElements, TableFields
  <2>3. v \in kept
    BY <1>1
  <2> HIDE DEF v, kept
  <2>4. /\ DOMAIN F[v] = DOMAIN v
        /\ F[v].id = v.id /\ F[v].name = v.name /\ F[v].is_unsupported = v.is_unsupported
        /\ F[v].entry_actions = v.entry_actions
        /\ F[v].default_only_actions = v.default_only_actions
        /\ F[v].match_fields = v.match_fields
        /\ F[v].outgoing_references = WithoutDangling(info, v.outgoing_references)
        /\ F[v].incoming_references = WithoutDangling(info, v.incoming_references)
    BY <2>1, <2>2, <2>3 DEF TableFields, LeftOver
  <2> HIDE DEF F
  <2>5. IsLeftOf(info, F[v], t)
    BY <2>1, <2>2, <2>4 DEF IsLeftOf
  <2> QED
    BY <2>5 DEF v
<1>5. \A t \in SupportedTables(info) : WithoutUnsupportedElements(t).id = t.id /\ WithoutUnsupportedElements(t).name = t.name
  BY DEF Consistent, TableFields, WithoutUnsupportedElements, SupportedTables
<1>6. RemoveDanglingReferences(pruned, by_id) = Changed(by_id, kept, F)
  <2>1. \A i \in DOMAIN by_id : by_id[i] \in kept
    BY DEF Values
  <2> HIDE DEF kept, by_id, pruned
  <2>2. {i \in DOMAIN by_id : by_id[i] \in kept} = DOMAIN by_id
    BY <2>1
  <2>3. Changed(by_id, kept, F) = [i \in DOMAIN by_id |-> LeftOver(info, by_id[i])]
    BY <2>1, <2>2 DEF Changed
  <2> QED
    BY <1>3, <2>3
<1>7. RemoveDanglingReferences(pruned, by_name) = Changed(by_name, kept, F)
  <2>1. \A n \in DOMAIN by_name : by_name[n] \in kept
    BY <1>1 DEF Values, Copies
  <2> HIDE DEF kept, by_name, pruned
  <2>2. {n \in DOMAIN by_name : by_name[n] \in kept} = DOMAIN by_name
    BY <2>1
  <2>3. Changed(by_name, kept, F) = [n \in DOMAIN by_name |-> LeftOver(info, by_name[n])]
    BY <2>1, <2>2 DEF Changed
  <2> QED
    BY <1>3, <2>3
<1>8. /\ RemoveUnsupportedEntities(info).tables_by_id = RemoveDanglingReferences(pruned, by_id)
      /\ RemoveUnsupportedEntities(info).tables_by_name = RemoveDanglingReferences(pruned, by_name)
  BY PrunedParts
<1> HIDE DEF F, kept, by_id, by_name, pruned
<1>9. \A t \in kept : F[t].id = t.id /\ F[t].name = t.name
  BY <1>1, <1>4, <1>5 DEF IsLeftOf
<1>10. kept \in SUBSET Values(by_id)
  BY DEF kept
<1>11. /\ Copies(Changed(by_id, kept, F), Changed(by_name, kept, F))
       /\ \A u : u \in Values(Changed(by_id, kept, F)) <=> \E t \in kept : u = F[t]
  BY <1>1, <1>9, <1>10, CopiesAreChangedAlike
<1> QED
  BY <1>4, <1>6, <1>7, <1>8, <1>11, <1>2

LEMMA BuiltInTablesAreLeft ==
  ASSUME NEW info, Consistent(info)
  PROVE  LET built_in == RemoveUnsupportedEntities(info).built_in_tables
         IN  /\ DOMAIN built_in = BuiltInTables
             /\ \A n \in BuiltInTables :
                  /\ BuiltInFields \subseteq DOMAIN built_in[n]
                  /\ built_in[n].name = n
                  /\ built_in[n].outgoing_references = WithoutDangling(info, info.built_in_tables[n].outgoing_references)
                  /\ built_in[n].incoming_references = WithoutDangling(info, info.built_in_tables[n].incoming_references)
<1> DEFINE old == info.built_in_tables
<1>1. DOMAIN old = BuiltInTables /\ \A n \in BuiltInTables : BuiltInFields \subseteq DOMAIN old[n] /\ old[n].name = n
  BY DEF Consistent
<1>2. RemoveUnsupportedEntities(info).built_in_tables = [n \in DOMAIN old |-> LeftOver(info, old[n])]
  <2>1. RemoveUnsupportedEntities(info).built_in_tables = RemoveDanglingReferences(Pruned(info), old)
    BY PrunedParts
  <2> QED
    BY <2>1 DEF RemoveDanglingReferences, WithoutDangling, LeftOver
<1> HIDE DEF old
<1>3. \A n \in BuiltInTables :
        /\ DOMAIN LeftOver(info, old[n]) = DOMAIN old[n]
        /\ LeftOver(info, old[n]).name = old[n].name
        /\ LeftOver(info, old[n]).outgoing_references = WithoutDangling(info, old[n].outgoing_references)
        /\ LeftOver(info, old[n]).incoming_references = WithoutDangling(info, old[n].incoming_references)
  BY <1>1 DEF LeftOver, BuiltInFields
<1> QED
  BY <1>1, <1>2, <1>3 DEF old

(* No definition and no copy gets out of step when something is removed.    *)
LEMMA RemovalKeepsConsistency ==
  ASSUME NEW info, Consistent(info)
  PROVE  /\ Consistent(RemoveUnsupportedEntities(info))
         /\ \A references : HasReferences(info, references) =>
              HasReferences(RemoveUnsupportedEntities(info), WithoutDangling(info, references))
<1> DEFINE supported == RemoveUnsupportedEntities(info)
<1>1. /\ Copies(supported.tables_by_id, supported.tables_by_name)
      /\ \A u \in Values(supported.tables_by_id) : \E t \in SupportedTables(info) : IsLeftOf(info, u, t)
  BY TablesAreLeft
<1>2. /\ InfoFields \subseteq DOMAIN supported
      /\ supported.actions_by_id = Pruned(info).actions_by_id
      /\ supported.actions_by_name = Pruned(info).actions_by_name
  BY PrunedParts
<1>3. /\ Copies(supported.actions_by_id, supported.actions_by_name)
      /\ Values(supported.actions_by_id) = {a \in Values(info.actions_by_id) : ~a.is_unsupported}
  BY <1>2, PrunedActions
<1>4. /\ DOMAIN supported.built_in_tables = BuiltInTables
      /\ \A n \in BuiltInTables :
           /\ BuiltInFields \subseteq DOMAIN supported.built_in_tables[n]
           /\ supported.built_in_tables[n].name = n
           /\ supported.built_in_tables[n].outgoing_references
                = WithoutDangling(info, info.built_in_tables[n].outgoing_references)
           /\ supported.built_in_tables[n].incoming_references
                = WithoutDangling(info, info.built_in_tables[n].incoming_references)
  BY BuiltInTablesAreLeft
<1> HIDE DEF supported
<1>5. ASSUME NEW u \in Values(supported.tables_by_id)
      PROVE  TableFields \subseteq DOMAIN u /\ \A a \in u.entry_actions : a.action \in Values(supported.actions_by_id)
  <2>1. PICK t \in SupportedTables(info) : IsLeftOf(info, u, t)
    BY <1>1
  <2>2. \A a \in u.entry_actions : a \in t.entry_actions /\ ~a.action.is_unsupported
    BY <2>1 DEF IsLeftOf, SupportedActions
  <2>3. \A a \in t.entry_actions : a.action \in Values(info.actions_by_id)
    BY DEF Consistent, SupportedTables
  <2> QED
    BY <1>3, <2>1, <2>2, <2>3 DEF IsLeftOf
<1>6. Consistent(supported)
  BY <1>1, <1>2, <1>3, <1>4, <1>5 DEF Consistent
<1>7. ASSUME NEW references, HasReferences(info, references), NEW u \in TablesOf(supported)
      PROVE  /\ u.outgoing_references = {r \in WithoutDangling(info, references) : r.source = u.name}
             /\ u.incoming_references = {r \in WithoutDangling(info, references) : r.destination = u.name}
  <2>1. \E t \in TablesOf(info) :
          /\ u.name = t.name
          /\ u.outgoing_references = WithoutDangling(info, t.outgoing_references)
          /\ u.incoming_references = WithoutDangling(info, t.incoming_references)
    <3>1. CASE u \in Values(supported.tables_by_name)
      <4>1. u \in Values(supported.tables_by_id)
        BY <1>1, <3>1 DEF Copies
      <4>2. PICK t \in SupportedTables(info) : IsLeftOf(info, u, t)
        BY <1>1, <4>1
      <4>3. t \in TablesOf(info)
        BY DEF SupportedTables, TablesOf, Consistent, Copies
      <4> QED
        BY <4>2, <4>3 DEF IsLeftOf
    <3>2. CASE u \in Values(supported.built_in_tables)
      <4>1. PICK n \in BuiltInTables : u = supported.built_in_tables[n]
        BY <1>4, <3>2 DEF Values
      <4>2. info.built_in_tables[n] \in TablesOf(info) /\ info.built_in_tables[n].name = n
        BY DEF TablesOf, Values, Consistent
      <4> QED
        BY <1>4, <4>1, <4>2
    <3> QED
      BY <3>1, <3>2 DEF TablesOf
  <2>2. PICK t \in TablesOf(info) :
          /\ u.name = t.name
          /\ u.outgoing_references = WithoutDangling(info, t.outgoing_references)
          /\ u.incoming_references = WithoutDangling(info, t.incoming_references)
    BY <2>1
  <2>3. /\ t.outgoing_references = {r \in references : r.source = t.name}
        /\ t.incoming_references = {r \in references : r.destination = t.name}
    BY <1>7 DEF HasReferences
  <2> QED
    BY <2>2, <2>3 DEF WithoutDangling
<1> QED
  BY <1>6, <1>7 DEF HasReferences, supported

LEMMA NamesThatAreLeft ==
  ASSUME NEW info, Consistent(info)
  PROVE  LET supported == RemoveUnsupportedEntities(info)
         IN  /\ NamesOf(supported) = BuiltInTables \cup DOMAIN supported.tables_by_name
             /\ NamesOf(supported) \subseteq NamesOf(info)
             /\ supported.dependency_rank_by_table_name
                  = [n \in NamesOf(supported) |-> info.dependency_rank_by_table_name[n]]
<1> DEFINE supported == RemoveUnsupportedEntities(info)
<1>1. Copies(supported.tables_by_id, supported.tables_by_name)
  BY TablesAreLeft
<1>2. /\ DOMAIN supported.built_in_tables = BuiltInTables
      /\ \A n \in BuiltInTables : supported.built_in_tables[n].name = n
  BY BuiltInTablesAreLeft
<1>3. DOMAIN supported.tables_by_name = DOMAIN Pruned(info).tables_by_name
  <2>1. supported.tables_by_name = RemoveDanglingReferences(Pruned(info), Pruned(info).tables_by_name)
    BY PrunedParts
  <2> QED
    BY <2>1 DEF RemoveDanglingReferences
<1>4. supported.dependency_rank_by_table_name
        = [n \in BuiltInTables \cup DOMAIN supported.tables_by_name |-> info.dependency_rank_by_table_name[n]]
  BY <1>3, PrunedParts DEF Restrict
<1>5. \A u \in Values(supported.tables_by_id) : \E t \in SupportedTables(info) : IsLeftOf(info, u, t)
  BY TablesAreLeft
<1> HIDE DEF supported
<1>6. NamesOf(supported) = BuiltInTables \cup DOMAIN supported.tables_by_name
  <2>1. {t.name : t \in Values(supported.tables_by_name)} = DOMAIN supported.tables_by_name
    BY <1>1 DEF Values, Copies
  <2>2. {t.name : t \in Values(supported.built_in_tables)} = BuiltInTables
    BY <1>2 DEF Values
  <2>3. \A n : n \in NamesOf(supported) <=> \/ n \in {t.name : t \in Values(supported.tables_by_name)}
                                           \/ n \in {t.name : t \in Values(supported.built_in_tables)}
    BY DEF NamesOf, TablesOf
  <2> QED
    BY <2>1, <2>2, <2>3
<1>7. NamesOf(supported) \subseteq NamesOf(info)
  <2>1. \A n \in BuiltInTables : info.built_in_tables[n] \in TablesOf(info) /\ info.built_in_tables[n].name = n
    BY DEF TablesOf, Values, Consistent
  <2>2. ASSUME NEW n \in DOMAIN supported.tables_by_name PROVE n \in NamesOf(info)
    <3>1. supported.tables_by_name[n] \in Values(supported.tables_by_id) /\ supported.tables_by_name[n].name = n
      BY <1>1 DEF Copies, Values
    <3>2. PICK t \in SupportedTables(info) : IsLeftOf(info, supported.tables_by_name[n], t)
      BY <1>5, <3>1
    <3>3. t \in TablesOf(info) /\ t.name = n
      BY <3>1, <3>2 DEF SupportedTables, TablesOf, Consistent, Copies, IsLeftOf
    <3> QED
      BY <3>3 DEF NamesOf
  <2> QED
    BY <1>6, <2>1, <2>2 DEF NamesOf
<1> QED
  BY <1>4, <1>6, <1>7 DEF supported

------------------------------------------------------------------------------
(* References of a program that can be created                             *)

IsDeclared(info, table, field) == table \in BuiltInTables \/ FieldsNamed(info, table, field) # {}

(* A single reference between tables that are there, from a match field     *)
(* that is there, if it is from one, and to one that may be referred to.    *)
IsProper(info, r) ==
  /\ r.source \in TableNames(info) \cup BuiltInTables
  /\ r.destination \in TableNames(info) \cup BuiltInTables
  /\ r.field.destination.kind = "match" /\ ~r.field.destination.optional
  /\ IsDeclared(info, r.destination, r.field.destination.name)
  /\ r.field.source.kind = "match" => IsDeclared(info, r.source, r.field.source.name)

LEMMA DestinationsAreThere ==
  ASSUME NEW info, NEW args, DestinationOk(info, args)
  PROVE  /\ args[1] \in TableNames(info) \cup BuiltInTables
         /\ MatchField(info, args[1], args[2]).kind = "match"
         /\ MatchField(info, args[1], args[2]).name = args[2]
         /\ ~MatchField(info, args[1], args[2]).optional
         /\ IsDeclared(info, args[1], args[2])
<1>1. CASE args[1] \in BuiltInTables
  BY <1>1 DEF DestinationOk, MatchField, IsDeclared
<1>2. CASE args[1] \notin BuiltInTables
  <2>1. PICK f \in FieldsNamed(info, args[1], args[2]) : TRUE
    BY <1>2 DEF DestinationOk, MatchFieldExists
  <2>2. \E t \in Elements(info.tables) : t.name = args[1]
    BY <2>1 DEF FieldsNamed
  <2> QED
    BY <2>1, <2>2 DEF DestinationOk, MatchField, TableNames, IsDeclared
<1> QED
  BY <1>1, <1>2

LEMMA OneFieldOfAName ==
  ASSUME NEW info, CreationOk(info), NEW t \in Elements(info.tables), NEW f \in Elements(t.match_fields)
  PROVE  FieldsNamed(info, t.name, f.name) = {f}
<1>1. \A s \in Elements(info.tables) : s.name = t.name => s = t
  BY UniqueDefinitions DEF CreationOk
<1>2. \A g \in Elements(t.match_fields) : g.name = f.name => g = f
  BY UniqueDefinitions DEF CreationOk, TableOk, MatchFieldsOk
<1> QED
  BY <1>1, <1>2 DEF FieldsNamed

LEMMA MatchFieldReferencesAreProper ==
  ASSUME NEW info, CreationOk(info), NEW t \in Elements(info.tables), NEW r \in MatchFieldReferences(info, t)
  PROVE  IsProper(info, r)
<1>1. PICK f \in Elements(t.match_fields) :
        \/ \E a \in Annotations("refers_to", f) :
             r = Reference(t.name, a.args[1], MatchField(info, t.name, f.name),
                           MatchField(info, a.args[1], a.args[2]))
        \/ \E a \in Annotations("referenced_by", f) :
             r = Reference(a.args[1], t.name, SourceField(info, a.args), MatchField(info, t.name, f.name))
  BY DEF MatchFieldReferences
<1>2. t.name \in TableNames(info)
  BY DEF TableNames
<1>3. TableReferencesOk(info) /\ IsDeclared(info, t.name, f.name)
  BY OneFieldOfAName DEF CreationOk, IsDeclared
<1>4. ASSUME NEW a \in Annotations("refers_to", f),
             r = Reference(t.name, a.args[1], MatchField(info, t.name, f.name),
                           MatchField(info, a.args[1], a.args[2]))
      PROVE  IsProper(info, r)
  <2>1. f \in Referrers(info)
    <3>1. f \in UNION {Elements(s.match_fields) : s \in Elements(info.tables)}
      OBVIOUS
    <3> QED
      BY <3>1 DEF Referrers
  <2>2. DestinationOk(info, a.args)
    BY <1>3, <2>1 DEF TableReferencesOk
  <2>3. MatchField(info, t.name, f.name).name = f.name
    BY DEF MatchField
  <2> QED
    BY <1>2, <1>3, <1>4, <2>2, <2>3, DestinationsAreThere DEF IsProper, Reference
<1>5. ASSUME NEW a \in Annotations("referenced_by", f),
             r = Reference(a.args[1], t.name, SourceField(info, a.args), MatchField(info, t.name, f.name))
      PROVE  IsProper(info, r)
  <2>1. a.args[1] \in BuiltInTables /\ ~MatchField(info, t.name, f.name).optional
    BY <1>3 DEF TableReferencesOk, SourceOk
  <2>2. MatchField(info, t.name, f.name).kind = "match" /\ MatchField(info, t.name, f.name).name = f.name
    BY DEF MatchField
  <2>3. IsDeclared(info, a.args[1], SourceField(info, a.args).name)
    BY <2>1 DEF IsDeclared
  <2> QED
    BY <1>2, <1>3, <1>5, <2>1, <2>2, <2>3 DEF IsProper, Reference
<1> QED
  BY <1>1, <1>4, <1>5

LEMMA InheritedReferencesAreProper ==
  ASSUME NEW info, CreationOk(info), NEW t \in Elements(info.tables), NEW r \in InheritedReferences(info, t)
  PROVE  IsProper(info, r)
<1>1. PICK ref \in IrTable(info, t).entry_actions :
        r \in UNION {{Reference(t.name, a.args[1], ActionField(ref.action.name, p.name),
                                MatchField(info, a.args[1], a.args[2])) : a \in Annotations("refers_to", p)} :
                       p \in ref.action.params}
  BY DEF InheritedReferences
<1>2. PICK p \in ref.action.params :
        r \in {Reference(t.name, a.args[1], ActionField(ref.action.name, p.name),
                         MatchField(info, a.args[1], a.args[2])) : a \in Annotations("refers_to", p)}
  BY <1>1
<1>3. PICK a \in Annotations("refers_to", p) :
        r = Reference(t.name, a.args[1], ActionField(ref.action.name, p.name),
                      MatchField(info, a.args[1], a.args[2]))
  BY <1>2
<1>4. ref.action \in {IrAction(info, b) : b \in Elements(info.actions)}
  <2>1. IrTable(info, t) \in {IrTable(info, s) : s \in Elements(info.tables)}
    OBVIOUS
  <2> QED
    BY <2>1, CreatedDefinitions
<1>5. PICK action \in Elements(info.actions) : ref.action = IrAction(info, action)
  BY <1>4
<1>6. PICK q \in Elements(action.params) : p = WithFormat(info, q)
  BY <1>5 DEF IrAction
<1>7. a \in Annotations("refers_to", q) /\ q \in Referrers(info)
  BY <1>6 DEF WithFormat, Annotations, Referrers
<1>8. DestinationOk(info, a.args)
  BY <1>7 DEF CreationOk, TableReferencesOk
<1>9. t.name \in TableNames(info)
  BY DEF TableNames
<1>10. ActionField(ref.action.name, p.name).kind = "action"
  BY DEF ActionField
<1> QED
  BY <1>3, <1>8, <1>9, <1>10, DestinationsAreThere DEF IsProper, Reference

(* The references of two tables are one, of all the fields that they are    *)
(* related by.                                                              *)
LEMMA ReferencesAreProper ==
  ASSUME NEW info, CreationOk(info), NEW r \in ParseIrTableReferences(info)
  PROVE  /\ r.source \in TableNames(info) \cup BuiltInTables
         /\ r.destination \in TableNames(info) \cup BuiltInTables
         /\ r.fields # {}
         /\ \A f \in r.fields :
              /\ f.destination.kind = "match" /\ ~f.destination.optional
              /\ IsDeclared(info, r.destination, f.destination.name)
              /\ f.source.kind = "match" => IsDeclared(info, r.source, f.source.name)
         /\ \A s \in ParseIrTableReferences(info) :
              s.source = r.source /\ s.destination = r.destination => s = r
<1> DEFINE all == UNION {MatchFieldReferences(info, t) \cup InheritedReferences(info, t) :
                           t \in Elements(info.tables)}
           Fields(source, destination) ==
             {x.field : x \in {s \in all : s.source = source /\ s.destination = destination}}
<1>1. \A x \in all : IsProper(info, x)
  BY MatchFieldReferencesAreProper, InheritedReferencesAreProper
<1>2. ParseIrTableReferences(info) =
        {[source |-> pair[1], destination |-> pair[2], fields |-> Fields(pair[1], pair[2])] :
           pair \in {<<x.source, x.destination>> : x \in all}}
  BY DEF ParseIrTableReferences, GroupedByTables
<1> HIDE DEF all
<1>3. \A s \in ParseIrTableReferences(info) : \E x \in all :
        s = [source |-> x.source, destination |-> x.destination, fields |-> Fields(x.source, x.destination)]
  BY <1>2
<1>4. PICK x \in all :
        r = [source |-> x.source, destination |-> x.destination, fields |-> Fields(x.source, x.destination)]
  BY <1>3
<1>5. r.source = x.source /\ r.destination = x.destination /\ r.fields = Fields(x.source, x.destination)
  BY <1>4
<1>6. /\ x.field \in r.fields
      /\ \A f \in r.fields : \E y \in all :
           f = y.field /\ y.source = r.source /\ y.destination = r.destination
  BY <1>5
<1>7. \A f \in r.fields :
        /\ f.destination.kind = "match" /\ ~f.destination.optional
        /\ IsDeclared(info, r.destination, f.destination.name)
        /\ f.source.kind = "match" => IsDeclared(info, r.source, f.source.name)
  BY <1>1, <1>6 DEF IsProper
<1>8. ASSUME NEW s \in ParseIrTableReferences(info), s.source = r.source, s.destination = r.destination
      PROVE  s = r
  <2>1. PICK y \in all :
          s = [source |-> y.source, destination |-> y.destination, fields |-> Fields(y.source, y.destination)]
    BY <1>3
  <2>2. y.source = x.source /\ y.destination = x.destination
    BY <1>5, <1>8, <2>1
  <2> QED
    BY <1>4, <2>1, <2>2
<1> QED
  BY <1>1, <1>5, <1>6, <1>7, <1>8 DEF IsProper

------------------------------------------------------------------------------
(* Ranks                                                                   *)

LEMMA LeastNatural ==
  ASSUME NEW T \in SUBSET Nat, T # {}
  PROVE  \E n \in T : \A m \in T : n <= m
<1> DEFINE less == {pair \in Nat \X Nat : pair[1] < pair[2]}
<1>1. IsWellFoundedOn(less, Nat)
  BY NatLessThanWellFounded DEF OpToRel
<1>2. PICK n \in T : \A m \in T : ~ (<<m, n>> \in less)
  BY <1>1, WFMin
<1>3. \A m \in T : ~(m < n)
  BY <1>2
<1> QED
  BY <1>3

LEMMA MinIsLeast ==
  ASSUME NEW S \in SUBSET Int, S # {}, NEW bound \in Int, \A x \in S : bound <= x
  PROVE  Min(S) \in S /\ \A x \in S : Min(S) <= x
<1> DEFINE T == {n \in Nat : n + bound \in S}
<1>1. \A x \in S : x - bound \in T
  OBVIOUS
<1>2. T \in SUBSET Nat /\ T # {}
  BY <1>1
<1> HIDE DEF T
<1>3. PICK n \in T : \A m \in T : n <= m
  BY <1>2, LeastNatural
<1>4. n + bound \in S
  BY <1>3 DEF T
<1>5. \A x \in S : n + bound <= x
  BY <1>1, <1>2, <1>3
<1> QED
  BY <1>4, <1>5 DEF Min

(* A step lowers no rank by more than one below the lowest.                 *)
LEMMA RankStepIsBounded ==
  ASSUME NEW tables, NEW references, \A r \in references : r.source \in tables => r.destination \in tables,
         NEW n \in Nat, NEW rank \in [tables -> (0 - n) .. 0]
  PROVE  /\ RankStep(tables, references, rank) \in [tables -> (0 - (n + 1)) .. 0]
         /\ \A r \in references : r.source \in tables =>
              RankStep(tables, references, rank)[r.source] <= rank[r.destination] - 1
<1> DEFINE Below(t) == {0} \cup {rank[r.destination] - 1 : r \in {s \in references : s.source = t}}
<1>1. ASSUME NEW t \in tables
      PROVE  /\ Min(Below(t)) \in (0 - (n + 1)) .. 0
             /\ \A x \in Below(t) : Min(Below(t)) <= x
  <2>1. \A r \in references : r.source = t => rank[r.destination] \in (0 - n) .. 0
    OBVIOUS
  <2>2. \A x \in Below(t) : x \in Int /\ 0 - (n + 1) <= x /\ x <= 0
    BY <2>1
  <2>3. 0 \in Below(t)
    OBVIOUS
  <2> HIDE DEF Below
  <2>4. Min(Below(t)) \in Below(t) /\ \A x \in Below(t) : Min(Below(t)) <= x
    BY <2>2, <2>3, MinIsLeast, 0 - (n + 1) \in Int
  <2> QED
    BY <2>2, <2>4
<1>2. RankStep(tables, references, rank) = [t \in tables |-> Min(Below(t))]
  BY DEF RankStep
<1>3. \A r \in references : rank[r.destination] - 1 \in Below(r.source)
  OBVIOUS
<1> HIDE DEF Below
<1> QED
  BY <1>1, <1>2, <1>3

(* The ranks of the first steps.                                            *)
IsRanking(rank, tables, references, steps) ==
  rank = [n \in 0 .. steps |->
            IF n = 0 THEN [t \in tables |-> 0] ELSE RankStep(tables, references, rank[n - 1])]

(* The ranks are found step by step.                                        *)
LEMMA RanksAreFound ==
  ASSUME NEW tables, NEW references, \A r \in references : r.source \in tables => r.destination \in tables,
         NEW steps \in Nat
  PROVE  \E rank : /\ IsRanking(rank, tables, references, steps)
                   /\ \A n \in 0 .. steps : rank[n] \in [tables -> (0 - n) .. 0]
<1> USE DEF IsRanking
<1> DEFINE Found(m, rank) ==
             /\ IsRanking(rank, tables, references, m)
             /\ \A n \in 0 .. m : rank[n] \in [tables -> (0 - n) .. 0]
           T == {m \in Nat : ~ \E rank : Found(m, rank)}
<1>1. ASSUME T # {} PROVE FALSE
  <2>1. PICK m \in T : \A n \in T : m <= n
    BY <1>1, LeastNatural
  <2>2. CASE m = 0
    <3> DEFINE rank == [n \in 0 .. 0 |-> [t \in tables |-> 0]]
    <3>1. Found(0, rank)
      OBVIOUS
    <3> QED
      BY <2>1, <2>2, <3>1
  <2>3. CASE m # 0
    <3> HIDE DEF T, Found
    <3>1. m \in Nat
      BY DEF T
    <3>2. m - 1 \in Nat /\ m - 1 \notin T
      BY <2>1, <2>3, <3>1
    <3>3. PICK old : Found(m - 1, old)
      BY <3>2 DEF T
    <3>4. \A n \in 0 .. (m - 1) :
            old[n] = IF n = 0 THEN [t \in tables |-> 0] ELSE RankStep(tables, references, old[n - 1])
      BY <3>3 DEF Found
    <3>5. \A n \in 0 .. (m - 1) : old[n] \in [tables -> (0 - n) .. 0]
      BY <3>3 DEF Found
    <3> DEFINE rank == [n \in 0 .. m |-> IF n = m THEN RankStep(tables, references, old[m - 1]) ELSE old[n]]
    <3>6. old[m - 1] \in [tables -> (0 - (m - 1)) .. 0]
      <4>1. m - 1 \in 0 .. (m - 1)
        BY <3>2
      <4> QED
        BY <3>5, <4>1
    <3>7. rank[m] \in [tables -> (0 - m) .. 0]
      <4>1. RankStep(tables, references, old[m - 1]) \in [tables -> (0 - (m - 1 + 1)) .. 0]
        BY <3>2, <3>6, RankStepIsBounded
      <4> QED
        BY <3>1, <4>1
    <3>8. (\A n \in 0 .. (m - 1) : rank[n] = old[n]) /\ rank[m] = RankStep(tables, references, old[m - 1])
      BY <3>1
    <3>9. rank = [n \in 0 .. m |-> rank[n]]
      OBVIOUS
    <3> HIDE DEF rank
    <3>10. \A n \in 0 .. m : rank[n] = IF n = 0 THEN [t \in tables |-> 0] ELSE RankStep(tables, references, rank[n - 1])
      <4>1. rank[0] = [t \in tables |-> 0]
        BY <3>2, <3>4, <3>8
      <4>2. \A n \in 1 .. (m - 1) : rank[n] = RankStep(tables, references, rank[n - 1])
        <5> SUFFICES ASSUME NEW n \in 1 .. (m - 1)
                     PROVE  rank[n] = RankStep(tables, references, rank[n - 1])
          OBVIOUS
        <5>1. n \in 0 .. (m - 1) /\ n - 1 \in 0 .. (m - 1) /\ n # 0
          BY <3>2
        <5> QED
          BY <3>4, <3>8, <5>1
      <4>3. rank[m] = RankStep(tables, references, rank[m - 1])
        BY <3>2, <3>8
      <4>4. \A n \in 0 .. m : n = 0 \/ n = m \/ n \in 1 .. (m - 1)
        BY <3>1
      <4> QED
        BY <2>3, <4>1, <4>2, <4>3, <4>4
    <3>11. \A n \in 0 .. m : rank[n] \in [tables -> (0 - n) .. 0]
      <4>1. \A n \in 0 .. m : n = m \/ n \in 0 .. (m - 1)
        BY <3>1
      <4> QED
        BY <3>5, <3>7, <3>8, <4>1
    <3>12. rank = [n \in 0 .. m |->
                    IF n = 0 THEN [t \in tables |-> 0] ELSE RankStep(tables, references, rank[n - 1])]
      BY <3>10, <3>9
    <3> QED
      BY <2>1, <3>11, <3>12 DEF T, Found
  <2> QED
    BY <2>2, <2>3
<1> QED
  BY <1>1

(* Ranks that do not sink any further rise along every reference.           *)
LEMMA RanksRise ==
  ASSUME NEW tables, IsFiniteSet(tables),
         NEW references, \A r \in references : r.source \in tables => r.destination \in tables,
         Ranks(tables, references) # Refused
  PROVE  /\ DOMAIN Ranks(tables, references) = tables
         /\ \A t \in tables : Ranks(tables, references)[t] \in Int
         /\ \A r \in references : r.source \in tables =>
              Ranks(tables, references)[r.source] < Ranks(tables, references)[r.destination]
<1> DEFINE steps == Cardinality(tables)
           rank == CHOOSE rank : IsRanking(rank, tables, references, steps)
           last == rank[steps]
<1>1. Ranks(tables, references) = IF RankStep(tables, references, last) = last THEN last ELSE Refused
  BY DEF Ranks, IsRanking
<1>2. steps \in Nat
  BY FS_CardinalityType
<1> HIDE DEF steps
<1>3. rank = [n \in 0 .. steps |->
                IF n = 0 THEN [t \in tables |-> 0] ELSE RankStep(tables, references, rank[n - 1])]
  <2>1. \E f : IsRanking(f, tables, references, steps)
    BY <1>2, RanksAreFound
  <2>2. IsRanking(rank, tables, references, steps)
    BY <2>1
  <2> QED
    BY <2>2 DEF IsRanking
<1> HIDE DEF rank
<1>4. ASSUME NEW n \in 0 .. steps PROVE rank[n] \in [tables -> (0 - n) .. 0]
  <2> DEFINE T == {m \in 0 .. steps : rank[m] \notin [tables -> (0 - m) .. 0]}
  <2> SUFFICES ASSUME T # {} PROVE FALSE
    OBVIOUS
  <2>1. T \in SUBSET Nat
    BY <1>2
  <2>2. PICK m \in T : \A k \in T : m <= k
    BY <2>1, LeastNatural
  <2>3. m \in 0 .. steps /\ m \in Nat /\ rank[m] \notin [tables -> (0 - m) .. 0]
    BY <2>1, <2>2
  <2>4. CASE m = 0
    <3>1. rank[0] = [t \in tables |-> 0]
      BY <1>2, <1>3
    <3> QED
      BY <2>3, <2>4, <3>1
  <2>5. CASE m # 0
    <3>1. m - 1 \in Nat /\ m - 1 \in 0 .. steps
      BY <1>2, <2>3, <2>5
    <3>2. m - 1 \notin T
      BY <2>1, <2>2, <2>3, <3>1
    <3>3. rank[m - 1] \in [tables -> (0 - (m - 1)) .. 0]
      BY <3>1, <3>2
    <3>4. RankStep(tables, references, rank[m - 1]) \in [tables -> (0 - (m - 1 + 1)) .. 0]
      BY <3>1, <3>3, RankStepIsBounded
    <3>5. rank[m] = RankStep(tables, references, rank[m - 1])
      BY <1>3, <2>3, <2>5
    <3> QED
      BY <2>3, <3>4, <3>5
  <2> QED
    BY <2>4, <2>5
<1>5. last \in [tables -> (0 - steps) .. 0]
  <2>1. steps \in 0 .. steps
    BY <1>2
  <2> QED
    BY <1>4, <2>1
<1>6. RankStep(tables, references, last) = last /\ Ranks(tables, references) = last
  BY <1>1
<1> HIDE DEF last
<1>7. \A r \in references : r.source \in tables => last[r.source] <= last[r.destination] - 1
  BY <1>2, <1>5, <1>6, RankStepIsBounded
<1>8. \A t \in tables : last[t] \in Int
  BY <1>2, <1>5
<1> QED
  BY <1>5, <1>6, <1>7, <1>8

------------------------------------------------------------------------------
(* The union has all that is merged into it                                *)

LEMMA SequencesAreFunctions ==
  ASSUME NEW s, IsSequence(s)
  PROVE  s \in Seq(Elements(s)) /\ Len(s) \in Nat /\ DOMAIN s = 1 .. Len(s)
BY SeqDef DEF IsSequence, Elements

LEMMA FunctionsAreSequences ==
  ASSUME NEW S, NEW s \in Seq(S)
  PROVE  IsSequence(s) /\ Elements(s) \subseteq S
BY DEF IsSequence, Elements

(* The ways of joining two elements with the same id, what an element of    *)
(* each kind has to be, and what of one element another one has, too.       *)
JoinOf(kind, field, unioned_field) ==
  IF kind = "table" THEN JoinTable(field, unioned_field)
  ELSE IF kind = "action" THEN JoinAction(field, unioned_field)
  ELSE IF kind = "profile" THEN JoinProfile(field, unioned_field)
  ELSE JoinEqual(field, unioned_field)

IsOf(kind, element) ==
  /\ kind = "table" => IsTable(element)
  /\ kind = "action" => IsAction(element)

IncludesTable(whole, part) ==
  /\ whole.id = part.id /\ whole.name = part.name
  /\ whole.implementation_id = part.implementation_id
  /\ part.size <= whole.size
  /\ Elements(part.match_fields) \subseteq Elements(whole.match_fields)
  /\ Elements(part.action_refs) \subseteq Elements(whole.action_refs)

IncludesAction(whole, part) ==
  whole.id = part.id /\ whole.name = part.name /\ whole.params = part.params

Includes(kind, whole, part) ==
  /\ kind = "table" => IncludesTable(whole, part)
  /\ kind = "action" => IncludesAction(whole, part)
  /\ kind \notin {"table", "action"} => whole = part

JoinIncludesBoth(kind) ==
  \A part, whole :
    /\ IsOf(kind, part) /\ IsOf(kind, whole) /\ part.id = whole.id
    /\ JoinOf(kind, part, whole) # Refused
    => /\ IsOf(kind, JoinOf(kind, part, whole))
       /\ Includes(kind, JoinOf(kind, part, whole), part)
       /\ Includes(kind, JoinOf(kind, part, whole), whole)

IsListOf(kind, list) ==
  IsSequence(list) /\ \A e \in Elements(list) : IsOf(kind, e)

(* Every one of the elements is in the list, or is part of what is.         *)
Keeps(kind, list, elements) ==
  \A e \in elements : \E w \in Elements(list) : Includes(kind, w, e)

(* Elements that have to be equal are not changed.                          *)
ComesFrom(kind, list, elements) == kind \notin {"table", "action"} => Elements(list) \subseteq elements

LEMMA InclusionIsTransitive ==
  ASSUME NEW kind, NEW a, NEW b, NEW c, IsOf(kind, a), IsOf(kind, b), IsOf(kind, c),
         Includes(kind, a, b), Includes(kind, b, c)
  PROVE  Includes(kind, a, c)
<1>1. ASSUME kind = "table" PROVE IncludesTable(a, c)
  <2>1. a.size \in Nat /\ b.size \in Nat /\ c.size \in Nat
    BY <1>1 DEF IsOf, IsTable
  <2> QED
    BY <1>1, <2>1 DEF Includes, IncludesTable
<1>2. ASSUME kind = "action" PROVE IncludesAction(a, c)
  BY <1>2 DEF Includes, IncludesAction
<1> QED
  BY <1>1, <1>2 DEF Includes

LEMMA InclusionIsReflexive ==
  ASSUME NEW kind, NEW a, IsOf(kind, a)
  PROVE  Includes(kind, a, a)
BY DEF Includes, IncludesTable, IncludesAction, IsOf, IsTable

AddOf(kind, acc, field) ==
  LET same == IF acc = Refused THEN {} ELSE {i \in DOMAIN acc : acc[i].id = field.id}
      first == Min(same)
      joined == JoinOf(kind, field, acc[first])
  IN  IF acc = Refused \/ (same # {} /\ joined = Refused) THEN Refused
      ELSE IF same = {} THEN Append(acc, field)
      ELSE [acc EXCEPT ![first] = joined]

(* AddField: nothing of the list is lost, and the field is there, too.      *)
LEMMA AddingKeepsAll ==
  ASSUME NEW kind, JoinIncludesBoth(kind), NEW acc, IsListOf(kind, acc),
         NEW field, IsOf(kind, field), AddOf(kind, acc, field) # Refused
  PROVE  /\ IsListOf(kind, AddOf(kind, acc, field))
         /\ Keeps(kind, AddOf(kind, acc, field), Elements(acc) \cup {field})
         /\ ComesFrom(kind, AddOf(kind, acc, field), Elements(acc) \cup {field})
<1> DEFINE same == {i \in DOMAIN acc : acc[i].id = field.id}
           first == Min(same)
           joined == JoinOf(kind, field, acc[first])
           new == AddOf(kind, acc, field)
<1>1. /\ acc # Refused
      /\ same = {} => new = Append(acc, field)
      /\ same # {} => new = [acc EXCEPT ![first] = joined] /\ joined # Refused
  BY DEF AddOf
<1>2. acc \in Seq(Elements(acc)) /\ Len(acc) \in Nat /\ DOMAIN acc = 1 .. Len(acc)
  BY SequencesAreFunctions DEF IsListOf
<1>3. \A e \in Elements(acc) : IsOf(kind, e)
  BY DEF IsListOf
<1>4. CASE same = {}
  <2>1. Append(acc, field) \in Seq(Elements(acc) \cup {field})
    BY <1>2
  <2>2. IsSequence(Append(acc, field)) /\ Elements(Append(acc, field)) \subseteq Elements(acc) \cup {field}
    BY <2>1, FunctionsAreSequences
  <2>3. \A e \in Elements(acc) \cup {field} : IsOf(kind, e)
    BY <1>3
  <2>4. Elements(acc) \cup {field} \subseteq Elements(Append(acc, field))
    <3>1. DOMAIN Append(acc, field) = 1 .. Len(acc) + 1
      BY <1>2
    <3>2. Append(acc, field)[Len(acc) + 1] = field /\ \A i \in DOMAIN acc : Append(acc, field)[i] = acc[i]
      BY <1>2
    <3>3. Len(acc) + 1 \in 1 .. Len(acc) + 1 /\ DOMAIN acc \subseteq 1 .. Len(acc) + 1
      BY <1>2
    <3> QED
      BY <3>1, <3>2, <3>3 DEF Elements
  <2> HIDE DEF same
  <2> QED
    BY <1>1, <1>4, <2>2, <2>3, <2>4, InclusionIsReflexive DEF IsListOf, Keeps, ComesFrom
<1>5. CASE same # {}
  <2>1. same \in SUBSET Int /\ \A i \in same : 0 <= i
    BY <1>2
  <2>2. first \in same
    BY <1>5, <2>1, MinIsLeast
  <2>3. first \in DOMAIN acc /\ acc[first].id = field.id
    BY <2>2
  <2> HIDE DEF first
  <2>4. joined # Refused /\ new = [acc EXCEPT ![first] = joined]
    BY <1>1, <1>5
  <2>5. IsOf(kind, acc[first])
    BY <1>3, <2>3 DEF Elements
  <2>6. IsOf(kind, joined) /\ Includes(kind, joined, field) /\ Includes(kind, joined, acc[first])
    BY <2>3, <2>4, <2>5 DEF JoinIncludesBoth
  <2> HIDE DEF joined, same
  <2>7. DOMAIN new = 1 .. Len(acc) /\ new[first] = joined /\ \A i \in DOMAIN acc : i # first => new[i] = acc[i]
    BY <1>2, <2>3, <2>4
  <2>8. IsSequence(new)
    <3>1. new = [i \in 1 .. Len(acc) |-> new[i]]
      BY <1>2, <2>4
    <3>2. new \in Seq({new[i] : i \in 1 .. Len(acc)})
      BY <1>2, <3>1, SeqDef
    <3> QED
      BY <3>2, FunctionsAreSequences
  <2> HIDE DEF new
  <2>9. \A e \in Elements(new) : IsOf(kind, e)
    BY <1>2, <1>3, <2>6, <2>7 DEF Elements
  <2>10. joined \in Elements(new)
    BY <1>2, <2>3, <2>7 DEF Elements
  <2>11. ASSUME NEW e \in Elements(acc) PROVE \E w \in Elements(new) : Includes(kind, w, e)
    <3>1. PICK i \in DOMAIN acc : e = acc[i]
      BY DEF Elements
    <3>2. CASE i = first
      BY <2>6, <2>10, <3>1, <3>2
    <3>3. CASE i # first
      BY <1>2, <1>3, <2>7, <3>1, <3>3, InclusionIsReflexive DEF Elements
    <3> QED
      BY <3>2, <3>3
  <2>12. ComesFrom(kind, new, Elements(acc) \cup {field})
    <3> SUFFICES ASSUME kind \notin {"table", "action"}, NEW i \in DOMAIN new
                 PROVE  new[i] \in Elements(acc) \cup {field}
      BY DEF ComesFrom, Elements
    <3>1. joined = field
      BY <2>6 DEF Includes
    <3> QED
      BY <1>2, <2>7, <3>1 DEF Elements
  <2> QED
    BY <2>6, <2>8, <2>9, <2>10, <2>11, <2>12 DEF IsListOf, Keeps, new
<1> QED
  BY <1>4, <1>5

------------------------------------------------------------------------------
(* MapUnion                                                                *)

(* The unions of the first fields.                                          *)
IsUnion(kind, acc, fields, first) ==
  acc = [n \in 0 .. Len(fields) |-> IF n = 0 THEN first ELSE AddOf(kind, acc[n - 1], fields[n])]

LEMMA UnionsAreFound ==
  ASSUME NEW kind, NEW fields, Len(fields) \in Nat, NEW first
  PROVE  \E acc : IsUnion(kind, acc, fields, first)
<1> DEFINE Found(m, f) ==
             f = [n \in 0 .. m |-> IF n = 0 THEN first ELSE AddOf(kind, f[n - 1], fields[n])]
           T == {m \in Nat : ~ \E f : Found(m, f)}
<1>1. ASSUME T # {} PROVE FALSE
  <2>1. PICK m \in T : \A n \in T : m <= n
    BY <1>1, LeastNatural
  <2>2. CASE m = 0
    <3> DEFINE f == [n \in 0 .. 0 |-> first]
    <3>1. Found(0, f)
      OBVIOUS
    <3> QED
      BY <2>1, <2>2, <3>1
  <2>3. CASE m # 0
    <3>1. m \in Nat /\ m - 1 \in Nat
      BY <2>1, <2>3
    <3> HIDE DEF Found
    <3>2. PICK old : Found(m - 1, old)
      <4>1. m - 1 \notin T
        BY <2>1, <3>1
      <4> QED
        BY <3>1, <4>1
    <3> USE DEF Found
    <3> DEFINE f == [n \in 0 .. m |-> IF n = m THEN AddOf(kind, old[m - 1], fields[m]) ELSE old[n]]
    <3>3. (\A n \in 0 .. (m - 1) : f[n] = old[n]) /\ f[m] = AddOf(kind, old[m - 1], fields[m])
      BY <3>1
    <3>4. f = [n \in 0 .. m |-> f[n]]
      OBVIOUS
    <3> HIDE DEF f
    <3>5. \A n \in 0 .. m : f[n] = IF n = 0 THEN first ELSE AddOf(kind, f[n - 1], fields[n])
      <4>1. \A n \in 0 .. (m - 1) : old[n] = IF n = 0 THEN first ELSE AddOf(kind, old[n - 1], fields[n])
        BY <3>2
      <4>2. \A n \in 0 .. m : n = m \/ (n \in 0 .. (m - 1) /\ (n = 0 \/ n - 1 \in 0 .. (m - 1)))
        BY <3>1
      <4>3. m - 1 \in 0 .. (m - 1) /\ m # 0
        BY <2>3, <3>1
      <4> QED
        BY <3>3, <4>1, <4>2, <4>3
    <3>6. f = [n \in 0 .. m |-> IF n = 0 THEN first ELSE AddOf(kind, f[n - 1], fields[n])]
      BY <3>4, <3>5
    <3> QED
      BY <2>1, <3>6
  <2> QED
    BY <2>2, <2>3
<1>2. PICK f : Found(Len(fields), f)
  BY <1>1
<1> QED
  BY <1>2 DEF IsUnion

(* The union of two lists is one that has all of both, and no elements of   *)
(* its own among those that have to be equal, or fails.                     *)
LEMMA UnionsKeepAll ==
  ASSUME NEW kind, JoinIncludesBoth(kind), NEW fields, IsListOf(kind, fields),
         NEW first, IsListOf(kind, first),
         NEW acc, IsUnion(kind, acc, fields, first), acc[Len(fields)] # Refused
  PROVE  /\ IsListOf(kind, acc[Len(fields)])
         /\ Keeps(kind, acc[Len(fields)], Elements(first) \cup Elements(fields))
         /\ ComesFrom(kind, acc[Len(fields)], Elements(first) \cup Elements(fields))
<1> DEFINE steps == Len(fields)
           Added(n) == Elements(first) \cup {fields[i] : i \in 1 .. n}
           Right(n) == \/ acc[n] = Refused
                       \/ /\ IsListOf(kind, acc[n])
                          /\ Keeps(kind, acc[n], Added(n)) /\ ComesFrom(kind, acc[n], Added(n))
           B == {n \in 0 .. steps : ~ Right(n)}
<1>1. steps \in Nat /\ DOMAIN fields = 1 .. steps
  BY SequencesAreFunctions DEF IsListOf
<1>2. \A i \in 1 .. steps : IsOf(kind, fields[i])
  BY <1>1 DEF IsListOf, Elements
<1>3. acc[0] = first /\ \A n \in 1 .. steps : acc[n] = AddOf(kind, acc[n - 1], fields[n])
  BY <1>1 DEF IsUnion
<1> HIDE DEF steps
<1>4. ASSUME B # {} PROVE FALSE
  <2>1. B \in SUBSET Nat
    BY <1>1
  <2>2. PICK m \in B : \A n \in B : m <= n
    BY <1>4, <2>1, LeastNatural
  <2>3. m \in Nat /\ m \in 0 .. steps
    BY <2>1, <2>2
  <2>4. ~ Right(m)
    BY <2>2
  <2>5. m # 0
    <3>1. Added(0) = Elements(first)
      OBVIOUS
    <3>2. Keeps(kind, first, Elements(first))
      BY InclusionIsReflexive DEF IsListOf, Keeps
    <3>3. Right(0)
      BY <1>3, <3>1, <3>2 DEF ComesFrom
    <3> QED
      BY <2>4, <3>3
  <2>6. m - 1 \in 0 .. steps /\ ~ (m <= m - 1) /\ m \in 1 .. steps
    BY <1>1, <2>3, <2>5
  <2>7. Right(m - 1)
    BY <2>2, <2>6
  <2>8. acc[m] = AddOf(kind, acc[m - 1], fields[m])
    BY <1>3, <2>6
  <2>9. acc[m] # Refused /\ acc[m - 1] # Refused
    <3>1. acc[m - 1] = Refused => AddOf(kind, acc[m - 1], fields[m]) = Refused
      BY DEF AddOf
    <3> QED
      BY <2>4, <2>8, <3>1
  <2>10. /\ IsListOf(kind, acc[m - 1])
         /\ Keeps(kind, acc[m - 1], Added(m - 1)) /\ ComesFrom(kind, acc[m - 1], Added(m - 1))
    BY <2>7, <2>9
  <2>11. /\ IsListOf(kind, acc[m])
         /\ Keeps(kind, acc[m], Elements(acc[m - 1]) \cup {fields[m]})
         /\ ComesFrom(kind, acc[m], Elements(acc[m - 1]) \cup {fields[m]})
    BY <1>2, <2>6, <2>8, <2>9, <2>10, AddingKeepsAll
  <2>12. Added(m) = Added(m - 1) \cup {fields[m]}
    BY <1>1, <2>6
  <2>13. \A e \in Added(m) : IsOf(kind, e)
    <3>1. 1 .. m \subseteq 1 .. steps
      BY <1>1, <2>6
    <3> QED
      BY <1>2, <3>1 DEF IsListOf
  <2> HIDE DEF Added, Right, B
  <2>14. ASSUME NEW e \in Added(m) PROVE \E w \in Elements(acc[m]) : Includes(kind, w, e)
    <3>1. CASE e = fields[m]
      BY <2>11, <3>1 DEF Keeps
    <3>2. CASE e \in Added(m - 1)
      <4>1. PICK v \in Elements(acc[m - 1]) : Includes(kind, v, e)
        BY <2>10, <3>2 DEF Keeps
      <4>2. PICK w \in Elements(acc[m]) : Includes(kind, w, v)
        BY <2>11 DEF Keeps
      <4> QED
        BY <2>10, <2>11, <2>13, <4>1, <4>2, InclusionIsTransitive DEF IsListOf
    <3> QED
      BY <2>12, <3>1, <3>2
  <2>15. ComesFrom(kind, acc[m], Added(m))
    BY <2>10, <2>11, <2>12 DEF ComesFrom
  <2> QED
    BY <2>4, <2>11, <2>14, <2>15 DEF Right, Keeps
<1>5. Right(steps)
  <2>1. steps \in 0 .. steps
    BY <1>1
  <2> HIDE DEF Right
  <2> QED
    BY <1>4, <2>1
<1>6. Added(steps) = Elements(first) \cup Elements(fields)
  BY <1>1 DEF Elements
<1> HIDE DEF Added
<1> QED
  BY <1>5, <1>6 DEF steps

LEMMA EqualsIncludeBoth == JoinIncludesBoth("equal")
BY DEF JoinIncludesBoth, JoinOf, JoinEqual, IsOf, Includes

(* MapUnion, of elements that have to be equal: match fields, references to *)
(* actions, and counters.                                                   *)
LEMMA UnionOfEquals ==
  ASSUME NEW fields, IsSequence(fields), NEW first, IsSequence(first),
         MapUnion(fields, first, JoinEqual) # Refused
  PROVE  LET union == MapUnion(fields, first, JoinEqual)
         IN  IsSequence(union) /\ Elements(union) = Elements(fields) \cup Elements(first)
<1> DEFINE Equation(acc) ==
             acc = [n \in 0 .. Len(fields) |->
                      IF n = 0 THEN first ELSE AddField(acc[n - 1], fields[n], JoinEqual)]
           acc == CHOOSE acc : Equation(acc)
<1>1. MapUnion(fields, first, JoinEqual) = acc[Len(fields)]
  BY DEF MapUnion
<1>2. \A a, f : AddOf("equal", a, f) = AddField(a, f, JoinEqual)
  BY DEF AddOf, AddField, JoinOf
<1>3. \A f : IsUnion("equal", f, fields, first) <=> Equation(f)
  BY <1>2 DEF IsUnion
<1>4. PICK f : IsUnion("equal", f, fields, first)
  BY UnionsAreFound DEF IsSequence
<1> HIDE DEF Equation
<1>5. Equation(acc)
  BY <1>3, <1>4
<1>6. IsUnion("equal", acc, fields, first)
  BY <1>3, <1>5
<1> HIDE DEF acc
<1>7. \A list : IsSequence(list) => IsListOf("equal", list)
  BY DEF IsListOf, IsOf
<1>8. /\ IsListOf("equal", acc[Len(fields)])
      /\ Keeps("equal", acc[Len(fields)], Elements(first) \cup Elements(fields))
      /\ ComesFrom("equal", acc[Len(fields)], Elements(first) \cup Elements(fields))
  BY <1>1, <1>6, <1>7, EqualsIncludeBoth, UnionsKeepAll
<1> QED
  BY <1>1, <1>8 DEF IsListOf, Keeps, Includes, ComesFrom

LEMMA TablesIncludeBoth == JoinIncludesBoth("table")
<1> SUFFICES ASSUME NEW part, NEW whole, IsTable(part), IsTable(whole), part.id = whole.id,
                    JoinTable(part, whole) # Refused
             PROVE  /\ IsTable(JoinTable(part, whole))
                    /\ IncludesTable(JoinTable(part, whole), part)
                    /\ IncludesTable(JoinTable(part, whole), whole)
  BY DEF JoinIncludesBoth, JoinOf, IsOf, Includes
<1> DEFINE match_fields == MapUnion(part.match_fields, whole.match_fields, JoinEqual)
           action_refs == MapUnion(part.action_refs, whole.action_refs, JoinEqual)
           joined == JoinTable(part, whole)
<1>1. /\ part.implementation_id = whole.implementation_id /\ part.name = whole.name
      /\ match_fields # Refused /\ action_refs # Refused
      /\ joined = [whole EXCEPT
                     !.size = Larger(@, part.size),
                     !.annotations = @ \cup part.annotations,
                     !.match_fields = match_fields,
                     !.action_refs = action_refs,
                     !.direct_resource_ids = @ \cup part.direct_resource_ids]
  BY DEF JoinTable, PreamblesCompatible
<1> HIDE DEF match_fields, action_refs, joined
<1>2. /\ IsSequence(part.match_fields) /\ IsSequence(whole.match_fields)
      /\ IsSequence(part.action_refs) /\ IsSequence(whole.action_refs)
      /\ part.size \in Nat /\ whole.size \in Nat
  BY DEF IsTable
<1>3. IsSequence(match_fields) /\ Elements(part.match_fields) \cup Elements(whole.match_fields) \subseteq Elements(match_fields)
  BY <1>1, <1>2, UnionOfEquals DEF match_fields
<1>4. IsSequence(action_refs) /\ Elements(part.action_refs) \cup Elements(whole.action_refs) \subseteq Elements(action_refs)
  BY <1>1, <1>2, UnionOfEquals DEF action_refs
<1>5. /\ DOMAIN joined = DOMAIN whole
      /\ joined.id = whole.id /\ joined.name = whole.name
      /\ joined.implementation_id = whole.implementation_id
      /\ joined.size = Larger(whole.size, part.size)
      /\ joined.match_fields = match_fields /\ joined.action_refs = action_refs
  BY <1>1 DEF IsTable
<1>6. joined.size \in Nat /\ part.size <= joined.size /\ whole.size <= joined.size
  BY <1>2, <1>5 DEF Larger
<1>7. IsTable(joined)
  BY <1>3, <1>4, <1>5, <1>6 DEF IsTable
<1>8. IncludesTable(joined, part) /\ IncludesTable(joined, whole)
  BY <1>1, <1>3, <1>4, <1>5, <1>6 DEF IncludesTable
<1> QED
  BY <1>7, <1>8 DEF joined

LEMMA ActionsIncludeBoth == JoinIncludesBoth("action")
<1> SUFFICES ASSUME NEW part, NEW whole, IsAction(part), IsAction(whole), part.id = whole.id,
                    JoinAction(part, whole) # Refused
             PROVE  /\ IsAction(JoinAction(part, whole))
                    /\ IncludesAction(JoinAction(part, whole), part)
                    /\ IncludesAction(JoinAction(part, whole), whole)
  BY DEF JoinIncludesBoth, JoinOf, IsOf, Includes
<1> QED
  BY DEF JoinAction, PreamblesCompatible, IsAction, IncludesAction

LEMMA UnionOfTables ==
  ASSUME NEW fields, IsListOf("table", fields), NEW first, IsListOf("table", first),
         MapUnion(fields, first, JoinTable) # Refused
  PROVE  /\ IsListOf("table", MapUnion(fields, first, JoinTable))
         /\ Keeps("table", MapUnion(fields, first, JoinTable), Elements(first) \cup Elements(fields))
<1> DEFINE Equation(acc) ==
             acc = [n \in 0 .. Len(fields) |->
                      IF n = 0 THEN first ELSE AddField(acc[n - 1], fields[n], JoinTable)]
           acc == CHOOSE acc : Equation(acc)
<1>1. MapUnion(fields, first, JoinTable) = acc[Len(fields)]
  BY DEF MapUnion
<1>2. \A a, f : AddOf("table", a, f) = AddField(a, f, JoinTable)
  BY DEF AddOf, AddField, JoinOf
<1>3. \A f : IsUnion("table", f, fields, first) <=> Equation(f)
  BY <1>2 DEF IsUnion
<1>4. PICK f : IsUnion("table", f, fields, first)
  BY UnionsAreFound DEF IsListOf, IsSequence
<1> HIDE DEF Equation
<1>5. Equation(acc)
  BY <1>3, <1>4
<1>6. IsUnion("table", acc, fields, first)
  BY <1>3, <1>5
<1> HIDE DEF acc
<1> QED
  BY <1>1, <1>6, TablesIncludeBoth, UnionsKeepAll

LEMMA UnionOfActions ==
  ASSUME NEW fields, IsListOf("action", fields), NEW first, IsListOf("action", first),
         MapUnion(fields, first, JoinAction) # Refused
  PROVE  /\ IsListOf("action", MapUnion(fields, first, JoinAction))
         /\ Keeps("action", MapUnion(fields, first, JoinAction), Elements(first) \cup Elements(fields))
<1> DEFINE Equation(acc) ==
             acc = [n \in 0 .. Len(fields) |->
                      IF n = 0 THEN first ELSE AddField(acc[n - 1], fields[n], JoinAction)]
           acc == CHOOSE acc : Equation(acc)
<1>1. MapUnion(fields, first, JoinAction) = acc[Len(fields)]
  BY DEF MapUnion
<1>2. \A a, f : AddOf("action", a, f) = AddField(a, f, JoinAction)
  BY DEF AddOf, AddField, JoinOf
<1>3. \A f : IsUnion("action", f, fields, first) <=> Equation(f)
  BY <1>2 DEF IsUnion
<1>4. PICK f : IsUnion("action", f, fields, first)
  BY UnionsAreFound DEF IsListOf, IsSequence
<1> HIDE DEF Equation
<1>5. Equation(acc)
  BY <1>3, <1>4
<1>6. IsUnion("action", acc, fields, first)
  BY <1>3, <1>5
<1> HIDE DEF acc
<1> QED
  BY <1>1, <1>6, ActionsIncludeBoth, UnionsKeepAll

------------------------------------------------------------------------------
(* MergeP4Info: the union of a P4Info and others has all that they have     *)

IsP4Info(info) ==
  /\ IsListOf("table", info.tables) /\ IsListOf("action", info.actions)
  /\ IsSequence(info.direct_counters) /\ IsSequence(info.direct_meters)

HasAllOf(whole, part) ==
  /\ Keeps("table", whole.tables, Elements(part.tables))
  /\ Keeps("action", whole.actions, Elements(part.actions))
  /\ Elements(part.direct_counters) \subseteq Elements(whole.direct_counters)
  /\ Elements(part.direct_meters) \subseteq Elements(whole.direct_meters)
  /\ \A type \in DOMAIN part.new_types :
       type \in DOMAIN whole.new_types /\ whole.new_types[type] = part.new_types[type]

LEMMA ContainmentIsTransitive ==
  ASSUME NEW a, NEW b, NEW c, IsP4Info(a), IsP4Info(b), IsP4Info(c), HasAllOf(a, b), HasAllOf(b, c)
  PROVE  HasAllOf(a, c)
<1>1. ASSUME NEW kind, NEW f, NEW g, NEW h, IsListOf(kind, f), IsListOf(kind, g), IsListOf(kind, h),
             Keeps(kind, f, Elements(g)), Keeps(kind, g, Elements(h))
      PROVE  Keeps(kind, f, Elements(h))
  <2> SUFFICES ASSUME NEW e \in Elements(h) PROVE \E w \in Elements(f) : Includes(kind, w, e)
    BY DEF Keeps
  <2>1. PICK v \in Elements(g) : Includes(kind, v, e)
    BY <1>1 DEF Keeps
  <2>2. PICK w \in Elements(f) : Includes(kind, w, v)
    BY <1>1 DEF Keeps
  <2> QED
    BY <1>1, <2>1, <2>2, InclusionIsTransitive DEF IsListOf
<1>2. Keeps("table", a.tables, Elements(c.tables)) /\ Keeps("action", a.actions, Elements(c.actions))
  BY <1>1 DEF IsP4Info, HasAllOf
<1> QED
  BY <1>2 DEF HasAllOf

LEMMA MergedHasBoth ==
  ASSUME NEW info, IsP4Info(info), NEW others, IsP4Info(others), MergeP4Info(info, others) # Refused
  PROVE  LET merged == MergeP4Info(info, others)
         IN  /\ IsP4Info(merged) /\ HasAllOf(merged, info) /\ HasAllOf(merged, others)
             /\ Elements(merged.direct_counters) = Elements(info.direct_counters) \cup Elements(others.direct_counters)
<1> DEFINE merged == MergeP4Info(info, others)
<1>1. /\ merged.tables = MapUnion(info.tables, others.tables, JoinTable) /\ merged.tables # Refused
      /\ merged.actions = MapUnion(info.actions, others.actions, JoinAction) /\ merged.actions # Refused
      /\ merged.direct_counters = MapUnion(info.direct_counters, others.direct_counters, JoinEqual)
      /\ merged.direct_counters # Refused
      /\ merged.direct_meters = MapUnion(info.direct_meters, others.direct_meters, JoinEqual)
      /\ merged.direct_meters # Refused
      /\ merged.new_types = JoinTypes(info, others.new_types) /\ merged.new_types # Refused
  BY DEF MergeP4Info
<1> HIDE DEF merged
<1>2. /\ IsListOf("table", merged.tables)
      /\ Keeps("table", merged.tables, Elements(others.tables) \cup Elements(info.tables))
  BY <1>1, UnionOfTables DEF IsP4Info
<1>3. /\ IsListOf("action", merged.actions)
      /\ Keeps("action", merged.actions, Elements(others.actions) \cup Elements(info.actions))
  BY <1>1, UnionOfActions DEF IsP4Info
<1>4. /\ IsSequence(merged.direct_counters) /\ IsSequence(merged.direct_meters)
      /\ Elements(merged.direct_counters) = Elements(info.direct_counters) \cup Elements(others.direct_counters)
      /\ Elements(merged.direct_meters) = Elements(info.direct_meters) \cup Elements(others.direct_meters)
  BY <1>1, UnionOfEquals DEF IsP4Info
<1>5. \A type \in DOMAIN info.new_types \cup DOMAIN others.new_types :
        /\ type \in DOMAIN merged.new_types
        /\ type \in DOMAIN info.new_types => merged.new_types[type] = info.new_types[type]
        /\ type \in DOMAIN others.new_types => merged.new_types[type] = others.new_types[type]
  BY <1>1 DEF JoinTypes
<1> QED
  BY <1>2, <1>3, <1>4, <1>5 DEF IsP4Info, HasAllOf, Keeps, merged

LEMMA TableNamesAreFinite ==
  ASSUME NEW info, IsSequence(info.tables)
  PROVE  IsFiniteSet(TableNames(info) \cup BuiltInTables)
<1> DEFINE n == Len(info.tables)
           f == [i \in 1 .. n |-> info.tables[i].name]
<1>2. n \in Nat /\ DOMAIN info.tables = 1 .. n
  BY SequencesAreFunctions
<1>3. \A x \in TableNames(info) : \E i \in 1 .. n : f[i] = x
  BY <1>2 DEF TableNames, Elements
<1>4. \A i \in 1 .. n : f[i] \in TableNames(info)
  BY <1>2 DEF TableNames, Elements
<1> HIDE DEF n
<1>5. f \in Surjection(1 .. n, TableNames(info))
  BY <1>3, <1>4 DEF Surjection
<1>6. IsFiniteSet(1 .. n)
  BY <1>2, FS_Interval
<1>7. IsFiniteSet(TableNames(info))
  BY <1>5, <1>6, FS_Surjection
<1>8. IsFiniteSet(BuiltInTables)
  <2>1. IsFiniteSet({} \cup {"builtin::multicast_group_table"})
    BY FS_EmptySet, FS_AddElement
  <2>2. IsFiniteSet({"builtin::multicast_group_table"} \cup {"builtin::clone_session_table"})
    BY <2>1, FS_AddElement
  <2> QED
    BY <2>2 DEF BuiltInTables
<1> QED
  BY <1>7, <1>8, FS_Union

------------------------------------------------------------------------------
(* The inductive invariant: what the loaded program is made of             *)

LoadingInv ==
  /\ roles \in RoleSets /\ waiting \subseteq roles
  /\ IsP4Info(unioned)
  /\ \A r \in roles \ waiting : HasAllOf(unioned, r)
  /\ \A c \in Elements(unioned.direct_counters) : \E r \in roles : c \in Elements(r.direct_counters)
  /\ stage = "created" => waiting = {} /\ CreationOk(unioned) /\ ir = CreateIrP4Info(unioned)
  /\ stage = "supported" =>
       CreationOk(unioned) /\ ir = RemoveUnsupportedEntities(CreateIrP4Info(unioned))

LEMMA RolesAreInfos ==
  ASSUME NEW infos \in RoleSets, NEW r \in infos
  PROVE  IsP4Info(r)
BY RolesAreP4Infos, RolesAreWhole DEF IsP4Info, IsListOf, IsOf, RepeatedParts, ComparedParts

(* Spec: from the first merge to the removal of what is not supported, the  *)
(* IrP4Info is the one that CreateIrP4Info makes of the union, or what      *)
(* RemoveUnsupportedEntities leaves of it, and the union is one that        *)
(* CreateIrP4Info accepts.                                                  *)
THEOREM LoadedFromTheUnion == Spec => []LoadingInv
<1>1. Init => LoadingInv
  <2>1. << >> \in Seq({}) /\ Elements(<< >>) = {}
    BY DEF Elements
  <2>2. IsSequence(<< >>)
    BY <2>1, FunctionsAreSequences
  <2>3. IsP4Info(EmptyP4Info)
    BY <2>1, <2>2 DEF IsP4Info, IsListOf, EmptyP4Info
  <2> QED
    BY <2>1, <2>3 DEF Init, LoadingInv, EmptyP4Info
<1>2. LoadingInv /\ [Next]_vars => LoadingInv'
  <2> SUFFICES ASSUME LoadingInv, [Next]_vars PROVE LoadingInv'
    OBVIOUS
  <2>1. ASSUME NEW step, step \notin {"created", "supported"}, Refuse(step) PROVE LoadingInv'
    BY <2>1 DEF LoadingInv, Refuse
  <2>2. CASE RefuseToMerge
    BY <2>1, <2>2 DEF RefuseToMerge
  <2>3. ASSUME NEW r \in waiting, MergeRole(r) PROVE LoadingInv'
    <3>1. IsP4Info(r) /\ IsP4Info(unioned) /\ r \in roles
      BY RolesAreInfos DEF LoadingInv
    <3>2. unioned' = MergeP4Info(r, unioned) /\ MergeP4Info(r, unioned) # Refused
      BY <2>3 DEF MergeRole
    <3>3. /\ IsP4Info(unioned') /\ HasAllOf(unioned', r) /\ HasAllOf(unioned', unioned)
          /\ Elements(unioned'.direct_counters) = Elements(r.direct_counters) \cup Elements(unioned.direct_counters)
      BY <3>1, <3>2, MergedHasBoth
    <3>4. ASSUME NEW s \in roles \ waiting' PROVE HasAllOf(unioned', s)
      <4>1. CASE s = r
        BY <3>3, <4>1
      <4>2. CASE s \in roles \ waiting
        <5>1. IsP4Info(s) /\ HasAllOf(unioned, s)
          BY <4>2, RolesAreInfos DEF LoadingInv
        <5> QED
          BY <3>1, <3>3, <5>1, ContainmentIsTransitive
      <4> QED
        BY <2>3, <4>1, <4>2 DEF MergeRole
    <3>5. \A c \in Elements(unioned'.direct_counters) : \E s \in roles : c \in Elements(s.direct_counters)
      BY <3>1, <3>3 DEF LoadingInv
    <3> QED
      BY <2>3, <3>3, <3>4, <3>5 DEF LoadingInv, MergeRole
  <2>4. ASSUME NEW r \in waiting, RefuseRole(r) PROVE LoadingInv'
    BY <2>1, <2>4 DEF RefuseRole
  <2>5. CASE Create
    BY <2>5 DEF Create, LoadingInv
  <2>6. CASE RefuseToCreate
    BY <2>1, <2>6 DEF RefuseToCreate
  <2>7. CASE RemoveUnsupported
    BY <2>7 DEF RemoveUnsupported, LoadingInv
  <2>8. CASE UNCHANGED vars
    BY <2>8 DEF vars, LoadingInv
  <2> QED
    BY <2>2, <2>3, <2>4, <2>5, <2>6, <2>7, <2>8 DEF Next
<1> QED
  BY <1>1, <1>2, PTL DEF Spec

------------------------------------------------------------------------------
(* The program that is loaded                                              *)

(* The references it was created with, and the ranks.                       *)
AllReferences == ParseIrTableReferences(unioned)

CreatedNames == TableNames(unioned) \cup BuiltInTables

LEMMA LoadedProgram ==
  ASSUME LoadingInv, Loaded
  PROVE  /\ CreationOk(unioned)
         /\ Consistent(ir)
         /\ NamesOf(ir) \subseteq CreatedNames
         /\ stage = "created" => HasReferences(ir, AllReferences) /\ NamesOf(ir) = CreatedNames
         /\ stage = "supported" => HasReferences(ir, WithoutDangling(CreateIrP4Info(unioned), AllReferences))
<1> DEFINE created == CreateIrP4Info(unioned)
<1>1. CreationOk(unioned)
  BY DEF LoadingInv, Loaded
<1>2. Consistent(created) /\ HasReferences(created, AllReferences) /\ NamesOf(created) = CreatedNames
  BY <1>1, CreatedIsConsistent DEF AllReferences, CreatedNames
<1> HIDE DEF created
<1>3. CASE stage = "created"
  <2>1. ir = created
    BY <1>3 DEF LoadingInv, created
  <2> QED
    BY <1>1, <1>2, <1>3, <2>1
<1>4. CASE stage = "supported"
  <2>1. ir = RemoveUnsupportedEntities(created)
    BY <1>4 DEF LoadingInv, created
  <2>2. Consistent(ir) /\ HasReferences(ir, WithoutDangling(created, AllReferences))
    BY <1>2, <2>1, RemovalKeepsConsistency
  <2>3. NamesOf(ir) \subseteq NamesOf(created)
    BY <1>2, <2>1, NamesThatAreLeft
  <2> QED
    BY <1>1, <1>2, <1>4, <2>2, <2>3 DEF created
<1> QED
  BY <1>3, <1>4 DEF Loaded

LEMMA LoadedRanks ==
  ASSUME LoadingInv, Loaded
  PROVE  /\ DOMAIN ir.dependency_rank_by_table_name = NamesOf(ir)
         /\ \A r \in AllReferences : r.source \in NamesOf(ir) /\ r.destination \in NamesOf(ir) =>
              ir.dependency_rank_by_table_name[r.source] < ir.dependency_rank_by_table_name[r.destination]
<1> DEFINE created == CreateIrP4Info(unioned)
           ranks == Ranks(CreatedNames, AllReferences)
<1>1. CreationOk(unioned) /\ NamesOf(ir) \subseteq CreatedNames
  BY LoadedProgram
<1>2. /\ Consistent(created) /\ created.dependency_rank_by_table_name = ranks
      /\ NamesOf(created) = CreatedNames
  BY <1>1, CreatedIsConsistent DEF AllReferences, CreatedNames
<1>3. /\ DOMAIN ranks = CreatedNames
      /\ \A r \in AllReferences : r.source \in CreatedNames => ranks[r.source] < ranks[r.destination]
  <2>1. IsFiniteSet(CreatedNames)
    BY TableNamesAreFinite DEF LoadingInv, CreatedNames, IsP4Info, IsListOf
  <2>2. \A r \in AllReferences : r.source \in CreatedNames => r.destination \in CreatedNames
    BY <1>1, ReferencesAreProper DEF AllReferences, CreatedNames
  <2>3. ranks # Refused
    BY <1>1 DEF CreationOk, AllReferences, CreatedNames
  <2> QED
    BY <2>1, <2>2, <2>3, RanksRise
<1> HIDE DEF created, ranks
<1>4. CASE stage = "created"
  <2>1. ir = created
    BY <1>4 DEF LoadingInv, created
  <2> QED
    BY <1>2, <1>3, <2>1
<1>5. CASE stage = "supported"
  <2>1. ir = RemoveUnsupportedEntities(created)
    BY <1>5 DEF LoadingInv, created
  <2>2. ir.dependency_rank_by_table_name = [n \in NamesOf(ir) |-> ranks[n]]
    BY <1>2, <2>1, NamesThatAreLeft
  <2> QED
    BY <1>1, <1>3, <2>2
<1> QED
  BY <1>4, <1>5 DEF Loaded

------------------------------------------------------------------------------
(* The properties of the IrP4Info                                          *)

(* CreateIrP4Info, RemoveUnsupportedEntities: whatever was merged, the      *)
(* definitions found by id and by name are the same ones, and the actions   *)
(* inside of tables are among them.                                         *)
THEOREM CopiesAlwaysAgree == Spec => []CopiesAgree
<1>1. LoadingInv => CopiesAgree
  <2> SUFFICES ASSUME LoadingInv, Loaded PROVE CopiesAgree
    BY DEF CopiesAgree
  <2> QED
    BY LoadedProgram DEF CopiesAgree, Consistent, Copies
<1> QED
  BY <1>1, LoadedFromTheUnion, PTL

(* InsertOutgoingReferenceInfo, InsertIncomingReferenceInfo and the removal *)
(* of dangling references: no table keeps one end of a reference whose      *)
(* other end is lost.                                                       *)
THEOREM ReferencesAreAlwaysMutual == Spec => []ReferencesAreMutual
<1>1. LoadingInv => ReferencesAreMutual
  <2> SUFFICES ASSUME LoadingInv, Loaded PROVE ReferencesAreMutual
    BY DEF ReferencesAreMutual
  <2>1. \E references : HasReferences(ir, references)
    BY LoadedProgram DEF Loaded
  <2>2. AllTables = TablesOf(ir)
    BY DEF AllTables, TablesOf
  <2> QED
    BY <2>1, <2>2 DEF ReferencesAreMutual, HasReferences
<1> QED
  BY <1>1, LoadedFromTheUnion, PTL

(* CreateIrP4Info: what the modules about references assume of a program is *)
(* true of every program that is created, and of what is left of it.        *)
THEOREM ReferencesCanRelyOnThePrograms == Spec => []AssumptionsOfReferencesHold
<1>1. LoadingInv => AssumptionsOfReferencesHold
  <2> SUFFICES ASSUME LoadingInv, Loaded PROVE AssumptionsOfReferencesHold
    BY DEF AssumptionsOfReferencesHold
  <2>1. AllTables = TablesOf(ir) /\ NamesOf(ir) = {t.name : t \in AllTables}
    BY DEF AllTables, TablesOf, NamesOf
  <2>2. DOMAIN ir.dependency_rank_by_table_name = NamesOf(ir)
    BY LoadedRanks
  <2>3. Outgoing \subseteq AllReferences
    <3>1. \E references \in SUBSET AllReferences : HasReferences(ir, references)
      <4>1. WithoutDangling(CreateIrP4Info(unioned), AllReferences) \in SUBSET AllReferences
        BY DEF WithoutDangling
      <4> QED
        BY <4>1, LoadedProgram DEF Loaded
    <3> QED
      BY <2>1, <3>1 DEF Outgoing, HasReferences
  <2>4. CreationOk(unioned)
    BY LoadedProgram
  <2>5. \A s, t \in Outgoing : s.source = t.source /\ s.destination = t.destination => s = t
    BY <2>3, <2>4, ReferencesAreProper DEF AllReferences
  <2>6. \A r \in Present(NamesOf(ir)) :
          ir.dependency_rank_by_table_name[r.source] < ir.dependency_rank_by_table_name[r.destination]
    BY <2>3, LoadedRanks DEF Present
  <2>7. stage = "created" => Present(NamesOf(ir)) = Outgoing
    <3>1. \A r \in Outgoing : r.source \in CreatedNames /\ r.destination \in CreatedNames
      BY <2>3, <2>4, ReferencesAreProper DEF AllReferences, CreatedNames
    <3> QED
      BY <3>1, LoadedProgram DEF Present
  <2>8. \A r \in Outgoing : r.fields # {} /\ \A f \in r.fields : R!IsSupported(f)
    BY <2>3, <2>4, ReferencesAreProper DEF AllReferences, R!IsSupported
  <2> QED
    BY <2>1, <2>2, <2>5, <2>6, <2>7, <2>8 DEF AssumptionsOfReferencesHold
<1> QED
  BY <1>1, LoadedFromTheUnion, PTL

(* The table of a created program, found by its name.                       *)
LEMMA CreatedTable ==
  ASSUME NEW info, CreationOk(info), NEW t \in Elements(info.tables)
  PROVE  LET tables == CreateIrP4Info(info).tables_by_name
         IN  /\ DOMAIN tables = TableNames(info)
             /\ DOMAIN tables[t.name] = DOMAIN IrTable(info, t)
             /\ \A f \in DOMAIN IrTable(info, t) \ {"outgoing_references", "incoming_references"} :
                  tables[t.name][f] = IrTable(info, t)[f]
             /\ tables[t.name].outgoing_references = {r \in ParseIrTableReferences(info) : r.source = t.name}
<1> DEFINE definitions == {IrTable(info, u) : u \in Elements(info.tables)}
           references == ParseIrTableReferences(info)
           by_name == ByName(definitions)
<1>1. CreateIrP4Info(info).tables_by_name = InsertReferences(references, by_name)
  BY DEF CreateIrP4Info, IrP4InfoOf
<1>2. \A u : IrTable(info, u).name = u.name
  BY DEF IrTable
<1>3. DOMAIN by_name = TableNames(info)
  BY <1>2 DEF ByName, TableNames
<1>4. by_name[t.name] = IrTable(info, t)
  <2>1. \A u \in Elements(info.tables) : u.name = t.name => u = t
    BY UniqueDefinitions DEF CreationOk
  <2>2. IrTable(info, t) \in definitions /\ \A d \in definitions : d.name = t.name => d = IrTable(info, t)
    BY <1>2, <2>1
  <2> HIDE DEF definitions
  <2> QED
    BY <1>2, <2>2 DEF ByName
<1>5. t.name \in DOMAIN by_name
  BY <1>3 DEF TableNames
<1>6. BuiltInFields \subseteq DOMAIN IrTable(info, t)
  BY DEF IrTable, BuiltInFields
<1> HIDE DEF by_name, references
<1> DEFINE table == InsertReferences(references, by_name)[t.name]
<1>7. /\ DOMAIN InsertReferences(references, by_name) = DOMAIN by_name
      /\ DOMAIN table = DOMAIN by_name[t.name]
      /\ \A f \in DOMAIN by_name[t.name] \ {"outgoing_references", "incoming_references"} :
           table[f] = by_name[t.name][f]
      /\ table.outgoing_references = {r \in references : r.source = by_name[t.name].name}
  <2>1. BuiltInFields \subseteq DOMAIN by_name[t.name]
    BY <1>4, <1>6
  <2> QED
    BY <1>5, <2>1 DEF InsertReferences, BuiltInFields
<1>8. by_name[t.name].name = t.name
  BY <1>2, <1>4
<1> HIDE DEF table
<1> QED
  BY <1>1, <1>3, <1>4, <1>7, <1>8 DEF references, table

(* What a program declares and is not left of it was unsupported.           *)
LEMMA DeclaredIsLeftOrUnsupported ==
  ASSUME LoadingInv, stage = "supported", NEW table, NEW field, IsDeclared(unioned, table, field)
  PROVE  LeftOrUnsupported(table, field)
<1> DEFINE created == CreateIrP4Info(unioned)
<1>1. CreationOk(unioned) /\ ir = RemoveUnsupportedEntities(created)
  BY DEF LoadingInv
<1>2. Consistent(created)
  BY <1>1, CreatedIsConsistent
<1> SUFFICES ASSUME table \notin BuiltInTables PROVE LeftOrUnsupported(table, field)
  BY DEF LeftOrUnsupported
<1>3. PICK t \in Elements(unioned.tables) :
        t.name = table /\ \E f \in Elements(t.match_fields) : f.name = field
  BY DEF IsDeclared, FieldsNamed
<1>4. PICK f \in Elements(t.match_fields) : f.name = field
  BY <1>3
<1> SUFFICES ASSUME ~IsUnsupported(t), ~IsUnsupported(f) PROVE LeftOrUnsupported(table, field)
  BY <1>3, <1>4 DEF LeftOrUnsupported
<1> DEFINE made == IrTable(unioned, t)
           now == created.tables_by_name[table]
<1>5. /\ table \in DOMAIN created.tables_by_name
      /\ now.match_fields = made.match_fields /\ now.is_unsupported = made.is_unsupported
      /\ now.name = made.name
  <2>1. {"match_fields", "is_unsupported", "name"} \subseteq DOMAIN made \ {"outgoing_references", "incoming_references"}
    BY DEF IrTable
  <2>2. /\ DOMAIN created.tables_by_name = TableNames(unioned)
        /\ \A g \in DOMAIN made \ {"outgoing_references", "incoming_references"} : now[g] = made[g]
    BY <1>1, <1>3, CreatedTable
  <2> HIDE DEF made, now
  <2> QED
    BY <1>3, <2>1, <2>2 DEF TableNames
<1>6. made.name = table /\ ~made.is_unsupported
  BY <1>3 DEF IrTable
<1>7. \E g \in made.match_fields : g.name = field /\ ~g.is_unsupported
  <2>1. IrMatchField(unioned, f) \in made.match_fields
    BY DEF IrTable
  <2>2. IrMatchField(unioned, f).name = field /\ ~IrMatchField(unioned, f).is_unsupported
    BY <1>4 DEF IrMatchField
  <2> HIDE DEF made
  <2> QED
    BY <2>1, <2>2
<1> HIDE DEF made, created
<1>8. now \in SupportedTables(created)
  BY <1>2, <1>5, <1>6 DEF SupportedTables, Consistent, Copies, Values
<1>9. PICK u \in Values(ir.tables_by_id) : IsLeftOf(created, u, now)
  BY <1>1, <1>2, <1>8, TablesAreLeft
<1>10. u.name = table /\ \E g \in u.match_fields : g.name = field
  BY <1>5, <1>6, <1>7, <1>9 DEF IsLeftOf
<1>11. table \in DOMAIN ir.tables_by_name /\ ir.tables_by_name[table] = u
  <2>1. Copies(ir.tables_by_id, ir.tables_by_name)
    BY <1>1, <1>2, TablesAreLeft
  <2> QED
    BY <1>10, <2>1 DEF Copies, Values
<1> QED
  BY <1>10, <1>11 DEF LeftOrUnsupported

(* RemoveUnsupportedEntities: whatever was merged, no unsupported table,    *)
(* match field or action is left in the maps and the tables, references     *)
(* come from what is left, and what else they name is left, too, or was     *)
(* itself unsupported.                                                      *)
THEOREM NothingUnsupportedEverRemains == Spec => []NothingUnsupportedRemains
<1>1. LoadingInv => NothingUnsupportedRemains
  <2> SUFFICES ASSUME LoadingInv, stage = "supported" PROVE NothingUnsupportedRemains
    BY DEF NothingUnsupportedRemains
  <2> DEFINE created == CreateIrP4Info(unioned)
             pruned == Pruned(created)
  <2>1. Consistent(created)
    BY CreatedIsConsistent DEF LoadingInv
  <2>2. ir = RemoveUnsupportedEntities(created)
    BY DEF LoadingInv
  <2>3. Consistent(ir) /\ HasReferences(ir, WithoutDangling(created, AllReferences))
    BY LoadedProgram DEF Loaded
  <2> HIDE DEF created
  <2>4. /\ ir.actions_by_id = pruned.actions_by_id /\ ir.actions_by_name = pruned.actions_by_name
        /\ ir.tables_by_name = RemoveDanglingReferences(pruned, pruned.tables_by_name)
    BY <2>1, <2>2, PrunedParts
  <2>5. \A t \in Values(ir.tables_by_id) \cup Values(ir.tables_by_name) :
          /\ ~t.is_unsupported
          /\ \A f \in t.match_fields : ~f.is_unsupported
          /\ \A a \in t.entry_actions \cup t.default_only_actions :
               ~a.is_unsupported_by_table /\ ~a.action.is_unsupported
    <3>1. Values(ir.tables_by_id) = Values(ir.tables_by_name)
      BY <2>3 DEF Consistent, Copies
    <3>2. \A u \in Values(ir.tables_by_id) : \E t : IsLeftOf(created, u, t)
      BY <2>1, <2>2, TablesAreLeft
    <3> QED
      BY <3>1, <3>2 DEF IsLeftOf, SupportedActions
  <2>6. /\ Copies(ir.actions_by_id, ir.actions_by_name)
        /\ Values(ir.actions_by_id) = {a \in Values(created.actions_by_id) : ~a.is_unsupported}
    BY <2>1, <2>4, PrunedActions
  <2>7. \A a \in Values(ir.actions_by_id) \cup Values(ir.actions_by_name) : ~a.is_unsupported
    BY <2>6 DEF Copies
  <2>8. \A t \in AllTables : \A r \in t.outgoing_references \cup t.incoming_references :
          ~IsDanglingReference(pruned, r)
    <3>1. AllTables = TablesOf(ir)
      BY DEF AllTables, TablesOf
    <3> QED
      BY <2>3, <3>1 DEF HasReferences, WithoutDangling
  <2>9. BuiltInTables \cup {pruned.tables_by_id[i].name : i \in DOMAIN pruned.tables_by_id}
          = {s.name : s \in AllTables}
    <3>1. Copies(pruned.tables_by_id, pruned.tables_by_name)
      BY <2>1, PrunedTables
    <3>2. {pruned.tables_by_id[i].name : i \in DOMAIN pruned.tables_by_id} = DOMAIN pruned.tables_by_name
      BY <3>1, NamesOfCopies
    <3>3. DOMAIN ir.tables_by_name = DOMAIN pruned.tables_by_name
      BY <2>4 DEF RemoveDanglingReferences
    <3>4. NamesOf(ir) = {s.name : s \in AllTables}
      BY DEF NamesOf, AllTables, TablesOf
    <3>5. NamesOf(ir) = BuiltInTables \cup DOMAIN ir.tables_by_name
      BY <2>1, <2>2, NamesThatAreLeft
    <3> QED
      BY <3>2, <3>3, <3>4, <3>5
  <2>10. \A t \in AllTables : \A r \in t.outgoing_references \cup t.incoming_references :
           r.source \in {s.name : s \in AllTables}
    BY <2>8, <2>9 DEF IsDanglingReference
  <2>11. \A t \in AllTables : \A r \in t.outgoing_references \cup t.incoming_references :
           \A f \in r.fields : f.source.kind = "action" =>
             f.source.action \in DOMAIN ir.actions_by_name \cup {"builtin::replica"}
    <3> SUFFICES ASSUME NEW t \in AllTables, NEW r \in t.outgoing_references \cup t.incoming_references,
                        NEW f \in r.fields, f.source.kind = "action", f.source.action # "builtin::replica"
                 PROVE  f.source.action \in DOMAIN ir.actions_by_name
      OBVIOUS
    <3>1. PICK i \in DOMAIN ir.actions_by_id : ir.actions_by_id[i].name = f.source.action
      BY <2>4, <2>8 DEF IsDanglingReference
    <3> QED
      BY <2>6, <3>1, NamesOfCopies
  <2>12. \A t \in AllTables : \A r \in t.outgoing_references \cup t.incoming_references :
           r \in AllReferences
    <3>1. AllTables = TablesOf(ir)
      BY DEF AllTables, TablesOf
    <3> QED
      BY <2>3, <3>1 DEF HasReferences, WithoutDangling
  <2>13. \A t \in AllTables : \A r \in t.outgoing_references \cup t.incoming_references :
           \A f \in r.fields :
             /\ f.source.kind = "match" => LeftOrUnsupported(r.source, f.source.name)
             /\ LeftOrUnsupported(r.destination, f.destination.name)
    <3>1. CreationOk(unioned)
      BY DEF LoadingInv
    <3> QED
      BY <2>12, <3>1, ReferencesAreProper, DeclaredIsLeftOrUnsupported DEF AllReferences
  <2> QED
    BY <2>5, <2>7, <2>10, <2>11, <2>13 DEF NothingUnsupportedRemains
<1> QED
  BY <1>1, LoadedFromTheUnion, PTL

------------------------------------------------------------------------------
(* No role loses anything                                                  *)

(* Two P4Infos of which programs can be created, the second of which has    *)
(* all that the first one has.                                              *)
IsPartOf(part, whole) ==
  CreationOk(part) /\ CreationOk(whole) /\ HasAllOf(whole, part)

LEMMA FormatsAreKept ==
  ASSUME NEW part, NEW whole, IsPartOf(part, whole), NEW e, FormatOk(part, e)
  PROVE  Format(part, e) = Format(whole, e) /\ WithFormat(part, e) = WithFormat(whole, e)
<1>1. SdnString(part, e) <=> SdnString(whole, e)
  BY DEF IsPartOf, HasAllOf, FormatOk, SdnString
<1>2. Format(part, e) = Format(whole, e)
  BY <1>1 DEF Format
<1> QED
  BY <1>2 DEF WithFormat

LEMMA TablesAreKept ==
  ASSUME NEW part, NEW whole, IsPartOf(part, whole), NEW t \in Elements(part.tables)
  PROVE  \E u \in Elements(whole.tables) : IncludesTable(u, t)
BY DEF IsPartOf, HasAllOf, Keeps, Includes

(* What ActionsById finds.                                                  *)
LEMMA ActionOfAnId ==
  ASSUME NEW info, CreationOk(info), NEW a \in Elements(info.actions)
  PROVE  a.id \in DOMAIN ActionsById(info) /\ ActionsById(info)[a.id] = IrAction(info, a)
<1> DEFINE actions == {IrAction(info, b) : b \in Elements(info.actions)}
<1>1. \A b \in Elements(info.actions) : b.id = a.id => b = a
  BY UniqueDefinitions DEF CreationOk
<1>2. \A b : IrAction(info, b).id = b.id
  BY DEF IrAction
<1>3. IrAction(info, a) \in actions /\ \A d \in actions : d.id = a.id => d = IrAction(info, a)
  BY <1>1, <1>2
<1> HIDE DEF actions
<1> QED
  BY <1>2, <1>3 DEF ActionsById, ById, actions

LEMMA ActionsAreKept ==
  ASSUME NEW part, NEW whole, IsPartOf(part, whole), NEW id \in DOMAIN ActionsById(part)
  PROVE  /\ id \in DOMAIN ActionsById(whole)
         /\ ActionsById(whole)[id].name = ActionsById(part)[id].name
         /\ ActionsById(whole)[id].params = ActionsById(part)[id].params
<1>1. PICK a \in Elements(part.actions) : a.id = id
  BY DEF ActionsById, ById, IrAction
<1>2. PICK b \in Elements(whole.actions) : IncludesAction(b, a)
  BY DEF IsPartOf, HasAllOf, Keeps, Includes
<1>3. ActionsById(part)[id] = IrAction(part, a)
  BY <1>1, ActionOfAnId DEF IsPartOf
<1>4. id \in DOMAIN ActionsById(whole) /\ ActionsById(whole)[id] = IrAction(whole, b)
  BY <1>1, <1>2, ActionOfAnId DEF IsPartOf, IncludesAction
<1>5. \A p \in Elements(a.params) : WithFormat(part, p) = WithFormat(whole, p)
  BY FormatsAreKept DEF IsPartOf, CreationOk, ActionOk
<1>6. IrAction(part, a).params = IrAction(whole, b).params
  BY <1>2, <1>5 DEF IrAction, IncludesAction
<1>7. IrAction(part, a).name = IrAction(whole, b).name
  BY <1>2 DEF IrAction, IncludesAction
<1> QED
  BY <1>3, <1>4, <1>6, <1>7

(* The actions that a reference of a table finds.                           *)
LEMMA ActionReferencesAreKept ==
  ASSUME NEW part, NEW whole, IsPartOf(part, whole),
         NEW t \in Elements(part.tables), NEW u \in Elements(whole.tables), IncludesTable(u, t),
         NEW a \in IrTable(part, t).entry_actions
  PROVE  \E b \in IrTable(whole, u).entry_actions :
           a.action.name = b.action.name /\ a.action.params = b.action.params
<1>1. PICK r \in Elements(t.action_refs) : (r.scope = "DEFAULT_ONLY") = FALSE /\ a = IrActionReference(part, r)
  BY DEF IrTable
<1>2. r \in Elements(u.action_refs)
  BY DEF IncludesTable
<1>3. IrActionReference(whole, r) \in IrTable(whole, u).entry_actions
  BY <1>1, <1>2 DEF IrTable
<1>4. r.id \in DOMAIN ActionsById(part)
  BY DEF IsPartOf, CreationOk, TableOk
<1>5. a.action = ActionsById(part)[r.id] /\ IrActionReference(whole, r).action = ActionsById(whole)[r.id]
  BY <1>1 DEF IrActionReference
<1> QED
  BY <1>3, <1>4, <1>5, ActionsAreKept

(* The fields that a reference has as its source and destination.           *)
LEMMA MatchFieldsAreKept ==
  ASSUME NEW part, NEW whole, IsPartOf(part, whole),
         NEW t \in Elements(part.tables), NEW f \in Elements(t.match_fields)
  PROVE  MatchField(part, t.name, f.name) = MatchField(whole, t.name, f.name)
<1>1. PICK u \in Elements(whole.tables) : IncludesTable(u, t)
  BY TablesAreKept
<1>2. f \in Elements(u.match_fields) /\ u.name = t.name
  BY <1>1 DEF IncludesTable
<1>3. FieldsNamed(part, t.name, f.name) = {f} /\ FieldsNamed(whole, t.name, f.name) = {f}
  BY <1>2, OneFieldOfAName DEF IsPartOf
<1> QED
  BY <1>3 DEF MatchField

LEMMA DestinationsAreKept ==
  ASSUME NEW part, NEW whole, NEW args, DestinationOk(part, args), DestinationOk(whole, args)
  PROVE  MatchField(part, args[1], args[2]) = MatchField(whole, args[1], args[2])
<1>1. ~MatchField(part, args[1], args[2]).optional /\ ~MatchField(whole, args[1], args[2]).optional
  BY DEF DestinationOk
<1> QED
  BY <1>1 DEF MatchField

LEMMA ReferrersAreKept ==
  ASSUME NEW part, NEW whole, IsPartOf(part, whole), NEW e \in Referrers(part)
  PROVE  e \in Referrers(whole)
<1>1. CASE \E a \in Elements(part.actions) : e \in Elements(a.params)
  <2>1. PICK a \in Elements(part.actions) : e \in Elements(a.params)
    BY <1>1
  <2>2. PICK b \in Elements(whole.actions) : IncludesAction(b, a)
    BY DEF IsPartOf, HasAllOf, Keeps, Includes
  <2> QED
    BY <2>1, <2>2 DEF IncludesAction, Referrers
<1>2. CASE \E t \in Elements(part.tables) : e \in Elements(t.match_fields)
  <2>1. PICK t \in Elements(part.tables) : e \in Elements(t.match_fields)
    BY <1>2
  <2>2. PICK u \in Elements(whole.tables) : IncludesTable(u, t)
    BY TablesAreKept
  <2> QED
    BY <2>1, <2>2 DEF IncludesTable, Referrers
<1> QED
  BY <1>1, <1>2 DEF Referrers

LEMMA RefersToTheSame ==
  ASSUME NEW part, NEW whole, IsPartOf(part, whole), NEW e \in Referrers(part),
         NEW a \in Annotations("refers_to", e)
  PROVE  MatchField(part, a.args[1], a.args[2]) = MatchField(whole, a.args[1], a.args[2])
<1>1. DestinationOk(part, a.args)
  BY DEF IsPartOf, CreationOk, TableReferencesOk
<1>2. DestinationOk(whole, a.args)
  BY ReferrersAreKept DEF IsPartOf, CreationOk, TableReferencesOk
<1> QED
  BY <1>1, <1>2, DestinationsAreKept

(* Every reference of a role's table is one of the whole program's table.   *)
LEMMA MatchFieldReferencesAreKept ==
  ASSUME NEW part, NEW whole, IsPartOf(part, whole),
         NEW t \in Elements(part.tables), NEW u \in Elements(whole.tables), IncludesTable(u, t),
         NEW r \in MatchFieldReferences(part, t)
  PROVE  r \in MatchFieldReferences(whole, u)
<1>1. PICK f \in Elements(t.match_fields) :
        \/ \E a \in Annotations("refers_to", f) :
             r = Reference(t.name, a.args[1], MatchField(part, t.name, f.name),
                           MatchField(part, a.args[1], a.args[2]))
        \/ \E a \in Annotations("referenced_by", f) :
             r = Reference(a.args[1], t.name, SourceField(part, a.args), MatchField(part, t.name, f.name))
  BY DEF MatchFieldReferences
<1>2. f \in Elements(u.match_fields) /\ u.name = t.name
  BY DEF IncludesTable
<1>3. MatchField(part, t.name, f.name) = MatchField(whole, u.name, f.name)
  BY <1>2, MatchFieldsAreKept
<1>4. ASSUME NEW a \in Annotations("refers_to", f),
             r = Reference(t.name, a.args[1], MatchField(part, t.name, f.name),
                           MatchField(part, a.args[1], a.args[2]))
      PROVE  r \in MatchFieldReferences(whole, u)
  <2>1. f \in Referrers(part)
    <3>1. f \in UNION {Elements(s.match_fields) : s \in Elements(part.tables)}
      OBVIOUS
    <3> QED
      BY <3>1 DEF Referrers
  <2>2. r = Reference(u.name, a.args[1], MatchField(whole, u.name, f.name),
                      MatchField(whole, a.args[1], a.args[2]))
    BY <1>2, <1>3, <1>4, <2>1, RefersToTheSame
  <2> QED
    BY <1>2, <2>2 DEF MatchFieldReferences
<1>5. ASSUME NEW a \in Annotations("referenced_by", f),
             r = Reference(a.args[1], t.name, SourceField(part, a.args), MatchField(part, t.name, f.name))
      PROVE  r \in MatchFieldReferences(whole, u)
  <2>1. a.args[1] \in BuiltInTables
    BY DEF IsPartOf, CreationOk, TableReferencesOk, SourceOk
  <2>2. SourceField(part, a.args) = SourceField(whole, a.args)
    BY <2>1 DEF SourceField, MatchField
  <2>3. r = Reference(a.args[1], u.name, SourceField(whole, a.args), MatchField(whole, u.name, f.name))
    BY <1>2, <1>3, <1>5, <2>2
  <2> QED
    BY <1>2, <2>3 DEF MatchFieldReferences
<1> QED
  BY <1>1, <1>4, <1>5

LEMMA InheritedReferencesAreKept ==
  ASSUME NEW part, NEW whole, IsPartOf(part, whole),
         NEW t \in Elements(part.tables), NEW u \in Elements(whole.tables), IncludesTable(u, t),
         NEW r \in InheritedReferences(part, t)
  PROVE  r \in InheritedReferences(whole, u)
<1>1. PICK ref \in IrTable(part, t).entry_actions :
        r \in UNION {{Reference(t.name, a.args[1], ActionField(ref.action.name, p.name),
                                MatchField(part, a.args[1], a.args[2])) : a \in Annotations("refers_to", p)} :
                       p \in ref.action.params}
  BY DEF InheritedReferences
<1>2. PICK p \in ref.action.params :
        r \in {Reference(t.name, a.args[1], ActionField(ref.action.name, p.name),
                         MatchField(part, a.args[1], a.args[2])) : a \in Annotations("refers_to", p)}
  BY <1>1
<1>3. PICK a \in Annotations("refers_to", p) :
        r = Reference(t.name, a.args[1], ActionField(ref.action.name, p.name),
                      MatchField(part, a.args[1], a.args[2]))
  BY <1>2
<1>4. PICK other \in IrTable(whole, u).entry_actions :
        ref.action.name = other.action.name /\ ref.action.params = other.action.params
  BY ActionReferencesAreKept
<1>5. ref.action \in {IrAction(part, b) : b \in Elements(part.actions)}
  <2>1. IrTable(part, t) \in {IrTable(part, s) : s \in Elements(part.tables)}
    OBVIOUS
  <2> QED
    BY <2>1, CreatedDefinitions DEF IsPartOf
<1>6. PICK action \in Elements(part.actions) : ref.action = IrAction(part, action)
  BY <1>5
<1>7. PICK q \in Elements(action.params) : p = WithFormat(part, q)
  BY <1>6 DEF IrAction
<1>8. a \in Annotations("refers_to", q) /\ q \in Referrers(part)
  BY <1>7 DEF WithFormat, Annotations, Referrers
<1>9. MatchField(part, a.args[1], a.args[2]) = MatchField(whole, a.args[1], a.args[2])
  BY <1>8, RefersToTheSame
<1>10. r = Reference(u.name, a.args[1], ActionField(other.action.name, p.name),
                     MatchField(whole, a.args[1], a.args[2]))
  BY <1>3, <1>4, <1>9 DEF IncludesTable
<1>11. p \in other.action.params
  BY <1>4
<1> QED
  BY <1>10, <1>11 DEF InheritedReferences

LEMMA ReferencesAreKept ==
  ASSUME NEW part, NEW whole, IsPartOf(part, whole), NEW s \in ParseIrTableReferences(part)
  PROVE  \E t \in ParseIrTableReferences(whole) :
           s.source = t.source /\ s.destination = t.destination /\ s.fields \subseteq t.fields
<1> DEFINE All(info) == UNION {MatchFieldReferences(info, t) \cup InheritedReferences(info, t) :
                                 t \in Elements(info.tables)}
           Group(info, pair) ==
             [source |-> pair[1], destination |-> pair[2],
              fields |-> {r.field : r \in {q \in All(info) : q.source = pair[1] /\ q.destination = pair[2]}}]
<1>1. All(part) \subseteq All(whole)
  <2> SUFFICES ASSUME NEW r \in All(part) PROVE r \in All(whole)
    OBVIOUS
  <2>1. PICK t \in Elements(part.tables) : r \in MatchFieldReferences(part, t) \cup InheritedReferences(part, t)
    OBVIOUS
  <2>2. PICK u \in Elements(whole.tables) : IncludesTable(u, t)
    BY TablesAreKept
  <2>3. r \in MatchFieldReferences(whole, u) \cup InheritedReferences(whole, u)
    BY <2>1, <2>2, MatchFieldReferencesAreKept, InheritedReferencesAreKept
  <2> QED
    BY <2>3
<1>2. \A info : ParseIrTableReferences(info) = {Group(info, pair) : pair \in {<<r.source, r.destination>> : r \in All(info)}}
  BY DEF ParseIrTableReferences, GroupedByTables
<1> HIDE DEF All
<1>3. PICK r \in All(part) : s = Group(part, <<r.source, r.destination>>)
  BY <1>2
<1> HIDE DEF Group
<1>4. Group(whole, <<r.source, r.destination>>) \in ParseIrTableReferences(whole)
  <2>1. <<r.source, r.destination>> \in {<<q.source, q.destination>> : q \in All(whole)}
    BY <1>1
  <2> QED
    BY <1>2, <2>1
<1> QED
  BY <1>1, <1>3, <1>4 DEF Group

(* The last of the resources of a table is one of them.                     *)
LEMMA LastIsOne ==
  ASSUME NEW resources, IsSequence(resources), NEW table_id
  PROVE  /\ LastOf(resources, table_id) \subseteq {r \in Elements(resources) : r.table_id = table_id}
         /\ LastOf(resources, table_id) = {} => \A r \in Elements(resources) : r.table_id # table_id
<1> DEFINE own == {i \in DOMAIN resources : resources[i].table_id = table_id}
           n == Len(resources)
           After == {n - i : i \in own}
<1>1. n \in Nat /\ DOMAIN resources = 1 .. n
  BY SequencesAreFunctions
<1>2. LastOf(resources, table_id) = {resources[i] : i \in {j \in own : \A k \in own : k <= j}}
  BY DEF LastOf
<1>3. LastOf(resources, table_id) \subseteq {r \in Elements(resources) : r.table_id = table_id}
  BY <1>2 DEF Elements
<1>4. ASSUME own # {} PROVE LastOf(resources, table_id) # {}
  <2>1. own \subseteq 1 .. n
    BY <1>1
  <2> HIDE DEF own, n
  <2>2. After \in SUBSET Nat /\ After # {}
    <3>1. \A i \in 1 .. n : n - i \in Nat
      BY <1>1
    <3> QED
      BY <1>4, <2>1, <3>1
  <2>3. PICK m \in After : \A l \in After : m <= l
    BY <2>2, LeastNatural
  <2>4. PICK i \in own : m = n - i
    BY <2>3
  <2>5. \A k \in own : k <= i
    <3> TAKE k \in own
    <3>1. n - i <= n - k
      BY <2>3, <2>4
    <3>2. i \in 1 .. n /\ k \in 1 .. n
      BY <2>1
    <3> QED
      BY <1>1, <3>1, <3>2
  <2> QED
    BY <1>2, <2>4, <2>5
<1> QED
  BY <1>3, <1>4 DEF Elements

(* The part of RolesKeepTheirPrograms that is about one table.              *)
TableIsKept(own, whole) ==
  /\ own.id = whole.id /\ own.size <= whole.size
  /\ own.match_fields \subseteq whole.match_fields
  /\ own.requires_priority => whole.requires_priority
  /\ own.counter # {} => whole.counter # {}
  /\ whole.counter \subseteq Units(own.id)
  /\ own.meter => whole.meter
  /\ {a.action.name : a \in own.entry_actions} \subseteq {a.action.name : a \in whole.entry_actions}
  /\ \A s \in own.outgoing_references :
       \E t \in whole.outgoing_references : s.destination = t.destination /\ s.fields \subseteq t.fields

LEMMA CreatedTableIsKept ==
  ASSUME NEW part, NEW whole, IsPartOf(part, whole), IsP4Info(part), IsP4Info(whole),
         \A c \in Elements(whole.direct_counters) : \E r \in roles : c \in Elements(r.direct_counters),
         NEW t \in Elements(part.tables)
  PROVE  /\ t.name \in TableNames(whole)
         /\ TableIsKept(CreateIrP4Info(part).tables_by_name[t.name],
                        CreateIrP4Info(whole).tables_by_name[t.name])
<1> DEFINE own == CreateIrP4Info(part).tables_by_name[t.name]
           other == CreateIrP4Info(whole).tables_by_name[t.name]
<1>1. PICK u \in Elements(whole.tables) : IncludesTable(u, t)
  BY TablesAreKept
<1>2. u.name = t.name /\ t.name \in TableNames(whole)
  BY <1>1 DEF IncludesTable, TableNames
<1> DEFINE of_own == IrTable(part, t)
           of_other == IrTable(whole, u)
           Same == {"id", "size", "match_fields", "requires_priority", "counter", "meter", "entry_actions"}
<1>3. /\ \A f \in Same : own[f] = of_own[f]
      /\ own.outgoing_references = {r \in ParseIrTableReferences(part) : r.source = t.name}
  <2>1. Same \subseteq DOMAIN of_own \ {"outgoing_references", "incoming_references"}
    BY DEF IrTable
  <2> HIDE DEF of_own, Same
  <2> QED
    BY <2>1, CreatedTable DEF IsPartOf, of_own
<1>4. /\ \A f \in Same : other[f] = of_other[f]
      /\ other.outgoing_references = {r \in ParseIrTableReferences(whole) : r.source = t.name}
  <2>1. Same \subseteq DOMAIN of_other \ {"outgoing_references", "incoming_references"}
    BY DEF IrTable
  <2> HIDE DEF of_other, Same
  <2> QED
    BY <1>2, <2>1, CreatedTable DEF IsPartOf, of_other
<1>5. /\ own.id = of_own.id /\ own.size = of_own.size /\ own.match_fields = of_own.match_fields
      /\ own.requires_priority = of_own.requires_priority /\ own.counter = of_own.counter
      /\ own.meter = of_own.meter /\ own.entry_actions = of_own.entry_actions
  BY <1>3
<1>6. /\ other.id = of_other.id /\ other.size = of_other.size /\ other.match_fields = of_other.match_fields
      /\ other.requires_priority = of_other.requires_priority /\ other.counter = of_other.counter
      /\ other.meter = of_other.meter /\ other.entry_actions = of_other.entry_actions
  BY <1>4
<1> HIDE DEF own, other
<1>7. of_own.id = of_other.id /\ of_own.size <= of_other.size
  BY <1>1 DEF IrTable, IncludesTable
<1>8. of_own.match_fields \subseteq of_other.match_fields
  <2>1. \A f \in Elements(t.match_fields) : FormatOk(part, f)
    BY DEF IsPartOf, CreationOk, TableOk, MatchFieldsOk
  <2>2. \A f \in Elements(t.match_fields) : IrMatchField(part, f) = IrMatchField(whole, f)
    BY <2>1, FormatsAreKept DEF IrMatchField
  <2> QED
    BY <1>1, <2>2 DEF IrTable, IncludesTable
<1>9. of_own.requires_priority => of_other.requires_priority
  BY <1>1 DEF IrTable, IncludesTable
<1>10. /\ of_own.counter # {} => of_other.counter # {}
       /\ of_own.meter => of_other.meter
       /\ of_other.counter \subseteq Units(of_own.id)
  <2>1. /\ Elements(part.direct_counters) \subseteq Elements(whole.direct_counters)
        /\ Elements(part.direct_meters) \subseteq Elements(whole.direct_meters)
        /\ u.id = t.id
    BY <1>1 DEF IsPartOf, HasAllOf, IncludesTable
  <2>2. /\ IsSequence(part.direct_counters) /\ IsSequence(whole.direct_counters)
        /\ IsSequence(part.direct_meters) /\ IsSequence(whole.direct_meters)
    BY DEF IsP4Info
  <2>3. /\ of_own.counter = {c.unit : c \in LastOf(part.direct_counters, t.id)}
        /\ of_own.meter = (LastOf(part.direct_meters, t.id) # {})
        /\ of_other.counter = {c.unit : c \in LastOf(whole.direct_counters, t.id)}
        /\ of_other.meter = (LastOf(whole.direct_meters, t.id) # {})
    BY <2>1 DEF IrTable
  <2> HIDE DEF of_own, of_other
  <2>4. LastOf(part.direct_counters, t.id) # {} => LastOf(whole.direct_counters, t.id) # {}
    BY <2>1, <2>2, LastIsOne
  <2>5. LastOf(part.direct_meters, t.id) # {} => LastOf(whole.direct_meters, t.id) # {}
    BY <2>1, <2>2, LastIsOne
  <2>6. LastOf(whole.direct_counters, t.id) \subseteq {d \in Elements(whole.direct_counters) : d.table_id = t.id}
    BY <2>2, LastIsOne
  <2>7. of_own.counter # {} => of_other.counter # {}
    BY <2>3, <2>4
  <2>8. of_other.counter \subseteq Units(t.id)
    <3>1. \A c \in Elements(whole.direct_counters) : c \in UNION {Elements(r.direct_counters) : r \in roles}
      OBVIOUS
    <3> QED
      BY <2>3, <2>6, <3>1 DEF Units
  <2>9. of_own.meter => of_other.meter
    BY <2>3, <2>5
  <2>10. of_own.id = t.id
    BY DEF of_own, IrTable
  <2> QED
    BY <2>7, <2>8, <2>9, <2>10
<1>11. {a.action.name : a \in of_own.entry_actions} \subseteq {a.action.name : a \in of_other.entry_actions}
  BY <1>1, ActionReferencesAreKept
<1>12. ASSUME NEW s \in own.outgoing_references
       PROVE  \E r \in other.outgoing_references : s.destination = r.destination /\ s.fields \subseteq r.fields
  <2>1. s \in ParseIrTableReferences(part) /\ s.source = t.name
    BY <1>3
  <2>2. PICK r \in ParseIrTableReferences(whole) :
          s.source = r.source /\ s.destination = r.destination /\ s.fields \subseteq r.fields
    BY <2>1, ReferencesAreKept
  <2> QED
    BY <1>4, <2>1, <2>2
<1> HIDE DEF of_own, of_other
<1>13. TableIsKept(own, other)
  BY <1>5, <1>6, <1>7, <1>8, <1>9, <1>10, <1>11, <1>12 DEF TableIsKept
<1> QED
  BY <1>2, <1>13 DEF own, other

LEMMA ActionNamesAreKept ==
  ASSUME NEW part, NEW whole, IsPartOf(part, whole)
  PROVE  DOMAIN CreateIrP4Info(part).actions_by_name \subseteq DOMAIN CreateIrP4Info(whole).actions_by_name
<1>1. ASSUME NEW info PROVE DOMAIN CreateIrP4Info(info).actions_by_name = ActionNames(info)
  <2>1. CreateIrP4Info(info).actions_by_name = ByName({IrAction(info, a) : a \in Elements(info.actions)})
    BY DEF CreateIrP4Info, IrP4InfoOf
  <2>2. \A a : IrAction(info, a).name = a.name
    BY DEF IrAction
  <2> QED
    BY <2>1, <2>2 DEF ByName, ActionNames
<1>2. ActionNames(part) \subseteq ActionNames(whole)
  BY DEF IsPartOf, HasAllOf, Keeps, Includes, IncludesAction, ActionNames
<1> QED
  BY <1>1, <1>2

(* UnionP4info, CreateIrP4Info: the program of every role survives the      *)
(* union, whatever roles it is merged with and in whatever order: the       *)
(* program of the whole switch has all its tables, match fields, actions    *)
(* and references, and counts and meters all tables that it does, in a unit *)
(* of some role.                                                            *)
THEOREM RolesAlwaysKeepTheirPrograms == Spec => []RolesKeepTheirPrograms
<1>1. LoadingInv => RolesKeepTheirPrograms
  <2> SUFFICES ASSUME LoadingInv, stage = "created", NEW r \in roles, CreationOk(r)
               PROVE  LET mine == CreateIrP4Info(r)
                      IN  /\ DOMAIN mine.actions_by_name \subseteq DOMAIN ir.actions_by_name
                          /\ \A n \in DOMAIN mine.tables_by_name :
                               /\ n \in DOMAIN ir.tables_by_name
                               /\ TableIsKept(mine.tables_by_name[n], ir.tables_by_name[n])
    BY DEF RolesKeepTheirPrograms, TableIsKept
  <2> DEFINE mine == CreateIrP4Info(r)
  <2>1. ir = CreateIrP4Info(unioned) /\ CreationOk(unioned) /\ waiting = {}
    BY DEF LoadingInv
  <2>2. IsPartOf(r, unioned)
    BY <2>1 DEF LoadingInv, IsPartOf
  <2>3. DOMAIN mine.actions_by_name \subseteq DOMAIN ir.actions_by_name
    BY <2>1, <2>2, ActionNamesAreKept
  <2>4. ASSUME NEW info PROVE DOMAIN CreateIrP4Info(info).tables_by_name = TableNames(info)
    <3> DEFINE definitions == {IrTable(info, t) : t \in Elements(info.tables)}
    <3>1. CreateIrP4Info(info).tables_by_name
            = InsertReferences(ParseIrTableReferences(info), ByName(definitions))
      BY DEF CreateIrP4Info, IrP4InfoOf
    <3>2. DOMAIN CreateIrP4Info(info).tables_by_name = {d.name : d \in definitions}
      BY <3>1 DEF InsertReferences, ByName
    <3>3. \A t : IrTable(info, t).name = t.name
      BY DEF IrTable
    <3> QED
      BY <3>2, <3>3 DEF TableNames
  <2>5. ASSUME NEW n \in DOMAIN mine.tables_by_name
        PROVE  n \in DOMAIN ir.tables_by_name /\ TableIsKept(mine.tables_by_name[n], ir.tables_by_name[n])
    <3>1. PICK t \in Elements(r.tables) : t.name = n
      BY <2>4 DEF TableNames
    <3>2. /\ IsP4Info(r) /\ IsP4Info(unioned)
          /\ \A c \in Elements(unioned.direct_counters) : \E s \in roles : c \in Elements(s.direct_counters)
      BY RolesAreInfos DEF LoadingInv
    <3> QED
      BY <2>1, <2>2, <2>4, <3>1, <3>2, CreatedTableIsKept
  <2> QED
    BY <2>3, <2>5
<1> QED
  BY <1>1, LoadedFromTheUnion, PTL

------------------------------------------------------------------------------
(* What elements with the same id are joined to                             *)

(* An error is no message: a StatusOr tells them apart, and messages are    *)
(* functions.                                                               *)
ErrorIsNoMessage == Refused # [n \in DOMAIN Refused |-> Refused[n]]

LEMMA MessagesAreNoErrors ==
  ASSUME ErrorIsNoMessage, NEW m, NEW fields, HasFields(m, fields)
  PROVE  m # Refused
BY DEF ErrorIsNoMessage, HasFields

IsLargest(n, S) == n \in S /\ \A m \in S : m <= n

(* A list has exactly these elements, and no two with the same id.          *)
HasExactly(list, E) == IsSequence(list) /\ IdsDiffer(list) /\ Elements(list) = E

IsPart(kind, e) ==
  /\ e # Refused
  /\ kind = "table" =>
       IsTable(e) /\ IsWholeTable(e) /\ IdsDiffer(e.match_fields) /\ IdsDiffer(e.action_refs)
  /\ kind = "action" => IsWholeAction(e)
  /\ kind = "profile" => IsWholeProfile(e)

(* One element is what several ones with the same id are joined to.         *)
SumsTable(x, G) ==
  /\ IsWholeTable(x)
  /\ \A g \in G : /\ x.id = g.id /\ x.name = g.name /\ x.structured = g.structured
                  /\ x.fixed = g.fixed /\ x.implementation_id = g.implementation_id
                  /\ x.const_default_action_id = g.const_default_action_id
                  /\ x.other_properties = g.other_properties
  /\ IsLargest(x.size, {g.size : g \in G})
  /\ x.annotations = UNION {g.annotations : g \in G}
  /\ x.direct_resource_ids = UNION {g.direct_resource_ids : g \in G}
  /\ HasExactly(x.match_fields, UNION {Elements(g.match_fields) : g \in G})
  /\ HasExactly(x.action_refs, UNION {Elements(g.action_refs) : g \in G})

SumsAction(x, G) ==
  /\ IsWholeAction(x)
  /\ \A g \in G : x.id = g.id /\ x.name = g.name /\ x.structured = g.structured /\ x.params = g.params
  /\ x.annotations = UNION {g.annotations : g \in G}

SumsProfile(x, G) ==
  /\ IsWholeProfile(x)
  /\ \A g \in G : /\ x.id = g.id /\ x.name = g.name /\ x.structured = g.structured
                  /\ x.table_ids = g.table_ids /\ x.weights_disallowed = g.weights_disallowed
  /\ IsLargest(x.size, {g.size : g \in G})
  /\ IsLargest(x.max_group_size, {g.max_group_size : g \in G})
  /\ \/ \A g \in G : x.size_semantics = g.size_semantics
     \/ x.size_semantics = "sum_of_weights" /\ \E g, h \in G : g.size_semantics # h.size_semantics
  /\ IF x.size_semantics = "sum_of_members"
     THEN IsLargest(x.max_member_weight, {g.max_member_weight : g \in G})
     ELSE x.max_member_weight = 0
  /\ x.annotations = UNION {g.annotations : g \in G}
  /\ x.modes = UNION {g.modes : g \in G}

Sums(kind, x, G) ==
  /\ G # {} /\ x # Refused
  /\ kind = "table" => SumsTable(x, G)
  /\ kind = "action" => SumsAction(x, G)
  /\ kind = "profile" => SumsProfile(x, G)
  /\ kind \notin {"table", "action", "profile"} => \A g \in G : x = g

(* Two elements with the same id do not contradict each other.              *)
NoTwoDiffer(fields, others) == \A f \in Elements(fields), g \in Elements(others) : f.id = g.id => f = g

NoStructure(e, g) == ~e.structured /\ ~g.structured

FitsTable(e, g) ==
  /\ e.name = g.name /\ e.fixed = g.fixed /\ e.implementation_id = g.implementation_id
  /\ e.const_default_action_id = g.const_default_action_id
  /\ NoStructure(e, g) /\ ~e.other_properties /\ ~g.other_properties
  /\ NoTwoDiffer(e.match_fields, g.match_fields) /\ NoTwoDiffer(e.action_refs, g.action_refs)

FitsAction(e, g) == e.name = g.name /\ NoStructure(e, g) /\ e.params = g.params

FitsProfile(e, g) ==
  /\ e.name = g.name /\ NoStructure(e, g)
  /\ e.table_ids = g.table_ids /\ e.weights_disallowed = g.weights_disallowed

Fits(kind, e, g) ==
  /\ kind = "table" => FitsTable(e, g)
  /\ kind = "action" => FitsAction(e, g)
  /\ kind = "profile" => FitsProfile(e, g)
  /\ kind \notin {"table", "action", "profile"} => e = g

Agree(kind, e, g) == e.id = g.id => Fits(kind, e, g)

LEMMA AgreementIsMutual ==
  ASSUME NEW kind, NEW e, NEW g, Agree(kind, e, g)
  PROVE  Agree(kind, g, e)
BY DEF Agree, Fits, FitsTable, FitsAction, FitsProfile, NoStructure, NoTwoDiffer

(* An element is joined with what others have been joined to exactly if it  *)
(* contradicts none of them.                                                *)
JoinsWell(kind) ==
  \A e, x, G :
    IsPart(kind, e) /\ (\A g \in G : IsPart(kind, g) /\ g.id = e.id) /\ Sums(kind, x, G) =>
      /\ JoinOf(kind, e, x) # Refused <=> \A g \in G : Fits(kind, e, g)
      /\ JoinOf(kind, e, x) # Refused => Sums(kind, JoinOf(kind, e, x), G \cup {e})

SelfAgree(kind, fields) == \A i, j \in DOMAIN fields : j < i => Agree(kind, fields[i], fields[j])

WithId(E, id) == {e \in E : e.id = id}

(* A list is what all these elements are joined to, by their ids.           *)
Describes(kind, list, E) ==
  /\ IsSequence(list) /\ IdsDiffer(list)
  /\ {x.id : x \in Elements(list)} = {e.id : e \in E}
  /\ \A x \in Elements(list) : Sums(kind, x, WithId(E, x.id))

ArePartsOf(kind, E) == \A e \in E : IsPart(kind, e)

------------------------------------------------------------------------------
(* What P4Infos are merged to                                               *)

KindOf(p) ==
  IF p = "tables" THEN "table" ELSE IF p = "actions" THEN "action"
  ELSE IF p = "action_profiles" THEN "profile" ELSE "equal"

AllOf(T, p) == UNION {Elements(t[p]) : t \in T}

PropertiesOf(T) == UNION {t.pkg_info.platform_properties : t \in T}

CombinesPkgInfo(info, T) ==
  IF T = {} THEN info = EmptyPkgInfo
  ELSE /\ IsWholePkgInfo(info) /\ info.names # << >>
       /\ \A t \in T : info.arch = t.pkg_info.arch
       /\ info.platform_properties = {} <=> PropertiesOf(T) = {}
       /\ \A p \in info.platform_properties : \A f \in FieldsOfProperties :
            IsLargest(p[f], {q[f] : q \in PropertiesOf(T)})

CombinesTypes(types, T) ==
  /\ HasFields(types, UNION {DOMAIN t.new_types : t \in T})
  /\ \A t \in T : \A type \in DOMAIN t.new_types : types[type] = t.new_types[type]

Combines(info, T) ==
  /\ HasFields(info, DOMAIN EmptyP4Info)
  /\ \A p \in RepeatedParts : Describes(KindOf(p), info[p], AllOf(T, p))
  /\ CombinesPkgInfo(info.pkg_info, T)
  /\ CombinesTypes(info.new_types, T)

(* A P4Info does not contradict itself, and two do not contradict each      *)
(* other.                                                                   *)
Alone(r) == ~r.other_types /\ \A p \in RepeatedParts : SelfAgree(KindOf(p), r[p])

TypesAgree(r, t) ==
  \A type \in DOMAIN r.new_types \cap DOMAIN t.new_types : r.new_types[type] = t.new_types[type]

Compatible(r, t) ==
  /\ \A p \in RepeatedParts : \A e \in Elements(r[p]), g \in Elements(t[p]) : Agree(KindOf(p), e, g)
  /\ r.pkg_info.arch = t.pkg_info.arch
  /\ TypesAgree(r, t)

AreCompatible(T) == \A r \in T : Alone(r) /\ \A t \in T \ {r} : Compatible(r, t)

IsSingle(infos) == \E r \in infos : infos = {r}

UnionInv ==
  LET merged == roles \ waiting
      refused == stage = "refused union" /\ \A s \in roles : Mergeable(<<s>>)
  IN  /\ roles \in RoleSets /\ waiting \subseteq roles
      /\ \A r \in roles : roles = {r} =>
           /\ waiting = roles => unioned = EmptyP4Info
           /\ waiting # roles => unioned = MergeP4Info(r, EmptyP4Info) /\ unioned # Refused
           /\ refused => waiting = roles /\ MergeP4Info(r, EmptyP4Info) = Refused
      /\ ~IsSingle(roles) =>
           /\ Combines(unioned, merged) /\ AreCompatible(merged)
           /\ refused => \E r \in waiting : ~Alone(r) \/ \E t \in merged : ~Compatible(r, t)

IsWholeRole(r) ==
  /\ HasFields(r, DOMAIN EmptyP4Info)
  /\ \A p \in RepeatedParts : IsSequence(r[p]) /\ ArePartsOf(KindOf(p), Elements(r[p]))
  /\ IsWholePkgInfo(r.pkg_info)
  /\ HasFields(r.new_types, DOMAIN r.new_types) /\ r.other_types \in BOOLEAN

------------------------------------------------------------------------------
(* Joining elements                                                         *)

LEMMA LargerIsLargest ==
  ASSUME NEW m \in Nat, NEW n \in Nat, NEW S \in SUBSET Nat, IsLargest(m, S)
  PROVE  Larger(m, n) \in Nat /\ IsLargest(Larger(m, n), S \cup {n})
BY DEF IsLargest, Larger

LEMMA EqualsJoinWell == JoinsWell("equal")
<1> SUFFICES ASSUME NEW e, NEW x, NEW G, IsPart("equal", e), \A g \in G : IsPart("equal", g) /\ g.id = e.id,
                    Sums("equal", x, G)
             PROVE  /\ JoinEqual(e, x) # Refused <=> \A g \in G : e = g
                    /\ JoinEqual(e, x) # Refused => Sums("equal", JoinEqual(e, x), G \cup {e})
  BY DEF JoinsWell, JoinOf, Fits
<1>1. G # {} /\ x # Refused /\ \A g \in G : x = g
  BY DEF Sums
<1>2. JoinEqual(e, x) = IF e = x THEN x ELSE Refused
  BY DEF JoinEqual
<1> QED
  BY <1>1, <1>2 DEF Sums

LEMMA ActionsJoinWell == ASSUME ErrorIsNoMessage PROVE JoinsWell("action")
<1> SUFFICES ASSUME NEW e, NEW x, NEW G, IsPart("action", e),
                    \A g \in G : IsPart("action", g) /\ g.id = e.id, Sums("action", x, G)
             PROVE  /\ JoinAction(e, x) # Refused <=> \A g \in G : FitsAction(e, g)
                    /\ JoinAction(e, x) # Refused => Sums("action", JoinAction(e, x), G \cup {e})
  BY DEF JoinsWell, JoinOf, Fits
<1> DEFINE joined == [x EXCEPT !.annotations = @ \cup e.annotations]
<1>1. G # {} /\ x # Refused /\ SumsAction(x, G)
  BY DEF Sums
<1>2. IsWholeAction(e) /\ IsWholeAction(x) /\ \A g \in G : IsWholeAction(g) /\ g.id = e.id
  BY <1>1 DEF IsPart, SumsAction
<1>3. HasFields(joined, FieldsOfAction)
  BY <1>2 DEF IsWholeAction, HasFields, FieldsOfAction
<1>4. joined # Refused
  BY <1>3, MessagesAreNoErrors
<1>5. /\ joined.id = x.id /\ joined.name = x.name /\ joined.structured = x.structured
      /\ joined.params = x.params /\ joined.annotations = x.annotations \cup e.annotations
  BY <1>2 DEF IsWholeAction, HasFields, FieldsOfAction
<1> HIDE DEF joined
<1>6. (PreamblesCompatible(e, x) /\ e.params = x.params) <=> \A g \in G : FitsAction(e, g)
  <2>1. \A g \in G : x.name = g.name /\ x.structured = g.structured /\ x.params = g.params
    BY <1>1 DEF SumsAction
  <2> QED
    BY <1>1, <2>1 DEF PreamblesCompatible, FitsAction, NoStructure
<1>7. JoinAction(e, x) = IF PreamblesCompatible(e, x) /\ e.params = x.params THEN joined ELSE Refused
  BY DEF JoinAction, joined
<1>8. ASSUME PreamblesCompatible(e, x), e.params = x.params PROVE SumsAction(joined, G \cup {e})
  <2>1. e.name = x.name /\ ~e.structured /\ ~x.structured
    BY <1>8 DEF PreamblesCompatible
  <2>2. e.structured = x.structured
    BY <1>2, <2>1 DEF IsWholeAction
  <2>3. e.id = x.id
    BY <1>1, <1>2 DEF SumsAction
  <2>4. \A g \in G \cup {e} : /\ joined.id = g.id /\ joined.name = g.name
                              /\ joined.structured = g.structured /\ joined.params = g.params
    BY <1>1, <1>5, <1>8, <2>1, <2>2, <2>3 DEF SumsAction
  <2>5. joined.annotations = UNION {g.annotations : g \in G \cup {e}}
    BY <1>1, <1>5 DEF SumsAction
  <2>6. IsWholeAction(joined)
    BY <1>2, <1>3, <1>5 DEF IsWholeAction
  <2> QED
    BY <2>4, <2>5, <2>6 DEF SumsAction
<1> QED
  BY <1>4, <1>6, <1>7, <1>8 DEF Sums

LEMMA ProfilesJoinWell == ASSUME ErrorIsNoMessage PROVE JoinsWell("profile")
<1> SUFFICES ASSUME NEW e, NEW x, NEW G, IsPart("profile", e),
                    \A g \in G : IsPart("profile", g) /\ g.id = e.id, Sums("profile", x, G)
             PROVE  /\ JoinProfile(e, x) # Refused <=> \A g \in G : FitsProfile(e, g)
                    /\ JoinProfile(e, x) # Refused => Sums("profile", JoinProfile(e, x), G \cup {e})
  BY DEF JoinsWell, JoinOf, Fits
<1> DEFINE semantics == IF e.size_semantics = x.size_semantics THEN x.size_semantics ELSE "sum_of_weights"
           weight == IF semantics = "sum_of_members" THEN Larger(x.max_member_weight, e.max_member_weight) ELSE 0
           joined == [x EXCEPT
                        !.size = Larger(@, e.size),
                        !.max_group_size = Larger(@, e.max_group_size),
                        !.size_semantics = semantics,
                        !.max_member_weight =
                          IF semantics = "sum_of_members" THEN Larger(@, e.max_member_weight) ELSE 0,
                        !.annotations = @ \cup e.annotations,
                        !.modes = @ \cup e.modes]
           fits == /\ PreamblesCompatible(e, x) /\ e.table_ids = x.table_ids
                   /\ e.weights_disallowed = x.weights_disallowed
<1>1. G # {} /\ x # Refused /\ SumsProfile(x, G)
  BY DEF Sums
<1>2. IsWholeProfile(e) /\ IsWholeProfile(x) /\ \A g \in G : IsWholeProfile(g) /\ g.id = e.id
  BY <1>1 DEF IsPart, SumsProfile
<1>3. JoinProfile(e, x) = IF fits THEN joined ELSE Refused
  BY DEF JoinProfile
<1> HIDE DEF semantics
<1>4. HasFields(joined, FieldsOfProfile)
  BY <1>2 DEF IsWholeProfile, HasFields, FieldsOfProfile
<1>5. joined # Refused
  BY <1>4, MessagesAreNoErrors
<1>6. /\ joined.id = x.id /\ joined.name = x.name /\ joined.structured = x.structured
      /\ joined.table_ids = x.table_ids /\ joined.weights_disallowed = x.weights_disallowed
      /\ joined.size = Larger(x.size, e.size) /\ joined.max_group_size = Larger(x.max_group_size, e.max_group_size)
      /\ joined.size_semantics = semantics /\ joined.max_member_weight = weight
      /\ joined.annotations = x.annotations \cup e.annotations /\ joined.modes = x.modes \cup e.modes
  BY <1>2 DEF IsWholeProfile, HasFields, FieldsOfProfile
<1> HIDE DEF joined
<1>7. fits <=> \A g \in G : FitsProfile(e, g)
  <2>1. \A g \in G : /\ x.name = g.name /\ x.structured = g.structured /\ x.table_ids = g.table_ids
                     /\ x.weights_disallowed = g.weights_disallowed
    BY <1>1 DEF SumsProfile
  <2> QED
    BY <1>1, <2>1 DEF PreamblesCompatible, FitsProfile, NoStructure
<1>8. ASSUME fits PROVE SumsProfile(joined, G \cup {e})
  <2>1. /\ e.name = x.name /\ ~e.structured /\ ~x.structured /\ e.table_ids = x.table_ids
        /\ e.weights_disallowed = x.weights_disallowed
    BY <1>8 DEF PreamblesCompatible
  <2>2. e.structured = x.structured
    BY <1>2, <2>1 DEF IsWholeProfile
  <2>3. e.id = x.id
    BY <1>1, <1>2 DEF SumsProfile
  <2>4. \A g \in G \cup {e} : /\ joined.id = g.id /\ joined.name = g.name
                              /\ joined.structured = g.structured /\ joined.table_ids = g.table_ids
                              /\ joined.weights_disallowed = g.weights_disallowed
    BY <1>1, <1>6, <2>1, <2>2, <2>3 DEF SumsProfile
  <2>5. joined.annotations = UNION {g.annotations : g \in G \cup {e}}
    BY <1>1, <1>6 DEF SumsProfile
  <2>6. joined.modes = UNION {g.modes : g \in G \cup {e}}
    BY <1>1, <1>6 DEF SumsProfile
  <2>7. joined.size \in Nat /\ IsLargest(joined.size, {g.size : g \in G \cup {e}})
    <3> DEFINE S == {g.size : g \in G}
    <3>1. S \in SUBSET Nat /\ x.size \in Nat /\ e.size \in Nat
      BY <1>2 DEF IsWholeProfile
    <3>2. {g.size : g \in G \cup {e}} = S \cup {e.size}
      OBVIOUS
    <3>3. IsLargest(x.size, S)
      BY <1>1 DEF SumsProfile
    <3> HIDE DEF S
    <3> QED
      BY <1>6, <3>1, <3>2, <3>3, LargerIsLargest
  <2>8. joined.max_group_size \in Nat /\ IsLargest(joined.max_group_size, {g.max_group_size : g \in G \cup {e}})
    <3> DEFINE S == {g.max_group_size : g \in G}
    <3>1. S \in SUBSET Nat /\ x.max_group_size \in Nat /\ e.max_group_size \in Nat
      BY <1>2 DEF IsWholeProfile
    <3>2. {g.max_group_size : g \in G \cup {e}} = S \cup {e.max_group_size}
      OBVIOUS
    <3>3. IsLargest(x.max_group_size, S)
      BY <1>1 DEF SumsProfile
    <3> HIDE DEF S
    <3> QED
      BY <1>6, <3>1, <3>2, <3>3, LargerIsLargest
  <2>9. \/ \A g \in G \cup {e} : joined.size_semantics = g.size_semantics
        \/ /\ joined.size_semantics = "sum_of_weights"
           /\ \E g, h \in G \cup {e} : g.size_semantics # h.size_semantics
    <3>1. \/ \A g \in G : x.size_semantics = g.size_semantics
          \/ x.size_semantics = "sum_of_weights" /\ \E g, h \in G : g.size_semantics # h.size_semantics
      BY <1>1 DEF SumsProfile
    <3>2. CASE \A g \in G : x.size_semantics = g.size_semantics
      BY <1>1, <1>6, <3>2 DEF semantics
    <3>3. CASE x.size_semantics = "sum_of_weights" /\ \E g, h \in G : g.size_semantics # h.size_semantics
      BY <1>6, <3>3 DEF semantics
    <3> QED
      BY <3>1, <3>2, <3>3
  <2>10. /\ joined.max_member_weight \in Nat
         /\ IF joined.size_semantics = "sum_of_members"
            THEN IsLargest(joined.max_member_weight, {g.max_member_weight : g \in G \cup {e}})
            ELSE joined.max_member_weight = 0
    <3>1. CASE semantics # "sum_of_members"
      BY <1>6, <3>1
    <3>2. CASE semantics = "sum_of_members"
      <4> DEFINE S == {g.max_member_weight : g \in G}
      <4>1. x.size_semantics = "sum_of_members"
        BY <3>2 DEF semantics
      <4>2. S \in SUBSET Nat /\ x.max_member_weight \in Nat /\ e.max_member_weight \in Nat
        BY <1>2 DEF IsWholeProfile
      <4>3. {g.max_member_weight : g \in G \cup {e}} = S \cup {e.max_member_weight}
        OBVIOUS
      <4>4. IsLargest(x.max_member_weight, S)
        BY <1>1, <4>1 DEF SumsProfile
      <4>5. joined.max_member_weight = Larger(x.max_member_weight, e.max_member_weight)
        BY <1>6, <3>2
      <4> HIDE DEF S
      <4> QED
        BY <1>6, <3>2, <4>2, <4>3, <4>4, <4>5, LargerIsLargest
    <3> QED
      BY <3>1, <3>2
  <2>11. IsWholeProfile(joined)
    BY <1>2, <1>4, <1>6, <2>7, <2>8, <2>10 DEF IsWholeProfile
  <2> QED
    BY <2>4, <2>5, <2>6, <2>7, <2>8, <2>9, <2>10, <2>11 DEF SumsProfile
<1> HIDE DEF fits
<1> QED
  BY <1>3, <1>5, <1>7, <1>8 DEF Sums

LEMMA SumsHaveTheId ==
  ASSUME NEW kind, NEW x, NEW G, Sums(kind, x, G), NEW g \in G
  PROVE  x.id = g.id
BY DEF Sums, SumsTable, SumsAction, SumsProfile

LEMMA SumsOfOne ==
  ASSUME NEW kind, NEW e, IsPart(kind, e)
  PROVE  Sums(kind, e, {e})
<1>1. ASSUME kind = "table" PROVE SumsTable(e, {e})
  <2>1. IsTable(e) /\ IsWholeTable(e) /\ IdsDiffer(e.match_fields) /\ IdsDiffer(e.action_refs)
    BY <1>1 DEF IsPart
  <2>2. e.size <= e.size
    BY <2>1 DEF IsTable
  <2> QED
    BY <2>1, <2>2 DEF SumsTable, IsTable, IsLargest, HasExactly
<1>2. ASSUME kind = "action" PROVE SumsAction(e, {e})
  BY <1>2 DEF IsPart, SumsAction
<1>3. ASSUME kind = "profile" PROVE SumsProfile(e, {e})
  <2>1. IsWholeProfile(e)
    BY <1>3 DEF IsPart
  <2>2. e.size <= e.size /\ e.max_group_size <= e.max_group_size /\ e.max_member_weight <= e.max_member_weight
    BY <2>1 DEF IsWholeProfile
  <2> QED
    BY <2>1, <2>2 DEF SumsProfile, IsWholeProfile, IsLargest
<1> QED
  BY <1>1, <1>2, <1>3 DEF Sums, IsPart

------------------------------------------------------------------------------
(* Joining lists                                                            *)

LEMMA DescribedElement ==
  ASSUME NEW kind, NEW list, NEW E, Describes(kind, list, E), NEW e \in E
  PROVE  \E i \in DOMAIN list : list[i].id = e.id
<1>1. e.id \in {x.id : x \in Elements(list)}
  BY DEF Describes
<1> QED
  BY <1>1 DEF Elements

(* AddField: a field is added exactly if it contradicts none of those that  *)
(* were.                                                                    *)
LEMMA FieldsAreAdded ==
  ASSUME ErrorIsNoMessage, NEW kind, JoinsWell(kind), NEW E, ArePartsOf(kind, E),
         NEW acc, Describes(kind, acc, E), NEW field, IsPart(kind, field)
  PROVE  /\ AddOf(kind, acc, field) # Refused <=> \A e \in E : Agree(kind, field, e)
         /\ AddOf(kind, acc, field) # Refused => Describes(kind, AddOf(kind, acc, field), E \cup {field})
<1> DEFINE same == {i \in DOMAIN acc : acc[i].id = field.id}
           first == Min(same)
           joined == JoinOf(kind, field, acc[first])
           new == AddOf(kind, acc, field)
<1>1. acc \in Seq(Elements(acc)) /\ Len(acc) \in Nat /\ DOMAIN acc = 1 .. Len(acc)
  BY SequencesAreFunctions DEF Describes
<1>2. acc # Refused
  <2>1. HasFields(acc, 1 .. Len(acc))
    BY DEF Describes, IsSequence, HasFields
  <2> QED
    BY <2>1, MessagesAreNoErrors
<1>3. /\ same = {} => new = Append(acc, field)
      /\ same # {} => new = IF joined = Refused THEN Refused ELSE [acc EXCEPT ![first] = joined]
  BY <1>2 DEF AddOf
<1>4. \A e \in E : \E i \in DOMAIN acc : acc[i].id = e.id
  BY DescribedElement
<1>5. \A i \in DOMAIN acc : \E e \in E : acc[i].id = e.id
  <2> SUFFICES ASSUME NEW i \in DOMAIN acc PROVE \E e \in E : acc[i].id = e.id
    OBVIOUS
  <2>1. acc[i].id \in {x.id : x \in Elements(acc)}
    BY DEF Elements
  <2>2. acc[i].id \in {e.id : e \in E}
    BY <2>1 DEF Describes
  <2> QED
    BY <2>2
<1>6. \A i \in DOMAIN acc : Sums(kind, acc[i], WithId(E, acc[i].id))
  BY DEF Describes, Elements
<1>7. \A i, j \in DOMAIN acc : acc[i].id = acc[j].id => i = j
  BY DEF Describes, IdsDiffer
<1>8. CASE same = {}
  <2>1. \A e \in E : e.id # field.id
    BY <1>4, <1>8
  <2>2. new = Append(acc, field)
    BY <1>3, <1>8
  <2>3. new \in Seq(Elements(acc) \cup {field})
    BY <1>1, <2>2
  <2>4. IsSequence(new)
    BY <2>3, FunctionsAreSequences
  <2>5. /\ DOMAIN new = 1 .. Len(acc) + 1
        /\ new[Len(acc) + 1] = field /\ \A i \in DOMAIN acc : new[i] = acc[i]
    BY <1>1, <2>2
  <2>6. Len(acc) + 1 \in DOMAIN new /\ DOMAIN acc \subseteq DOMAIN new
        /\ \A i \in DOMAIN new : i \in DOMAIN acc \/ i = Len(acc) + 1
    BY <1>1, <2>5
  <2>7. new # Refused
    <3>1. HasFields(new, 1 .. Len(new))
      BY <2>4 DEF IsSequence, HasFields
    <3> QED
      BY <3>1, MessagesAreNoErrors
  <2>8. \A i \in DOMAIN acc : acc[i].id # field.id
    BY <1>8
  <2> HIDE DEF new, same
  <2>9. Elements(new) = Elements(acc) \cup {field}
    BY <2>5, <2>6 DEF Elements
  <2>10. IdsDiffer(new)
    BY <1>7, <2>5, <2>6, <2>8 DEF IdsDiffer
  <2>11. {x.id : x \in Elements(new)} = {e.id : e \in E \cup {field}}
    BY <2>9 DEF Describes
  <2>12. ASSUME NEW x \in Elements(new) PROVE Sums(kind, x, WithId(E \cup {field}, x.id))
    <3>1. CASE x = field
      <4>1. WithId(E \cup {field}, x.id) = {field}
        BY <2>1, <3>1 DEF WithId
      <4> QED
        BY <3>1, <4>1, SumsOfOne
    <3>2. CASE x \in Elements(acc)
      <4>1. x.id # field.id
        BY <2>8, <3>2 DEF Elements
      <4>2. WithId(E \cup {field}, x.id) = WithId(E, x.id)
        BY <4>1 DEF WithId
      <4> QED
        BY <3>2, <4>2 DEF Describes
    <3> QED
      BY <2>9, <3>1, <3>2
  <2>13. Describes(kind, new, E \cup {field})
    BY <2>4, <2>10, <2>11, <2>12 DEF Describes
  <2>14. \A e \in E : Agree(kind, field, e)
    BY <2>1 DEF Agree
  <2> QED
    BY <2>7, <2>13, <2>14 DEF new
<1>9. CASE same # {}
  <2>1. same \in SUBSET Int /\ \A i \in same : 0 <= i
    BY <1>1
  <2>2. first \in same
    BY <1>9, <2>1, MinIsLeast
  <2>3. first \in DOMAIN acc /\ acc[first].id = field.id
    BY <2>2
  <2> HIDE DEF first
  <2> DEFINE G == WithId(E, field.id)
  <2>4. Sums(kind, acc[first], G)
    BY <1>6, <2>3
  <2>5. \A g \in G : IsPart(kind, g) /\ g.id = field.id
    BY DEF WithId, ArePartsOf
  <2> HIDE DEF G
  <2>6. /\ joined # Refused <=> \A g \in G : Fits(kind, field, g)
        /\ joined # Refused => Sums(kind, joined, G \cup {field})
    BY <2>4, <2>5 DEF JoinsWell
  <2>7. (\A g \in G : Fits(kind, field, g)) <=> \A e \in E : Agree(kind, field, e)
    BY DEF G, WithId, Agree
  <2>8. new = IF joined = Refused THEN Refused ELSE [acc EXCEPT ![first] = joined]
    BY <1>3, <1>9
  <2> HIDE DEF joined, same, new
  <2> DEFINE list == [acc EXCEPT ![first] = joined]
  <2>9. DOMAIN list = 1 .. Len(acc) /\ list[first] = joined /\ \A i \in DOMAIN acc : i # first => list[i] = acc[i]
    BY <1>1, <2>3
  <2>10. IsSequence(list)
    <3>1. list = [i \in 1 .. Len(acc) |-> list[i]]
      BY <1>1
    <3> HIDE DEF list
    <3>2. list \in Seq({list[i] : i \in 1 .. Len(acc)})
      BY <1>1, <3>1, SeqDef
    <3> QED
      BY <3>2, FunctionsAreSequences
  <2> HIDE DEF list
  <2>11. list # Refused
    <3>1. HasFields(list, 1 .. Len(list))
      BY <2>10 DEF IsSequence, HasFields
    <3> QED
      BY <3>1, MessagesAreNoErrors
  <2>12. ASSUME joined # Refused PROVE Describes(kind, list, E \cup {field})
    <3>1. Sums(kind, joined, G \cup {field})
      BY <2>6, <2>12
    <3>2. joined.id = field.id
      BY <3>1, SumsHaveTheId
    <3>3. \A i \in DOMAIN acc : list[i].id = acc[i].id
      BY <2>3, <2>9, <3>2
    <3>4. IdsDiffer(list)
      BY <1>1, <1>7, <2>9, <3>3 DEF IdsDiffer
    <3>5. {x.id : x \in Elements(list)} = {x.id : x \in Elements(acc)}
      BY <1>1, <2>9, <3>3 DEF Elements
    <3>6. field.id \in {e.id : e \in E}
      BY <1>5, <2>3
    <3>7. {x.id : x \in Elements(list)} = {e.id : e \in E \cup {field}}
      BY <3>5, <3>6 DEF Describes
    <3>8. ASSUME NEW i \in DOMAIN acc PROVE Sums(kind, list[i], WithId(E \cup {field}, list[i].id))
      <4>1. CASE i = first
        <5>1. WithId(E \cup {field}, field.id) = G \cup {field}
          BY DEF WithId, G
        <5> QED
          BY <2>3, <2>9, <3>1, <3>2, <4>1, <5>1
      <4>2. CASE i # first
        <5>1. acc[i].id # field.id
          BY <1>7, <2>3, <4>2
        <5>2. WithId(E \cup {field}, acc[i].id) = WithId(E, acc[i].id)
          BY <5>1 DEF WithId
        <5> QED
          BY <1>6, <2>9, <4>2, <5>2
      <4> QED
        BY <4>1, <4>2
    <3>9. \A x \in Elements(list) : Sums(kind, x, WithId(E \cup {field}, x.id))
      BY <1>1, <2>9, <3>8 DEF Elements
    <3> QED
      BY <2>10, <3>4, <3>7, <3>9 DEF Describes
  <2> QED
    BY <2>6, <2>7, <2>8, <2>11, <2>12 DEF new, list
<1> QED
  BY <1>8, <1>9

(* MapUnion: a list is joined with what others have been joined to exactly  *)
(* if none of its elements contradicts another or one of theirs.            *)
LEMMA ListsAreJoined ==
  ASSUME ErrorIsNoMessage, NEW kind, JoinsWell(kind), NEW E, ArePartsOf(kind, E),
         NEW first, Describes(kind, first, E),
         NEW fields, IsSequence(fields), ArePartsOf(kind, Elements(fields)),
         NEW acc, IsUnion(kind, acc, fields, first)
  PROVE  LET union == acc[Len(fields)]
         IN  /\ union # Refused <=>
                  SelfAgree(kind, fields) /\ \A f \in Elements(fields), e \in E : Agree(kind, f, e)
             /\ union # Refused => Describes(kind, union, E \cup Elements(fields))
<1> DEFINE steps == Len(fields)
           Added(n) == E \cup {fields[i] : i \in 1 .. n}
           FineAt(i) == (\A e \in E : Agree(kind, fields[i], e))
                        /\ \A j \in 1 .. (i - 1) : Agree(kind, fields[i], fields[j])
           Fine(n) == \A i \in 1 .. n : FineAt(i)
           Right(n) == (acc[n] # Refused <=> Fine(n)) /\ (acc[n] # Refused => Describes(kind, acc[n], Added(n)))
           B == {n \in 0 .. steps : ~ Right(n)}
<1>1. steps \in Nat /\ DOMAIN fields = 1 .. steps
  BY SequencesAreFunctions
<1>2. \A i \in 1 .. steps : IsPart(kind, fields[i])
  BY <1>1 DEF ArePartsOf, Elements
<1>3. acc[0] = first /\ \A n \in 1 .. steps : acc[n] = AddOf(kind, acc[n - 1], fields[n])
  BY <1>1 DEF IsUnion
<1> HIDE DEF steps
<1>4. first # Refused
  <2>1. HasFields(first, 1 .. Len(first))
    BY DEF Describes, IsSequence, HasFields
  <2> QED
    BY <2>1, MessagesAreNoErrors
<1>5. ASSUME B # {} PROVE FALSE
  <2>1. B \in SUBSET Nat
    BY <1>1
  <2>2. PICK m \in B : \A n \in B : m <= n
    BY <1>5, <2>1, LeastNatural
  <2>3. m \in Nat /\ m \in 0 .. steps
    BY <2>1, <2>2
  <2>4. ~ Right(m)
    BY <2>2
  <2>5. m # 0
    <3>1. Added(0) = E /\ Fine(0)
      OBVIOUS
    <3> HIDE DEF Added, Fine
    <3>2. Right(0)
      BY <1>3, <1>4, <3>1
    <3> QED
      BY <2>4, <3>2
  <2>6. m - 1 \in 0 .. steps /\ ~ (m <= m - 1) /\ m \in 1 .. steps
    BY <1>1, <2>3, <2>5
  <2>7. Right(m - 1)
    BY <2>2, <2>6
  <2>8. acc[m] = AddOf(kind, acc[m - 1], fields[m])
    BY <1>3, <2>6
  <2>9. Added(m) = Added(m - 1) \cup {fields[m]}
    BY <1>1, <2>6
  <2>10. (\A e \in Added(m - 1) : Agree(kind, fields[m], e)) <=> FineAt(m)
    OBVIOUS
  <2>11. Fine(m) <=> Fine(m - 1) /\ FineAt(m)
    <3>1. 1 .. m = 1 .. (m - 1) \cup {m}
      BY <2>3, <2>5
    <3> HIDE DEF FineAt
    <3> QED
      BY <3>1
  <2>12. ArePartsOf(kind, Added(m - 1))
    <3>1. 1 .. (m - 1) \subseteq 1 .. steps
      BY <1>1, <2>6
    <3> QED
      BY <1>2, <3>1 DEF ArePartsOf
  <2>13. IsPart(kind, fields[m])
    BY <1>2, <2>6
  <2> HIDE DEF Added, Fine, FineAt, B
  <2>14. CASE acc[m - 1] = Refused
    <3>1. acc[m] = Refused
      BY <2>8, <2>14 DEF AddOf
    <3> QED
      BY <2>4, <2>7, <2>11, <2>14, <3>1
  <2>15. CASE acc[m - 1] # Refused
    <3>1. Describes(kind, acc[m - 1], Added(m - 1)) /\ Fine(m - 1)
      BY <2>7, <2>15
    <3>2. /\ acc[m] # Refused <=> \A e \in Added(m - 1) : Agree(kind, fields[m], e)
          /\ acc[m] # Refused => Describes(kind, acc[m], Added(m - 1) \cup {fields[m]})
      BY <2>8, <2>12, <2>13, <3>1, FieldsAreAdded
    <3> QED
      BY <2>4, <2>9, <2>10, <2>11, <3>1, <3>2
  <2> QED
    BY <2>14, <2>15
<1>6. Right(steps)
  <2>1. steps \in 0 .. steps
    BY <1>1
  <2> HIDE DEF Right
  <2> QED
    BY <1>5, <2>1
<1>7. Added(steps) = E \cup Elements(fields)
  BY <1>1 DEF Elements
<1>8. Fine(steps) <=> SelfAgree(kind, fields) /\ \A f \in Elements(fields), e \in E : Agree(kind, f, e)
  <2>1. \A i \in 1 .. steps : 1 .. (i - 1) = {j \in 1 .. steps : j < i}
    BY <1>1
  <2>2. (\A i \in 1 .. steps : \A j \in 1 .. (i - 1) : Agree(kind, fields[i], fields[j])) <=> SelfAgree(kind, fields)
    BY <1>1, <2>1 DEF SelfAgree
  <2>3. (\A i \in 1 .. steps : \A e \in E : Agree(kind, fields[i], e))
          <=> \A f \in Elements(fields), e \in E : Agree(kind, f, e)
    BY <1>1 DEF Elements
  <2> QED
    BY <2>2, <2>3
<1> HIDE DEF Added, Fine
<1> QED
  BY <1>6, <1>7, <1>8 DEF steps

------------------------------------------------------------------------------
(* MapUnion, of each kind                                                   *)

(* A list is joined with what others have been joined to.                   *)
Joins(kind, union, fields, E) ==
  /\ union # Refused <=>
       SelfAgree(kind, fields) /\ \A f \in Elements(fields), e \in E : Agree(kind, f, e)
  /\ union # Refused => Describes(kind, union, E \cup Elements(fields))

LEMMA UnionOfTablesIsJoined ==
  ASSUME ErrorIsNoMessage, JoinsWell("table"), NEW E, ArePartsOf("table", E),
         NEW first, Describes("table", first, E),
         NEW fields, IsSequence(fields), ArePartsOf("table", Elements(fields))
  PROVE  Joins("table", MapUnion(fields, first, JoinTable), fields, E)
<1> DEFINE Equation(acc) ==
             acc = [n \in 0 .. Len(fields) |->
                      IF n = 0 THEN first ELSE AddField(acc[n - 1], fields[n], JoinTable)]
           acc == CHOOSE acc : Equation(acc)
<1>1. MapUnion(fields, first, JoinTable) = acc[Len(fields)]
  BY DEF MapUnion
<1>2. \A a, f : AddOf("table", a, f) = AddField(a, f, JoinTable)
  BY DEF AddOf, AddField, JoinOf
<1>3. \A f : IsUnion("table", f, fields, first) <=> Equation(f)
  BY <1>2 DEF IsUnion
<1>4. PICK f : IsUnion("table", f, fields, first)
  BY UnionsAreFound DEF IsSequence
<1> HIDE DEF Equation
<1>5. Equation(acc)
  BY <1>3, <1>4
<1>6. IsUnion("table", acc, fields, first)
  BY <1>3, <1>5
<1> HIDE DEF acc
<1> QED
  BY <1>1, <1>6, ListsAreJoined DEF Joins

LEMMA UnionOfActionsIsJoined ==
  ASSUME ErrorIsNoMessage, JoinsWell("action"), NEW E, ArePartsOf("action", E),
         NEW first, Describes("action", first, E),
         NEW fields, IsSequence(fields), ArePartsOf("action", Elements(fields))
  PROVE  Joins("action", MapUnion(fields, first, JoinAction), fields, E)
<1> DEFINE Equation(acc) ==
             acc = [n \in 0 .. Len(fields) |->
                      IF n = 0 THEN first ELSE AddField(acc[n - 1], fields[n], JoinAction)]
           acc == CHOOSE acc : Equation(acc)
<1>1. MapUnion(fields, first, JoinAction) = acc[Len(fields)]
  BY DEF MapUnion
<1>2. \A a, f : AddOf("action", a, f) = AddField(a, f, JoinAction)
  BY DEF AddOf, AddField, JoinOf
<1>3. \A f : IsUnion("action", f, fields, first) <=> Equation(f)
  BY <1>2 DEF IsUnion
<1>4. PICK f : IsUnion("action", f, fields, first)
  BY UnionsAreFound DEF IsSequence
<1> HIDE DEF Equation
<1>5. Equation(acc)
  BY <1>3, <1>4
<1>6. IsUnion("action", acc, fields, first)
  BY <1>3, <1>5
<1> HIDE DEF acc
<1> QED
  BY <1>1, <1>6, ListsAreJoined DEF Joins

LEMMA UnionOfProfilesIsJoined ==
  ASSUME ErrorIsNoMessage, JoinsWell("profile"), NEW E, ArePartsOf("profile", E),
         NEW first, Describes("profile", first, E),
         NEW fields, IsSequence(fields), ArePartsOf("profile", Elements(fields))
  PROVE  Joins("profile", MapUnion(fields, first, JoinProfile), fields, E)
<1> DEFINE Equation(acc) ==
             acc = [n \in 0 .. Len(fields) |->
                      IF n = 0 THEN first ELSE AddField(acc[n - 1], fields[n], JoinProfile)]
           acc == CHOOSE acc : Equation(acc)
<1>1. MapUnion(fields, first, JoinProfile) = acc[Len(fields)]
  BY DEF MapUnion
<1>2. \A a, f : AddOf("profile", a, f) = AddField(a, f, JoinProfile)
  BY DEF AddOf, AddField, JoinOf
<1>3. \A f : IsUnion("profile", f, fields, first) <=> Equation(f)
  BY <1>2 DEF IsUnion
<1>4. PICK f : IsUnion("profile", f, fields, first)
  BY UnionsAreFound DEF IsSequence
<1> HIDE DEF Equation
<1>5. Equation(acc)
  BY <1>3, <1>4
<1>6. IsUnion("profile", acc, fields, first)
  BY <1>3, <1>5
<1> HIDE DEF acc
<1> QED
  BY <1>1, <1>6, ListsAreJoined DEF Joins

LEMMA UnionOfEqualsIsJoined ==
  ASSUME ErrorIsNoMessage, JoinsWell("equal"), NEW E, ArePartsOf("equal", E),
         NEW first, Describes("equal", first, E),
         NEW fields, IsSequence(fields), ArePartsOf("equal", Elements(fields))
  PROVE  Joins("equal", MapUnion(fields, first, JoinEqual), fields, E)
<1> DEFINE Equation(acc) ==
             acc = [n \in 0 .. Len(fields) |->
                      IF n = 0 THEN first ELSE AddField(acc[n - 1], fields[n], JoinEqual)]
           acc == CHOOSE acc : Equation(acc)
<1>1. MapUnion(fields, first, JoinEqual) = acc[Len(fields)]
  BY DEF MapUnion
<1>2. \A a, f : AddOf("equal", a, f) = AddField(a, f, JoinEqual)
  BY DEF AddOf, AddField, JoinOf
<1>3. \A f : IsUnion("equal", f, fields, first) <=> Equation(f)
  BY <1>2 DEF IsUnion
<1>4. PICK f : IsUnion("equal", f, fields, first)
  BY UnionsAreFound DEF IsSequence
<1> HIDE DEF Equation
<1>5. Equation(acc)
  BY <1>3, <1>4
<1>6. IsUnion("equal", acc, fields, first)
  BY <1>3, <1>5
<1> HIDE DEF acc
<1> QED
  BY <1>1, <1>6, ListsAreJoined DEF Joins

(* Lists that are only compared.                                            *)
LEMMA ComparedLists ==
  ASSUME NEW list, NEW E
  PROVE  /\ Describes("equal", list, E) => HasExactly(list, E)
         /\ HasExactly(list, E) /\ Refused \notin E => Describes("equal", list, E)
<1>1. ASSUME Describes("equal", list, E) PROVE Elements(list) = E
  <2>1. ASSUME NEW x \in Elements(list) PROVE x \in E
    <3>1. WithId(E, x.id) # {} /\ \A g \in WithId(E, x.id) : x = g
      BY <1>1 DEF Describes, Sums
    <3> QED
      BY <3>1 DEF WithId
  <2>2. ASSUME NEW e \in E PROVE e \in Elements(list)
    <3>1. PICK i \in DOMAIN list : list[i].id = e.id
      BY <1>1, DescribedElement
    <3>2. list[i] \in Elements(list) /\ e \in WithId(E, list[i].id)
      BY <3>1 DEF Elements, WithId
    <3>3. list[i] = e
      BY <1>1, <3>2 DEF Describes, Sums
    <3> QED
      BY <3>2, <3>3
  <2> QED
    BY <2>1, <2>2
<1>2. ASSUME HasExactly(list, E), Refused \notin E PROVE Describes("equal", list, E)
  <2>1. IsSequence(list) /\ IdsDiffer(list) /\ Elements(list) = E
    BY <1>2 DEF HasExactly
  <2>2. ASSUME NEW x \in Elements(list) PROVE Sums("equal", x, WithId(E, x.id))
    <3>1. \A g \in E : g.id = x.id => x = g
      BY <2>1 DEF IdsDiffer, Elements
    <3> QED
      BY <1>2, <2>1, <3>1 DEF Sums, WithId
  <2> QED
    BY <2>1, <2>2 DEF Describes
<1> QED
  BY <1>1, <1>2 DEF Describes, HasExactly

(* The match fields of a table, and its references to actions.              *)
LEMMA ComparedListsAreJoined ==
  ASSUME ErrorIsNoMessage, NEW E, NEW first, HasExactly(first, E), \A e \in E : HasFields(e, DOMAIN e),
         NEW fields, IsSequence(fields), IdsDiffer(fields), AreMessages(fields)
  PROVE  LET union == MapUnion(fields, first, JoinEqual)
         IN  /\ union # Refused <=> \A f \in Elements(fields), e \in E : f.id = e.id => f = e
             /\ union # Refused => HasExactly(union, E \cup Elements(fields))
<1> DEFINE union == MapUnion(fields, first, JoinEqual)
<1>1. Refused \notin E /\ Refused \notin Elements(fields)
  BY MessagesAreNoErrors DEF AreMessages
<1>2. ArePartsOf("equal", E) /\ ArePartsOf("equal", Elements(fields))
  BY <1>1 DEF ArePartsOf, IsPart
<1>3. Describes("equal", first, E)
  BY <1>1, ComparedLists
<1>4. Joins("equal", union, fields, E)
  BY <1>2, <1>3, EqualsJoinWell, UnionOfEqualsIsJoined
<1>5. SelfAgree("equal", fields)
  BY DEF SelfAgree, IdsDiffer, Agree, Fits
<1>6. \A f, e : Agree("equal", f, e) <=> (f.id = e.id => f = e)
  BY DEF Agree, Fits
<1> HIDE DEF union
<1>7. union # Refused => HasExactly(union, E \cup Elements(fields))
  BY <1>4, ComparedLists DEF Joins
<1> QED
  BY <1>4, <1>5, <1>6, <1>7 DEF Joins, union

LEMMA TablesJoinWell == ASSUME ErrorIsNoMessage PROVE JoinsWell("table")
<1> SUFFICES ASSUME NEW e, NEW x, NEW G, IsPart("table", e),
                    \A g \in G : IsPart("table", g) /\ g.id = e.id, Sums("table", x, G)
             PROVE  /\ JoinTable(e, x) # Refused <=> \A g \in G : FitsTable(e, g)
                    /\ JoinTable(e, x) # Refused => Sums("table", JoinTable(e, x), G \cup {e})
  BY DEF JoinsWell, JoinOf, Fits
<1> DEFINE match_fields == MapUnion(e.match_fields, x.match_fields, JoinEqual)
           action_refs == MapUnion(e.action_refs, x.action_refs, JoinEqual)
           joined == [x EXCEPT
                        !.size = Larger(@, e.size),
                        !.annotations = @ \cup e.annotations,
                        !.match_fields = match_fields,
                        !.action_refs = action_refs,
                        !.direct_resource_ids = @ \cup e.direct_resource_ids]
           alike == /\ e.implementation_id = x.implementation_id
                    /\ e.const_default_action_id = x.const_default_action_id
                    /\ e.fixed = x.fixed
                    /\ PreamblesCompatible(e, x)
                    /\ ~e.other_properties /\ ~x.other_properties
           Fields == UNION {Elements(g.match_fields) : g \in G}
           Refs == UNION {Elements(g.action_refs) : g \in G}
<1>1. G # {} /\ x # Refused /\ SumsTable(x, G)
  BY DEF Sums
<1>2. /\ IsTable(e) /\ IsWholeTable(e) /\ IdsDiffer(e.match_fields) /\ IdsDiffer(e.action_refs)
      /\ IsWholeTable(x)
      /\ \A g \in G : IsTable(g) /\ IsWholeTable(g) /\ g.id = e.id
  BY <1>1 DEF IsPart, SumsTable
<1>3. JoinTable(e, x) = IF alike /\ match_fields # Refused /\ action_refs # Refused THEN joined ELSE Refused
  BY DEF JoinTable
<1>4. /\ match_fields # Refused <=> \A f \in Elements(e.match_fields), h \in Fields : f.id = h.id => f = h
      /\ match_fields # Refused => HasExactly(match_fields, Fields \cup Elements(e.match_fields))
  <2>1. HasExactly(x.match_fields, Fields)
    BY <1>1 DEF SumsTable
  <2>2. \A f \in Fields : HasFields(f, DOMAIN f)
    BY <1>2 DEF IsWholeTable, AreMessages
  <2>3. IsSequence(e.match_fields) /\ AreMessages(e.match_fields)
    BY <1>2 DEF IsTable, IsWholeTable
  <2> HIDE DEF Fields
  <2> QED
    BY <1>2, <2>1, <2>2, <2>3, ComparedListsAreJoined
<1>5. /\ action_refs # Refused <=> \A f \in Elements(e.action_refs), h \in Refs : f.id = h.id => f = h
      /\ action_refs # Refused => HasExactly(action_refs, Refs \cup Elements(e.action_refs))
  <2>1. HasExactly(x.action_refs, Refs)
    BY <1>1 DEF SumsTable
  <2>2. \A f \in Refs : HasFields(f, DOMAIN f)
    BY <1>2 DEF IsWholeTable, AreMessages
  <2>3. IsSequence(e.action_refs) /\ AreMessages(e.action_refs)
    BY <1>2 DEF IsTable, IsWholeTable
  <2> HIDE DEF Refs
  <2> QED
    BY <1>2, <2>1, <2>2, <2>3, ComparedListsAreJoined
<1> HIDE DEF match_fields, action_refs
<1>6. HasFields(joined, FieldsOfTable)
  BY <1>2 DEF IsWholeTable, HasFields, FieldsOfTable
<1>7. joined # Refused
  BY <1>6, MessagesAreNoErrors
<1>8. /\ joined.id = x.id /\ joined.name = x.name /\ joined.structured = x.structured
      /\ joined.fixed = x.fixed /\ joined.implementation_id = x.implementation_id
      /\ joined.const_default_action_id = x.const_default_action_id
      /\ joined.other_properties = x.other_properties
      /\ joined.size = Larger(x.size, e.size)
      /\ joined.annotations = x.annotations \cup e.annotations
      /\ joined.direct_resource_ids = x.direct_resource_ids \cup e.direct_resource_ids
      /\ joined.match_fields = match_fields /\ joined.action_refs = action_refs
  BY <1>2 DEF IsWholeTable, HasFields, FieldsOfTable
<1> HIDE DEF joined
<1>9. \A g \in G : /\ x.id = g.id /\ x.name = g.name /\ x.structured = g.structured
                   /\ x.fixed = g.fixed /\ x.implementation_id = g.implementation_id
                   /\ x.const_default_action_id = g.const_default_action_id
                   /\ x.other_properties = g.other_properties
  BY <1>1 DEF SumsTable
<1>10. (alike /\ match_fields # Refused /\ action_refs # Refused) <=> \A g \in G : FitsTable(e, g)
  <2>1. match_fields # Refused <=> \A g \in G : NoTwoDiffer(e.match_fields, g.match_fields)
    BY <1>4 DEF NoTwoDiffer, Fields
  <2>2. action_refs # Refused <=> \A g \in G : NoTwoDiffer(e.action_refs, g.action_refs)
    BY <1>5 DEF NoTwoDiffer, Refs
  <2>3. alike <=> \A g \in G :
                    /\ e.name = g.name /\ e.fixed = g.fixed /\ e.implementation_id = g.implementation_id
                    /\ e.const_default_action_id = g.const_default_action_id
                    /\ NoStructure(e, g) /\ ~e.other_properties /\ ~g.other_properties
    BY <1>1, <1>9 DEF PreamblesCompatible, NoStructure
  <2> HIDE DEF alike
  <2> QED
    BY <1>1, <2>1, <2>2, <2>3 DEF FitsTable
<1>11. ASSUME alike, match_fields # Refused, action_refs # Refused PROVE SumsTable(joined, G \cup {e})
  <2>1. /\ e.name = x.name /\ ~e.structured /\ ~x.structured /\ e.fixed = x.fixed
        /\ e.implementation_id = x.implementation_id
        /\ e.const_default_action_id = x.const_default_action_id
        /\ ~e.other_properties /\ ~x.other_properties
    BY <1>11 DEF PreamblesCompatible
  <2>2. e.structured = x.structured /\ e.other_properties = x.other_properties
    BY <1>2, <2>1 DEF IsWholeTable
  <2>3. e.id = x.id
    BY <1>1, <1>2, <1>9
  <2>4. \A g \in G \cup {e} : /\ joined.id = g.id /\ joined.name = g.name
                              /\ joined.structured = g.structured /\ joined.fixed = g.fixed
                              /\ joined.implementation_id = g.implementation_id
                              /\ joined.const_default_action_id = g.const_default_action_id
                              /\ joined.other_properties = g.other_properties
    BY <1>8, <1>9, <2>1, <2>2, <2>3
  <2>5. joined.annotations = UNION {g.annotations : g \in G \cup {e}}
    BY <1>1, <1>8 DEF SumsTable
  <2>6. joined.direct_resource_ids = UNION {g.direct_resource_ids : g \in G \cup {e}}
    BY <1>1, <1>8 DEF SumsTable
  <2>7. IsLargest(joined.size, {g.size : g \in G \cup {e}})
    <3> DEFINE S == {g.size : g \in G}
    <3>1. S \in SUBSET Nat /\ e.size \in Nat
      BY <1>2 DEF IsTable
    <3>2. {g.size : g \in G \cup {e}} = S \cup {e.size}
      OBVIOUS
    <3>3. IsLargest(x.size, S)
      BY <1>1 DEF SumsTable
    <3> HIDE DEF S
    <3>4. x.size \in Nat
      BY <3>1, <3>3 DEF IsLargest
    <3> QED
      BY <1>8, <3>1, <3>2, <3>3, <3>4, LargerIsLargest
  <2>8. Fields \cup Elements(e.match_fields) = UNION {Elements(g.match_fields) : g \in G \cup {e}}
    OBVIOUS
  <2>9. Refs \cup Elements(e.action_refs) = UNION {Elements(g.action_refs) : g \in G \cup {e}}
    OBVIOUS
  <2>10. /\ HasExactly(joined.match_fields, UNION {Elements(g.match_fields) : g \in G \cup {e}})
         /\ HasExactly(joined.action_refs, UNION {Elements(g.action_refs) : g \in G \cup {e}})
    BY <1>4, <1>5, <1>8, <1>11, <2>8, <2>9
  <2>11. AreMessages(joined.match_fields) /\ AreMessages(joined.action_refs)
    BY <1>2, <2>10 DEF HasExactly, AreMessages, IsWholeTable
  <2>12. IsWholeTable(joined)
    BY <1>2, <1>6, <1>8, <2>11 DEF IsWholeTable
  <2> QED
    BY <2>4, <2>5, <2>6, <2>7, <2>10, <2>12 DEF SumsTable
<1> HIDE DEF alike
<1> QED
  BY <1>3, <1>7, <1>10, <1>11 DEF Sums

------------------------------------------------------------------------------
(* What is joined is determined by what it is joined from                   *)

TableMeaning(t) == [t EXCEPT !.match_fields = Elements(@), !.action_refs = Elements(@)]

MeansTheSame(kind, x, y) == IF kind = "table" THEN TableMeaning(x) = TableMeaning(y) ELSE x = y

LEMMA LargestIsUnique ==
  ASSUME NEW m, NEW n, NEW S \in SUBSET Nat, IsLargest(m, S), IsLargest(n, S)
  PROVE  m = n
BY DEF IsLargest

LEMMA TablesAreDetermined ==
  ASSUME NEW G, \A g \in G : IsTable(g), G # {}, NEW x, SumsTable(x, G), NEW y, SumsTable(y, G)
  PROVE  TableMeaning(x) = TableMeaning(y)
<1>1. IsWholeTable(x) /\ IsWholeTable(y)
  BY DEF SumsTable
<1>2. x.size = y.size
  <2> DEFINE S == {g.size : g \in G}
  <2>1. S \in SUBSET Nat
    BY DEF IsTable
  <2>2. IsLargest(x.size, S) /\ IsLargest(y.size, S)
    BY DEF SumsTable
  <2> HIDE DEF S
  <2> QED
    BY <2>1, <2>2, LargestIsUnique
<1>3. /\ x.id = y.id /\ x.name = y.name /\ x.structured = y.structured
      /\ x.fixed = y.fixed /\ x.implementation_id = y.implementation_id
      /\ x.const_default_action_id = y.const_default_action_id
      /\ x.other_properties = y.other_properties
  BY DEF SumsTable
<1>4. x.annotations = y.annotations /\ x.direct_resource_ids = y.direct_resource_ids
  BY DEF SumsTable
<1>5. Elements(x.match_fields) = Elements(y.match_fields) /\ Elements(x.action_refs) = Elements(y.action_refs)
  BY DEF SumsTable, HasExactly
<1> DEFINE fields == Elements(y.match_fields)
           refs == Elements(y.action_refs)
<1>6. TableMeaning(x) = [x EXCEPT !.match_fields = fields, !.action_refs = refs]
  BY <1>5 DEF TableMeaning
<1>7. TableMeaning(y) = [y EXCEPT !.match_fields = fields, !.action_refs = refs]
  BY DEF TableMeaning
<1> HIDE DEF fields, refs
<1>8. HasFields(x, FieldsOfTable) /\ HasFields(y, FieldsOfTable)
  BY <1>1 DEF IsWholeTable
<1>9. \A f \in FieldsOfTable : f \notin {"match_fields", "action_refs"} => x[f] = y[f]
  BY <1>2, <1>3, <1>4 DEF FieldsOfTable
<1>10. TableMeaning(x) = [f \in FieldsOfTable |->
          IF f = "match_fields" THEN fields ELSE IF f = "action_refs" THEN refs ELSE x[f]]
  BY <1>6, <1>8 DEF HasFields
<1>11. TableMeaning(y) = [f \in FieldsOfTable |->
          IF f = "match_fields" THEN fields ELSE IF f = "action_refs" THEN refs ELSE y[f]]
  BY <1>7, <1>8 DEF HasFields
<1> QED
  BY <1>9, <1>10, <1>11

LEMMA ActionsAreDetermined ==
  ASSUME NEW G, G # {}, NEW x, SumsAction(x, G), NEW y, SumsAction(y, G)
  PROVE  x = y
<1>1. HasFields(x, FieldsOfAction) /\ HasFields(y, FieldsOfAction)
  BY DEF SumsAction, IsWholeAction
<1>2. /\ x.id = y.id /\ x.name = y.name /\ x.structured = y.structured /\ x.params = y.params
      /\ x.annotations = y.annotations
  BY DEF SumsAction
<1>3. \A f \in FieldsOfAction : x[f] = y[f]
  BY <1>2 DEF FieldsOfAction
<1> QED
  BY <1>1, <1>3 DEF HasFields

LEMMA ProfilesAreDetermined ==
  ASSUME NEW G, \A g \in G : IsWholeProfile(g), G # {}, NEW x, SumsProfile(x, G), NEW y, SumsProfile(y, G)
  PROVE  x = y
<1>1. HasFields(x, FieldsOfProfile) /\ HasFields(y, FieldsOfProfile)
  BY DEF SumsProfile, IsWholeProfile
<1>2. /\ x.id = y.id /\ x.name = y.name /\ x.structured = y.structured
      /\ x.table_ids = y.table_ids /\ x.weights_disallowed = y.weights_disallowed
  BY DEF SumsProfile
<1>3. x.annotations = y.annotations /\ x.modes = y.modes
  BY DEF SumsProfile
<1>4. x.size = y.size
  <2> DEFINE S == {g.size : g \in G}
  <2>1. S \in SUBSET Nat
    BY DEF IsWholeProfile
  <2>2. IsLargest(x.size, S) /\ IsLargest(y.size, S)
    BY DEF SumsProfile
  <2> HIDE DEF S
  <2> QED
    BY <2>1, <2>2, LargestIsUnique
<1>5. x.max_group_size = y.max_group_size
  <2> DEFINE S == {g.max_group_size : g \in G}
  <2>1. S \in SUBSET Nat
    BY DEF IsWholeProfile
  <2>2. IsLargest(x.max_group_size, S) /\ IsLargest(y.max_group_size, S)
    BY DEF SumsProfile
  <2> HIDE DEF S
  <2> QED
    BY <2>1, <2>2, LargestIsUnique
<1>6. x.size_semantics = y.size_semantics
  <2>1. CASE \A g, h \in G : g.size_semantics = h.size_semantics
    BY <2>1 DEF SumsProfile
  <2>2. CASE \E g, h \in G : g.size_semantics # h.size_semantics
    BY <2>2 DEF SumsProfile
  <2> QED
    BY <2>1, <2>2
<1>7. x.max_member_weight = y.max_member_weight
  <2> DEFINE S == {g.max_member_weight : g \in G}
  <2>1. S \in SUBSET Nat
    BY DEF IsWholeProfile
  <2>2. CASE x.size_semantics = "sum_of_members"
    <3>1. IsLargest(x.max_member_weight, S) /\ IsLargest(y.max_member_weight, S)
      BY <1>6, <2>2 DEF SumsProfile
    <3> HIDE DEF S
    <3> QED
      BY <2>1, <3>1, LargestIsUnique
  <2>3. CASE x.size_semantics # "sum_of_members"
    BY <1>6, <2>3 DEF SumsProfile
  <2> QED
    BY <2>2, <2>3
<1>8. \A f \in FieldsOfProfile : x[f] = y[f]
  BY <1>2, <1>3, <1>4, <1>5, <1>6, <1>7 DEF FieldsOfProfile
<1> QED
  BY <1>1, <1>8 DEF HasFields

LEMMA SumsAreDetermined ==
  ASSUME NEW kind, NEW G, ArePartsOf(kind, G), NEW x, Sums(kind, x, G), NEW y, Sums(kind, y, G)
  PROVE  MeansTheSame(kind, x, y)
<1>1. CASE kind = "table"
  <2>1. \A g \in G : IsTable(g)
    BY <1>1 DEF ArePartsOf, IsPart
  <2> QED
    BY <1>1, <2>1, TablesAreDetermined DEF Sums, MeansTheSame
<1>2. CASE kind = "action"
  BY <1>2, ActionsAreDetermined DEF Sums, MeansTheSame
<1>3. CASE kind = "profile"
  <2>1. \A g \in G : IsWholeProfile(g)
    BY <1>3 DEF ArePartsOf, IsPart
  <2> QED
    BY <1>3, <2>1, ProfilesAreDetermined DEF Sums, MeansTheSame
<1>4. CASE kind \notin {"table", "action", "profile"}
  BY <1>4 DEF Sums, MeansTheSame
<1> QED
  BY <1>1, <1>2, <1>3, <1>4

(* Two lists that the same elements are joined to have elements that mean   *)
(* the same.                                                                *)
LEMMA ListsAreDetermined ==
  ASSUME NEW kind, NEW E, ArePartsOf(kind, E), NEW list, Describes(kind, list, E),
         NEW other, Describes(kind, other, E), NEW x \in Elements(list)
  PROVE  \E y \in Elements(other) : MeansTheSame(kind, x, y)
<1>1. x.id \in {e.id : e \in E}
  BY DEF Describes
<1>2. PICK y \in Elements(other) : y.id = x.id
  <2>1. x.id \in {y.id : y \in Elements(other)}
    BY <1>1 DEF Describes
  <2> QED
    BY <2>1
<1>3. Sums(kind, x, WithId(E, x.id)) /\ Sums(kind, y, WithId(E, x.id))
  BY <1>2 DEF Describes
<1>4. ArePartsOf(kind, WithId(E, x.id))
  BY DEF ArePartsOf, WithId
<1> QED
  BY <1>2, <1>3, <1>4, SumsAreDetermined

------------------------------------------------------------------------------
(* Messages without an id                                                   *)

LEMMA FieldsOfEmptyPkgInfo ==
  /\ DOMAIN EmptyPkgInfo = {"names", "arch", "platform_properties"}
  /\ EmptyPkgInfo.names = << >>
<1> DEFINE text == ""
<1>1. EmptyPkgInfo = [names |-> << >>, arch |-> text, platform_properties |-> {}]
  BY Zenon DEF EmptyPkgInfo
<1> HIDE DEF text
<1> QED
  BY <1>1

LEMMA JoinedNames ==
  ASSUME NEW s, IsSequence(s), NEW t, IsSequence(t), s # << >>
  PROVE  IsSequence(s \o t) /\ s \o t # << >>
<1> DEFINE S == Elements(s) \cup Elements(t)
<1>1. s \in Seq(S) /\ t \in Seq(S)
  <2>1. s \in Seq(Elements(s)) /\ t \in Seq(Elements(t))
    BY SequencesAreFunctions
  <2> HIDE DEF S
  <2>2. Elements(s) \subseteq S /\ Elements(t) \subseteq S
    BY DEF S
  <2> QED
    BY <2>1, <2>2
<1> HIDE DEF S
<1>2. s \o t \in Seq(S) /\ Len(s \o t) = Len(s) + Len(t) /\ Len(s) \in Nat /\ Len(t) \in Nat
  BY <1>1
<1>3. Len(s) # 0
  BY <1>1
<1>4. s \o t # << >>
  BY <1>2, <1>3
<1> QED
  BY <1>2, <1>4, FunctionsAreSequences

ArePropertiesOf(properties) ==
  \A p \in properties :
    HasFields(p, FieldsOfProperties) /\ properties = {p} /\ \A f \in FieldsOfProperties : p[f] \in Nat

LEMMA OnePropertiesMessage ==
  ASSUME NEW p, HasFields(p, FieldsOfProperties), \A f \in FieldsOfProperties : p[f] \in Nat
  PROVE  ArePropertiesOf({p})
BY DEF ArePropertiesOf

(* One is the largest of all the properties, field by field, if there are   *)
(* any.                                                                     *)
AreLargest(properties, all) ==
  /\ properties = {} <=> all = {}
  /\ \A p \in properties : \A f \in FieldsOfProperties : IsLargest(p[f], {q[f] : q \in all})

LEMMA JoinedPropertiesAreLargest ==
  ASSUME NEW properties, ArePropertiesOf(properties), NEW union, ArePropertiesOf(union),
         NEW all, \A q \in all : \A f \in FieldsOfProperties : q[f] \in Nat, AreLargest(union, all)
  PROVE  LET joined == JoinProperties(properties, union)
         IN  ArePropertiesOf(joined) /\ AreLargest(joined, all \cup properties)
<1> DEFINE LargerOf(p, q) == [size |-> Larger(p.size, q.size), replicas |-> Larger(p.replicas, q.replicas),
                              max_replicas |-> Larger(p.max_replicas, q.max_replicas)]
           joined == JoinProperties(properties, union)
<1>1. joined = {LargerOf(p, q) : p \in IF properties = {} THEN union ELSE properties,
                                 q \in IF union = {} THEN properties ELSE union}
  BY DEF JoinProperties
<1>2. ASSUME NEW p, NEW q
      PROVE  /\ HasFields(LargerOf(p, q), FieldsOfProperties)
             /\ \A f \in FieldsOfProperties : LargerOf(p, q)[f] = Larger(p[f], q[f])
  BY DEF HasFields, FieldsOfProperties
<1> HIDE DEF LargerOf
<1>3. CASE properties = {} /\ union = {}
  <2>1. joined = {}
    BY <1>1, <1>3
  <2> QED
    BY <1>3, <2>1 DEF ArePropertiesOf, AreLargest
<1>4. CASE properties # {} /\ union = {}
  <2>1. PICK p : properties = {p} /\ \A f \in FieldsOfProperties : p[f] \in Nat
    BY <1>4 DEF ArePropertiesOf
  <2>2. joined = {LargerOf(p, p)}
    BY <1>1, <1>4, <2>1
  <2>3. all = {}
    BY <1>4 DEF AreLargest
  <2>4. \A f \in FieldsOfProperties : LargerOf(p, p)[f] = p[f]
    BY <1>2, <2>1 DEF Larger
  <2>5. ArePropertiesOf(joined)
    BY <1>2, <2>1, <2>2, <2>4, OnePropertiesMessage
  <2>6. \A f \in FieldsOfProperties : IsLargest(p[f], {q[f] : q \in {p}})
    BY <2>1 DEF IsLargest
  <2> QED
    BY <2>1, <2>2, <2>3, <2>4, <2>5, <2>6 DEF AreLargest
<1>5. CASE properties = {} /\ union # {}
  <2>1. PICK p : union = {p} /\ \A f \in FieldsOfProperties : p[f] \in Nat
    BY <1>5 DEF ArePropertiesOf
  <2>2. joined = {LargerOf(p, p)}
    BY <1>1, <1>5, <2>1
  <2>3. all \cup properties = all
    BY <1>5
  <2>4. \A f \in FieldsOfProperties : LargerOf(p, p)[f] = p[f]
    BY <1>2, <2>1 DEF Larger
  <2>5. ArePropertiesOf(joined)
    BY <1>2, <2>1, <2>2, <2>4, OnePropertiesMessage
  <2> QED
    BY <2>1, <2>2, <2>3, <2>4, <2>5 DEF AreLargest
<1>6. CASE properties # {} /\ union # {}
  <2>1. PICK p : properties = {p} /\ \A f \in FieldsOfProperties : p[f] \in Nat
    BY <1>6 DEF ArePropertiesOf
  <2>2. PICK q : union = {q} /\ \A f \in FieldsOfProperties : q[f] \in Nat
    BY <1>6 DEF ArePropertiesOf
  <2>3. joined = {LargerOf(p, q)}
    BY <1>1, <1>6, <2>1, <2>2
  <2>4. all # {} /\ \A f \in FieldsOfProperties : IsLargest(q[f], {o[f] : o \in all})
    BY <1>6, <2>2 DEF AreLargest
  <2>5. ASSUME NEW f \in FieldsOfProperties
        PROVE  LargerOf(p, q)[f] \in Nat /\ IsLargest(LargerOf(p, q)[f], {o[f] : o \in all \cup properties})
    <3> DEFINE S == {o[f] : o \in all}
    <3>1. S \in SUBSET Nat /\ IsLargest(q[f], S)
      BY <2>4, <2>5
    <3>2. {o[f] : o \in all \cup properties} = S \cup {p[f]}
      BY <2>1
    <3> HIDE DEF S
    <3>3. LargerOf(p, q)[f] = Larger(p[f], q[f]) /\ p[f] \in Nat /\ q[f] \in Nat
      BY <1>2, <2>1, <2>2, <2>5
    <3>4. Larger(p[f], q[f]) = Larger(q[f], p[f])
      BY <3>3 DEF Larger
    <3> QED
      BY <3>1, <3>2, <3>3, <3>4, LargerIsLargest
  <2>6. ArePropertiesOf(joined)
    BY <1>2, <2>3, <2>5, OnePropertiesMessage
  <2>7. joined # {} /\ all \cup properties # {}
    BY <2>3, <2>4
  <2> QED
    BY <2>3, <2>5, <2>6, <2>7 DEF AreLargest
<1> QED
  BY <1>3, <1>4, <1>5, <1>6

(* JoinPkgInfo: it fails exactly if the architectures differ.               *)
LEMMA JoinedPkgInfo ==
  ASSUME ErrorIsNoMessage, NEW T, \A t \in T : IsWholePkgInfo(t.pkg_info),
         NEW union, CombinesPkgInfo(union, T), NEW r, IsWholePkgInfo(r.pkg_info)
  PROVE  LET joined == JoinPkgInfo(r.pkg_info, union)
         IN  /\ joined # Refused <=> \A t \in T : r.pkg_info.arch = t.pkg_info.arch
             /\ joined # Refused => CombinesPkgInfo(joined, T \cup {r})
<1> DEFINE joined == JoinPkgInfo(r.pkg_info, union)
           info == r.pkg_info
           all == PropertiesOf(T)
<1>1. /\ HasFields(info, {"names", "arch", "platform_properties"}) /\ IsSequence(info.names)
      /\ ArePropertiesOf(info.platform_properties)
  BY FieldsOfEmptyPkgInfo DEF IsWholePkgInfo, ArePropertiesOf
<1>2. PropertiesOf(T \cup {r}) = all \cup info.platform_properties
  BY DEF PropertiesOf
<1>3. IsSequence(<<"Union of">>) /\ <<"Union of">> # << >>
  <2>1. <<"Union of">> \in Seq({"Union of"}) /\ Len(<<"Union of">>) = 1 /\ Len(<< >>) = 0
    OBVIOUS
  <2> QED
    BY <2>1, FunctionsAreSequences
<1>4. CASE T = {}
  <2> DEFINE first == [info EXCEPT !.names = <<"Union of">> \o @]
  <2>1. union = EmptyPkgInfo
    BY <1>4 DEF CombinesPkgInfo
  <2>2. joined = first
    BY <2>1 DEF JoinPkgInfo
  <2>3. /\ HasFields(first, {"names", "arch", "platform_properties"})
        /\ first.names = <<"Union of">> \o info.names
        /\ first.arch = info.arch /\ first.platform_properties = info.platform_properties
    BY <1>1 DEF HasFields
  <2> HIDE DEF first, info
  <2>4. first # Refused
    BY <2>3, MessagesAreNoErrors
  <2>5. IsSequence(first.names) /\ first.names # << >>
    BY <1>1, <1>3, <2>3, JoinedNames
  <2>6. IsWholePkgInfo(first)
    BY <1>1, <2>3, <2>5, FieldsOfEmptyPkgInfo DEF IsWholePkgInfo, ArePropertiesOf
  <2>7. all = {}
    BY <1>4 DEF PropertiesOf
  <2>8. \A p \in info.platform_properties : \A f \in FieldsOfProperties :
          IsLargest(p[f], {q[f] : q \in info.platform_properties})
    BY <1>1 DEF ArePropertiesOf, IsLargest
  <2>9. CombinesPkgInfo(first, T \cup {r})
    BY <1>2, <1>4, <2>3, <2>5, <2>6, <2>7, <2>8 DEF CombinesPkgInfo, info
  <2> QED
    BY <1>4, <2>2, <2>4, <2>9
<1>5. CASE T # {}
  <2> DEFINE properties == JoinProperties(info.platform_properties, union.platform_properties)
             next == [names |-> union.names \o info.names, arch |-> union.arch,
                      platform_properties |-> properties]
  <2>1. /\ IsWholePkgInfo(union) /\ union.names # << >>
        /\ \A t \in T : union.arch = t.pkg_info.arch
        /\ AreLargest(union.platform_properties, all)
    BY <1>5 DEF CombinesPkgInfo, AreLargest
  <2>2. union # EmptyPkgInfo
    BY <2>1, FieldsOfEmptyPkgInfo
  <2>3. joined = IF info.arch # union.arch THEN Refused ELSE next
    BY <2>2 DEF JoinPkgInfo
  <2>4. info.arch = union.arch <=> \A t \in T : info.arch = t.pkg_info.arch
    BY <1>5, <2>1
  <2>5. HasFields(next, {"names", "arch", "platform_properties"})
    BY DEF HasFields
  <2>6. next.names = union.names \o info.names /\ next.arch = union.arch
        /\ next.platform_properties = properties
    OBVIOUS
  <2> HIDE DEF next, info
  <2>7. next # Refused
    BY <2>5, MessagesAreNoErrors
  <2>8. IsSequence(next.names) /\ next.names # << >>
    BY <1>1, <2>1, <2>6, JoinedNames DEF IsWholePkgInfo
  <2>9. \A q \in all : \A f \in FieldsOfProperties : q[f] \in Nat
    BY DEF PropertiesOf, IsWholePkgInfo
  <2>10. ArePropertiesOf(union.platform_properties)
    BY <2>1 DEF IsWholePkgInfo, ArePropertiesOf
  <2> HIDE DEF all
  <2>11. ArePropertiesOf(properties) /\ AreLargest(properties, all \cup info.platform_properties)
    BY <1>1, <2>1, <2>9, <2>10, JoinedPropertiesAreLargest
  <2> HIDE DEF properties
  <2>12. IsWholePkgInfo(next)
    BY <2>5, <2>6, <2>8, <2>11, FieldsOfEmptyPkgInfo DEF IsWholePkgInfo, ArePropertiesOf
  <2>13. ASSUME info.arch = union.arch PROVE CombinesPkgInfo(next, T \cup {r})
    <3>1. \A t \in T \cup {r} : next.arch = t.pkg_info.arch
      BY <2>1, <2>6, <2>13 DEF info
    <3> QED
      BY <1>2, <2>6, <2>8, <2>11, <2>12, <3>1 DEF CombinesPkgInfo, AreLargest
  <2> QED
    BY <2>3, <2>4, <2>7, <2>13 DEF info
<1> QED
  BY <1>4, <1>5

(* JoinTypes: it fails exactly if a type is defined differently.            *)
LEMMA JoinedTypes ==
  ASSUME ErrorIsNoMessage, NEW T, NEW union, CombinesTypes(union, T),
         NEW r, HasFields(r.new_types, DOMAIN r.new_types), r.other_types \in BOOLEAN
  PROVE  LET joined == JoinTypes(r, union)
         IN  /\ joined # Refused <=> ~r.other_types /\ \A t \in T : TypesAgree(r, t)
             /\ joined # Refused => CombinesTypes(joined, T \cup {r})
<1> DEFINE all == UNION {DOMAIN t.new_types : t \in T}
           types == [type \in DOMAIN union \cup DOMAIN r.new_types |->
                       IF type \in DOMAIN union THEN union[type] ELSE r.new_types[type]]
           clash == \E type \in DOMAIN r.new_types \cap DOMAIN union : r.new_types[type] # union[type]
<1>1. DOMAIN union = all /\ \A t \in T : \A type \in DOMAIN t.new_types : union[type] = t.new_types[type]
  BY DEF CombinesTypes, HasFields
<1>2. JoinTypes(r, union) = IF r.other_types \/ clash THEN Refused ELSE types
  BY DEF JoinTypes
<1>3. UNION {DOMAIN t.new_types : t \in T \cup {r}} = all \cup DOMAIN r.new_types
  OBVIOUS
<1>4. ~clash <=> \A t \in T : TypesAgree(r, t)
  BY <1>1 DEF TypesAgree
<1>5. HasFields(types, all \cup DOMAIN r.new_types)
  BY <1>1 DEF HasFields
<1>6. types # Refused
  <2> HIDE DEF types
  <2> QED
    BY <1>5, MessagesAreNoErrors
<1>7. \A type \in all : types[type] = union[type]
  BY <1>1
<1>8. ASSUME ~clash PROVE \A type \in DOMAIN r.new_types : types[type] = r.new_types[type]
  BY <1>8
<1>9. ASSUME ~clash PROVE CombinesTypes(types, T \cup {r})
  <2>1. \A t \in T : DOMAIN t.new_types \subseteq all
    OBVIOUS
  <2> HIDE DEF all, types, clash
  <2>2. \A t \in T \cup {r} : \A type \in DOMAIN t.new_types : types[type] = t.new_types[type]
    BY <1>1, <1>7, <1>8, <1>9, <2>1
  <2> QED
    BY <1>3, <1>5, <2>2 DEF CombinesTypes
<1> HIDE DEF types, clash
<1> QED
  BY <1>2, <1>4, <1>6, <1>9

------------------------------------------------------------------------------
(* MergeP4Info: it fails exactly if a P4Info contradicts itself or one of   *)
(* those that were merged                                                   *)

PartsOfP4Info == RepeatedParts \cup {"pkg_info", "new_types"}

LEMMA FieldsOfP4Info ==
  /\ DOMAIN EmptyP4Info = PartsOfP4Info \cup {"externs", "other_types"}
  /\ PartsOfP4Info \cap {"externs", "other_types"} = {}
BY DEF EmptyP4Info, PartsOfP4Info, RepeatedParts, ComparedParts

LEMMA EmptyCombinesNone == Combines(EmptyP4Info, {})
<1>1. << >> \in Seq({}) /\ Elements(<< >>) = {} /\ DOMAIN << >> = {}
  BY DEF Elements
<1>2. IsSequence(<< >>)
  BY <1>1, FunctionsAreSequences
<1>3. \A kind : Describes(kind, << >>, {})
  BY <1>1, <1>2 DEF Describes, IdsDiffer
<1>4. HasFields(EmptyP4Info, DOMAIN EmptyP4Info)
  BY DEF EmptyP4Info, HasFields
<1>5. \A p \in RepeatedParts : EmptyP4Info[p] = << >>
  BY DEF EmptyP4Info, RepeatedParts, ComparedParts
<1>6. EmptyP4Info.pkg_info = EmptyPkgInfo /\ EmptyP4Info.new_types = << >>
  BY DEF EmptyP4Info
<1>7. \A p \in RepeatedParts : Describes(KindOf(p), EmptyP4Info[p], AllOf({}, p))
  BY <1>3, <1>5 DEF AllOf
<1>8. CombinesPkgInfo(EmptyPkgInfo, {})
  BY DEF CombinesPkgInfo
<1>9. CombinesTypes(<< >>, {})
  BY <1>1 DEF CombinesTypes, HasFields
<1> QED
  BY <1>4, <1>6, <1>7, <1>8, <1>9 DEF Combines

LEMMA MergedParts ==
  ASSUME ErrorIsNoMessage, NEW T, \A t \in T : IsWholeRole(t), NEW info, Combines(info, T),
         NEW r, IsWholeRole(r), NEW p \in RepeatedParts, NEW union,
         p = "tables" => union = MapUnion(r.tables, info.tables, JoinTable),
         p = "actions" => union = MapUnion(r.actions, info.actions, JoinAction),
         p = "action_profiles" => union = MapUnion(r.action_profiles, info.action_profiles, JoinProfile),
         p \in ComparedParts => union = MapUnion(r[p], info[p], JoinEqual)
  PROVE  Joins(KindOf(p), union, r[p], AllOf(T, p))
<1>1. IsSequence(r[p]) /\ ArePartsOf(KindOf(p), Elements(r[p]))
  BY DEF IsWholeRole
<1>2. ArePartsOf(KindOf(p), AllOf(T, p))
  BY DEF IsWholeRole, ArePartsOf, AllOf
<1>3. Describes(KindOf(p), info[p], AllOf(T, p))
  BY DEF Combines
<1>4. CASE p = "tables"
  BY <1>1, <1>2, <1>3, <1>4, TablesJoinWell, UnionOfTablesIsJoined DEF KindOf
<1>5. CASE p = "actions"
  BY <1>1, <1>2, <1>3, <1>5, ActionsJoinWell, UnionOfActionsIsJoined DEF KindOf
<1>6. CASE p = "action_profiles"
  BY <1>1, <1>2, <1>3, <1>6, ProfilesJoinWell, UnionOfProfilesIsJoined DEF KindOf
<1>7. CASE p \in ComparedParts
  <2>1. KindOf(p) = "equal"
    BY <1>7 DEF KindOf, ComparedParts
  <2> QED
    BY <1>1, <1>2, <1>3, <1>7, <2>1, EqualsJoinWell, UnionOfEqualsIsJoined
<1> QED
  BY <1>4, <1>5, <1>6, <1>7 DEF RepeatedParts

LEMMA MergedCombine ==
  ASSUME ErrorIsNoMessage, NEW T, \A t \in T : IsWholeRole(t), NEW info, Combines(info, T),
         NEW r, IsWholeRole(r)
  PROVE  LET merged == MergeP4Info(r, info)
         IN  /\ merged # Refused <=> Alone(r) /\ \A t \in T : Compatible(r, t)
             /\ merged # Refused => Combines(merged, T \cup {r})
<1> DEFINE pkg_info == JoinPkgInfo(r.pkg_info, info.pkg_info)
           tables == MapUnion(r.tables, info.tables, JoinTable)
           actions == MapUnion(r.actions, info.actions, JoinAction)
           profiles == MapUnion(r.action_profiles, info.action_profiles, JoinProfile)
           counters == MapUnion(r.direct_counters, info.direct_counters, JoinEqual)
           meters == MapUnion(r.direct_meters, info.direct_meters, JoinEqual)
           metadata == MapUnion(r.controller_packet_metadata, info.controller_packet_metadata, JoinEqual)
           others == MapUnion(r.others, info.others, JoinEqual)
           types == JoinTypes(r, info.new_types)
           all == [pkg_info |-> pkg_info, tables |-> tables, actions |-> actions,
                   action_profiles |-> profiles, direct_counters |-> counters, direct_meters |-> meters,
                   controller_packet_metadata |-> metadata, others |-> others, externs |-> FALSE,
                   new_types |-> types, other_types |-> FALSE]
<1>1. MergeP4Info(r, info)
        = IF \E part \in DOMAIN all \ {"externs", "other_types"} : all[part] = Refused THEN Refused ELSE all
  BY DEF MergeP4Info
<1> HIDE DEF pkg_info, tables, actions, profiles, counters, meters, metadata, others, types
<1>2. HasFields(all, DOMAIN all) /\ DOMAIN all = DOMAIN EmptyP4Info
  BY DEF HasFields, EmptyP4Info
<1>3. all.pkg_info = pkg_info /\ all.new_types = types
  OBVIOUS
<1>4. ASSUME NEW p \in RepeatedParts PROVE Joins(KindOf(p), all[p], r[p], AllOf(T, p))
  <2>1. /\ p = "tables" => all[p] = MapUnion(r.tables, info.tables, JoinTable)
        /\ p = "actions" => all[p] = MapUnion(r.actions, info.actions, JoinAction)
        /\ p = "action_profiles" => all[p] = MapUnion(r.action_profiles, info.action_profiles, JoinProfile)
    BY DEF tables, actions, profiles
  <2>2. p \in ComparedParts => all[p] = MapUnion(r[p], info[p], JoinEqual)
    BY DEF ComparedParts, counters, meters, metadata, others
  <2> HIDE DEF all
  <2> QED
    BY <2>1, <2>2, MergedParts
<1> HIDE DEF all
<1>5. DOMAIN all \ {"externs", "other_types"} = RepeatedParts \cup {"pkg_info", "new_types"}
  BY <1>2, FieldsOfP4Info DEF PartsOfP4Info
<1>6. all # Refused
  BY <1>2, MessagesAreNoErrors
<1>7. MergeP4Info(r, info) # Refused
        <=> pkg_info # Refused /\ types # Refused /\ \A p \in RepeatedParts : all[p] # Refused
  BY <1>1, <1>3, <1>5, <1>6
<1>8. /\ pkg_info # Refused <=> \A t \in T : r.pkg_info.arch = t.pkg_info.arch
      /\ pkg_info # Refused => CombinesPkgInfo(pkg_info, T \cup {r})
  <2>1. CombinesPkgInfo(info.pkg_info, T) /\ \A t \in T \cup {r} : IsWholePkgInfo(t.pkg_info)
    BY DEF Combines, IsWholeRole
  <2> QED
    BY <2>1, JoinedPkgInfo DEF pkg_info
<1>9. /\ types # Refused <=> ~r.other_types /\ \A t \in T : TypesAgree(r, t)
      /\ types # Refused => CombinesTypes(types, T \cup {r})
  <2>1. CombinesTypes(info.new_types, T)
    BY DEF Combines
  <2> QED
    BY <2>1, JoinedTypes DEF types, IsWholeRole
<1>10. ASSUME NEW p \in RepeatedParts
       PROVE  all[p] # Refused <=>
                /\ SelfAgree(KindOf(p), r[p])
                /\ \A t \in T : \A e \in Elements(r[p]), g \in Elements(t[p]) : Agree(KindOf(p), e, g)
  BY <1>4 DEF Joins, AllOf
<1>11. MergeP4Info(r, info) # Refused <=> Alone(r) /\ \A t \in T : Compatible(r, t)
  BY <1>7, <1>8, <1>9, <1>10 DEF Alone, Compatible
<1>12. ASSUME MergeP4Info(r, info) # Refused PROVE Combines(all, T \cup {r})
  <2>1. ASSUME NEW p \in RepeatedParts PROVE Describes(KindOf(p), all[p], AllOf(T \cup {r}, p))
    <3>1. AllOf(T \cup {r}, p) = AllOf(T, p) \cup Elements(r[p])
      BY DEF AllOf
    <3> QED
      BY <1>4, <1>7, <1>12, <3>1 DEF Joins
  <2> QED
    BY <1>2, <1>3, <1>7, <1>8, <1>9, <1>12, <2>1 DEF Combines
<1> QED
  BY <1>1, <1>11, <1>12

------------------------------------------------------------------------------
(* What a P4Info means is determined by those it was merged from            *)

LEMMA PropertiesAreDetermined ==
  ASSUME NEW all, \A q \in all : \A f \in FieldsOfProperties : q[f] \in Nat,
         NEW properties, ArePropertiesOf(properties), AreLargest(properties, all),
         NEW others, ArePropertiesOf(others), AreLargest(others, all)
  PROVE  properties = others
<1>1. CASE all = {}
  BY <1>1 DEF AreLargest
<1>2. CASE all # {}
  <2>1. PICK p : properties = {p} /\ HasFields(p, FieldsOfProperties)
    BY <1>2 DEF AreLargest, ArePropertiesOf
  <2>2. PICK o : others = {o} /\ HasFields(o, FieldsOfProperties)
    BY <1>2 DEF AreLargest, ArePropertiesOf
  <2>3. ASSUME NEW f \in FieldsOfProperties PROVE p[f] = o[f]
    <3> DEFINE S == {q[f] : q \in all}
    <3>1. S \in SUBSET Nat
      BY <2>3
    <3>2. IsLargest(p[f], S) /\ IsLargest(o[f], S)
      BY <2>1, <2>2, <2>3 DEF AreLargest
    <3> HIDE DEF S
    <3> QED
      BY <3>1, <3>2, LargestIsUnique
  <2>4. p = o
    BY <2>1, <2>2, <2>3 DEF HasFields
  <2> QED
    BY <2>1, <2>2, <2>4
<1> QED
  BY <1>1, <1>2

LEMMA MeaningIsDetermined ==
  ASSUME NEW T, \A t \in T : IsWholeRole(t), NEW info, Combines(info, T), NEW other, Combines(other, T)
  PROVE  Meaning(info) = Meaning(other)
<1>1. ASSUME NEW u, Combines(u, T), NEW v, Combines(v, T), NEW p \in RepeatedParts, NEW x \in Elements(u[p])
      PROVE  \E y \in Elements(v[p]) : MeansTheSame(KindOf(p), x, y)
  <2>1. ArePartsOf(KindOf(p), AllOf(T, p))
    BY DEF IsWholeRole, ArePartsOf, AllOf
  <2>2. Describes(KindOf(p), u[p], AllOf(T, p)) /\ Describes(KindOf(p), v[p], AllOf(T, p))
    BY <1>1 DEF Combines
  <2> QED
    BY <1>1, <2>1, <2>2, ListsAreDetermined
<1>2. ASSUME NEW u, Combines(u, T), NEW v, Combines(v, T)
      PROVE  {TableMeaning(t) : t \in Elements(u.tables)} \subseteq {TableMeaning(t) : t \in Elements(v.tables)}
  <2> SUFFICES ASSUME NEW t \in Elements(u.tables)
               PROVE  \E y \in Elements(v.tables) : TableMeaning(t) = TableMeaning(y)
    OBVIOUS
  <2>1. "tables" \in RepeatedParts /\ KindOf("tables") = "table"
    BY DEF RepeatedParts, KindOf
  <2>2. \E y \in Elements(v.tables) : MeansTheSame("table", t, y)
    BY <1>1, <1>2, <2>1
  <2> QED
    BY <2>2 DEF MeansTheSame
<1>3. ASSUME NEW u, Combines(u, T), NEW v, Combines(v, T), NEW p \in RepeatedParts \ {"tables"}
      PROVE  Elements(u[p]) \subseteq Elements(v[p])
  <2> SUFFICES ASSUME NEW x \in Elements(u[p]) PROVE x \in Elements(v[p])
    OBVIOUS
  <2>1. KindOf(p) # "table"
    BY <1>3 DEF KindOf
  <2>2. \E y \in Elements(v[p]) : MeansTheSame(KindOf(p), x, y)
    BY <1>1, <1>3
  <2> QED
    BY <2>1, <2>2 DEF MeansTheSame
<1>4. {TableMeaning(t) : t \in Elements(info.tables)} = {TableMeaning(t) : t \in Elements(other.tables)}
  <2>1. {TableMeaning(t) : t \in Elements(info.tables)} \subseteq {TableMeaning(t) : t \in Elements(other.tables)}
    BY <1>2
  <2>2. {TableMeaning(t) : t \in Elements(other.tables)} \subseteq {TableMeaning(t) : t \in Elements(info.tables)}
    BY <1>2
  <2> QED
    BY <2>1, <2>2
<1>5. \A p \in RepeatedParts \ {"tables"} : Elements(info[p]) = Elements(other[p])
  <2>1. \A p \in RepeatedParts \ {"tables"} : Elements(info[p]) \subseteq Elements(other[p])
    BY <1>3
  <2>2. \A p \in RepeatedParts \ {"tables"} : Elements(other[p]) \subseteq Elements(info[p])
    BY <1>3
  <2> QED
    BY <2>1, <2>2
<1>6. info.pkg_info.platform_properties = other.pkg_info.platform_properties
  <2>1. CombinesPkgInfo(info.pkg_info, T) /\ CombinesPkgInfo(other.pkg_info, T)
    BY DEF Combines
  <2>2. CASE T = {}
    BY <2>1, <2>2 DEF CombinesPkgInfo
  <2>3. CASE T # {}
    <3> DEFINE all == PropertiesOf(T)
               u == info.pkg_info.platform_properties
               v == other.pkg_info.platform_properties
    <3>1. \A q \in all : \A f \in FieldsOfProperties : q[f] \in Nat
      BY DEF PropertiesOf, IsWholeRole, IsWholePkgInfo
    <3>2. ArePropertiesOf(u) /\ AreLargest(u, all)
      BY <2>1, <2>3 DEF CombinesPkgInfo, IsWholePkgInfo, ArePropertiesOf, AreLargest
    <3>3. ArePropertiesOf(v) /\ AreLargest(v, all)
      BY <2>1, <2>3 DEF CombinesPkgInfo, IsWholePkgInfo, ArePropertiesOf, AreLargest
    <3> HIDE DEF all, u, v
    <3>4. u = v
      BY <3>1, <3>2, <3>3, PropertiesAreDetermined
    <3> QED
      BY <3>4 DEF u, v
  <2> QED
    BY <2>2, <2>3
<1>7. info.new_types = other.new_types
  <2> DEFINE names == UNION {DOMAIN t.new_types : t \in T}
  <2>1. HasFields(info.new_types, names) /\ HasFields(other.new_types, names)
    BY DEF Combines, CombinesTypes
  <2>2. \A type \in names : info.new_types[type] = other.new_types[type]
    BY DEF Combines, CombinesTypes
  <2> HIDE DEF names
  <2> QED
    BY <2>1, <2>2 DEF HasFields
<1> DEFINE parts == {"actions", "action_profiles", "direct_counters", "direct_meters",
                     "controller_packet_metadata", "others"}
<1>8. \A u : Meaning(u) = [tables |-> {TableMeaning(t) : t \in Elements(u.tables)},
                           properties |-> u.pkg_info.platform_properties,
                           types |-> u.new_types,
                           parts |-> [p \in parts |-> Elements(u[p])]]
  BY Zenon DEF Meaning, TableMeaning
<1>9. [p \in parts |-> Elements(info[p])] = [p \in parts |-> Elements(other[p])]
  BY <1>5 DEF RepeatedParts, ComparedParts
<1> QED
  BY <1>4, <1>6, <1>7, <1>8, <1>9

------------------------------------------------------------------------------
(* UnionOf: merging one P4Info after the other                              *)

IsFold(acc, list, m) ==
  acc = [n \in 0 .. m |->
           IF n = 0 THEN EmptyP4Info
           ELSE IF acc[n - 1] = Refused THEN Refused ELSE MergeP4Info(list[n], acc[n - 1])]

LEMMA FoldsAreFound ==
  ASSUME NEW list, NEW steps \in Nat
  PROVE  \E acc : IsFold(acc, list, steps)
<1> DEFINE T == {m \in Nat : ~ \E f : IsFold(f, list, m)}
<1>1. ASSUME T # {} PROVE FALSE
  <2>1. PICK m \in T : \A n \in T : m <= n
    BY <1>1, LeastNatural
  <2>2. CASE m = 0
    <3> DEFINE f == [n \in 0 .. 0 |-> EmptyP4Info]
    <3>1. IsFold(f, list, 0)
      BY DEF IsFold
    <3> QED
      BY <2>1, <2>2, <3>1
  <2>3. CASE m # 0
    <3>1. m \in Nat /\ m - 1 \in Nat
      BY <2>1, <2>3
    <3>2. PICK old : IsFold(old, list, m - 1)
      <4>1. m - 1 \notin T
        BY <2>1, <3>1
      <4> QED
        BY <3>1, <4>1
    <3> DEFINE Step(n, before) == IF before = Refused THEN Refused ELSE MergeP4Info(list[n], before)
               f == [n \in 0 .. m |-> IF n = m THEN Step(m, old[m - 1]) ELSE old[n]]
    <3> HIDE DEF Step
    <3>3. (\A n \in 0 .. (m - 1) : f[n] = old[n]) /\ f[m] = Step(m, old[m - 1])
      BY <3>1
    <3>4. f = [n \in 0 .. m |-> f[n]]
      OBVIOUS
    <3> HIDE DEF f
    <3>5. \A n \in 0 .. m : f[n] = IF n = 0 THEN EmptyP4Info ELSE Step(n, f[n - 1])
      <4>1. \A n \in 0 .. (m - 1) : old[n] = IF n = 0 THEN EmptyP4Info ELSE Step(n, old[n - 1])
        BY <3>2 DEF IsFold, Step
      <4>2. \A n \in 0 .. m : n = m \/ (n \in 0 .. (m - 1) /\ (n = 0 \/ n - 1 \in 0 .. (m - 1)))
        BY <3>1
      <4>3. m - 1 \in 0 .. (m - 1) /\ m # 0
        BY <2>3, <3>1
      <4> QED
        BY <3>3, <4>1, <4>2, <4>3
    <3>6. f = [n \in 0 .. m |-> IF n = 0 THEN EmptyP4Info ELSE Step(n, f[n - 1])]
      BY <3>4, <3>5
    <3>7. IsFold(f, list, m)
      BY <3>6 DEF IsFold, Step
    <3> QED
      BY <2>1, <3>7
  <2> QED
    BY <2>2, <2>3
<1> QED
  BY <1>1

LEMMA UnionInSteps ==
  ASSUME NEW list, Len(list) \in Nat
  PROVE  \E acc : /\ acc[0] = EmptyP4Info
                  /\ \A n \in 1 .. Len(list) :
                       acc[n] = IF acc[n - 1] = Refused THEN Refused ELSE MergeP4Info(list[n], acc[n - 1])
                  /\ UnionOf(list) = acc[Len(list)]
<1> DEFINE Equation(acc) ==
             acc = [n \in 0 .. Len(list) |->
                      IF n = 0 THEN EmptyP4Info
                      ELSE IF acc[n - 1] = Refused THEN Refused ELSE MergeP4Info(list[n], acc[n - 1])]
           acc == CHOOSE acc : Equation(acc)
<1>1. UnionOf(list) = acc[Len(list)]
  BY DEF UnionOf
<1>2. \A f : IsFold(f, list, Len(list)) <=> Equation(f)
  BY DEF IsFold
<1>3. PICK f : IsFold(f, list, Len(list))
  BY FoldsAreFound
<1> HIDE DEF Equation
<1>4. Equation(acc)
  BY <1>2, <1>3
<1> HIDE DEF acc
<1>5. /\ acc[0] = EmptyP4Info
      /\ \A n \in 1 .. Len(list) :
           acc[n] = IF acc[n - 1] = Refused THEN Refused ELSE MergeP4Info(list[n], acc[n - 1])
  BY <1>4 DEF Equation
<1> QED
  BY <1>1, <1>5

LEMMA EmptyIsNoError == ErrorIsNoMessage => EmptyP4Info # Refused
<1>1. HasFields(EmptyP4Info, DOMAIN EmptyP4Info)
  BY DEF EmptyP4Info, HasFields
<1> QED
  BY <1>1, MessagesAreNoErrors

LEMMA CompatibilityIsMutual ==
  ASSUME NEW r, NEW t, Compatible(r, t)
  PROVE  Compatible(t, r)
<1>1. \A p \in RepeatedParts : \A e \in Elements(t[p]), g \in Elements(r[p]) : Agree(KindOf(p), e, g)
  BY AgreementIsMutual DEF Compatible
<1> QED
  BY <1>1 DEF Compatible, TypesAgree

LEMMA CompatibleWithOneMore ==
  ASSUME NEW T, NEW r, r \notin T
  PROVE  AreCompatible(T \cup {r}) <=> AreCompatible(T) /\ Alone(r) /\ \A t \in T : Compatible(r, t)
<1>1. ASSUME AreCompatible(T \cup {r}) PROVE AreCompatible(T) /\ Alone(r) /\ \A t \in T : Compatible(r, t)
  BY <1>1 DEF AreCompatible
<1>2. ASSUME AreCompatible(T), Alone(r), \A t \in T : Compatible(r, t) PROVE AreCompatible(T \cup {r})
  BY <1>2, CompatibilityIsMutual DEF AreCompatible
<1> QED
  BY <1>1, <1>2

(* UnionOf: it fails exactly if a P4Info contradicts itself or two of them  *)
(* contradict each other.                                                   *)
LEMMA UnionInOrder ==
  ASSUME ErrorIsNoMessage, NEW list, IsSequence(list), \A i \in DOMAIN list : IsWholeRole(list[i]),
         \A i, j \in DOMAIN list : list[i] = list[j] => i = j
  PROVE  /\ UnionOf(list) # Refused <=> AreCompatible(Elements(list))
         /\ UnionOf(list) # Refused => Combines(UnionOf(list), Elements(list))
<1> DEFINE steps == Len(list)
           Merged(n) == {list[i] : i \in 1 .. n}
<1>1. steps \in Nat /\ DOMAIN list = 1 .. steps
  BY SequencesAreFunctions
<1>2. PICK acc : /\ acc[0] = EmptyP4Info
                 /\ \A n \in 1 .. steps :
                      acc[n] = IF acc[n - 1] = Refused THEN Refused ELSE MergeP4Info(list[n], acc[n - 1])
                 /\ UnionOf(list) = acc[steps]
  BY <1>1, UnionInSteps
<1> DEFINE Right(n) == (acc[n] # Refused <=> AreCompatible(Merged(n)))
                       /\ (acc[n] # Refused => Combines(acc[n], Merged(n)))
           B == {n \in 0 .. steps : ~ Right(n)}
<1> HIDE DEF steps
<1>3. ASSUME B # {} PROVE FALSE
  <2>1. B \in SUBSET Nat
    BY <1>1
  <2>2. PICK m \in B : \A n \in B : m <= n
    BY <1>3, <2>1, LeastNatural
  <2>3. m \in Nat /\ m \in 0 .. steps /\ ~ Right(m)
    BY <2>1, <2>2
  <2>4. m # 0
    <3>1. Merged(0) = {}
      OBVIOUS
    <3> HIDE DEF Merged
    <3>2. AreCompatible({})
      BY DEF AreCompatible
    <3>3. Right(0)
      BY <1>2, <3>1, <3>2, EmptyIsNoError, EmptyCombinesNone
    <3> QED
      BY <2>3, <3>3
  <2>5. m - 1 \in 0 .. steps /\ ~ (m <= m - 1) /\ m \in 1 .. steps
    BY <1>1, <2>3, <2>4
  <2>6. Right(m - 1)
    BY <2>2, <2>5
  <2>7. acc[m] = IF acc[m - 1] = Refused THEN Refused ELSE MergeP4Info(list[m], acc[m - 1])
    BY <1>2, <2>5
  <2>8. Merged(m) = Merged(m - 1) \cup {list[m]}
    BY <1>1, <2>5
  <2>9. 1 .. (m - 1) \subseteq 1 .. steps /\ m \notin 1 .. (m - 1)
    BY <1>1, <2>5
  <2>10. list[m] \notin Merged(m - 1)
    BY <1>1, <2>5, <2>9
  <2>11. IsWholeRole(list[m]) /\ \A t \in Merged(m - 1) : IsWholeRole(t)
    BY <1>1, <2>5, <2>9
  <2> HIDE DEF Merged, B
  <2>12. AreCompatible(Merged(m))
           <=> AreCompatible(Merged(m - 1)) /\ Alone(list[m]) /\ \A t \in Merged(m - 1) : Compatible(list[m], t)
    BY <2>8, <2>10, CompatibleWithOneMore
  <2>13. CASE acc[m - 1] = Refused
    BY <2>3, <2>6, <2>7, <2>12, <2>13
  <2>14. CASE acc[m - 1] # Refused
    <3>1. Combines(acc[m - 1], Merged(m - 1)) /\ AreCompatible(Merged(m - 1))
      BY <2>6, <2>14
    <3>2. /\ acc[m] # Refused <=> Alone(list[m]) /\ \A t \in Merged(m - 1) : Compatible(list[m], t)
          /\ acc[m] # Refused => Combines(acc[m], Merged(m - 1) \cup {list[m]})
      BY <2>7, <2>11, <2>14, <3>1, MergedCombine
    <3> QED
      BY <2>3, <2>8, <2>12, <3>1, <3>2
  <2> QED
    BY <2>13, <2>14
<1>4. Right(steps)
  <2>1. steps \in 0 .. steps
    BY <1>1
  <2> HIDE DEF Right
  <2> QED
    BY <1>3, <2>1
<1>5. Merged(steps) = Elements(list)
  BY <1>1 DEF Elements
<1> HIDE DEF Merged
<1> QED
  BY <1>2, <1>4, <1>5

LEMMA SetsAreLists ==
  ASSUME NEW S, IsFiniteSet(S)
  PROVE  LET list == SetToSeq(S)
         IN  /\ IsSequence(list) /\ Elements(list) = S /\ Len(list) = Cardinality(S)
             /\ \A i, j \in DOMAIN list : list[i] = list[j] => i = j
<1> DEFINE n == Cardinality(S)
           list == SetToSeq(S)
<1>1. n \in Nat /\ ExistsBijection(1 .. n, S)
  BY FS_CardinalityType
<1>2. \E f \in [1 .. n -> S] : IsInjective(f)
  BY <1>1 DEF ExistsBijection, Bijection, Injection
<1>3. list \in [1 .. n -> S] /\ IsInjective(list)
  BY <1>2 DEF SetToSeq
<1> HIDE DEF list, n
<1>4. IsFiniteSet(1 .. n) /\ Cardinality(1 .. n) = n
  <2>1. IsFiniteSet(1 .. n) /\ Cardinality(1 .. n) = IF 1 > n THEN 0 ELSE n - 1 + 1
    BY <1>1, FS_Interval
  <2> QED
    BY <1>1, <2>1
<1>5. list \in Injection(1 .. n, S)
  BY <1>3 DEF Injection
<1>6. Cardinality(1 .. n) = Cardinality(S) <=> list \in Surjection(1 .. n, S)
  BY <1>5, FS_Injection, <1>4
<1>7. list \in Surjection(1 .. n, S)
  BY <1>4, <1>6 DEF n
<1>8. Elements(list) = S
  BY <1>3, <1>7 DEF Surjection, Elements
<1>9. list \in Seq(S) /\ Len(list) = n
  BY <1>1, <1>3, SeqDef
<1>10. IsSequence(list)
  BY <1>9, FunctionsAreSequences
<1>11. \A i, j \in DOMAIN list : list[i] = list[j] => i = j
  BY <1>3 DEF IsInjective
<1> QED
  BY <1>8, <1>9, <1>10, <1>11 DEF list, n

LEMMA UnionOfOne ==
  ASSUME ErrorIsNoMessage, NEW list, IsSequence(list), Len(list) = 1
  PROVE  UnionOf(list) = MergeP4Info(list[1], EmptyP4Info)
<1>1. PICK acc : /\ acc[0] = EmptyP4Info
                 /\ \A n \in 1 .. 1 :
                      acc[n] = IF acc[n - 1] = Refused THEN Refused ELSE MergeP4Info(list[n], acc[n - 1])
                 /\ UnionOf(list) = acc[1]
  BY UnionInSteps
<1>2. acc[1] = IF acc[0] = Refused THEN Refused ELSE MergeP4Info(list[1], acc[0])
  <2>1. 1 \in 1 .. 1 /\ 1 - 1 = 0
    OBVIOUS
  <2> QED
    BY <1>1, <2>1
<1> QED
  BY <1>1, <1>2, EmptyIsNoError

LEMMA UnionOfNone ==
  ASSUME NEW list, Len(list) = 0
  PROVE  UnionOf(list) = EmptyP4Info
BY UnionInSteps

LEMMA ShortLists ==
  ASSUME NEW r, NEW s
  PROVE  /\ IsSequence(<<r>>) /\ Len(<<r>>) = 1 /\ <<r>>[1] = r /\ Elements(<<r>>) = {r} /\ DOMAIN <<r>> = {1}
         /\ IsSequence(<<r, s>>) /\ Elements(<<r, s>>) = {r, s}
         /\ DOMAIN <<r, s>> = {1, 2} /\ <<r, s>>[1] = r /\ <<r, s>>[2] = s
<1>1. <<r>> \in Seq({r}) /\ <<r, s>> \in Seq({r, s})
  OBVIOUS
<1>2. DOMAIN <<r>> = {1} /\ DOMAIN <<r, s>> = {1, 2}
  OBVIOUS
<1>3. Elements(<<r>>) = {r} /\ Elements(<<r, s>>) = {r, s}
  BY <1>2 DEF Elements
<1> QED
  BY <1>1, <1>2, <1>3, FunctionsAreSequences

------------------------------------------------------------------------------
(* The inductive invariant of the union                                     *)

LEMMA RolesAreProper ==
  ASSUME ErrorIsNoMessage, NEW infos \in RoleSets, ~IsSingle(infos), NEW r \in infos
  PROVE  IsWholeRole(r)
<1>1. infos # {r}
  BY DEF IsSingle
<1>2. /\ HasFields(r, DOMAIN EmptyP4Info)
      /\ \A p \in RepeatedParts : IsSequence(r[p])
      /\ \A t \in Elements(r.tables) :
           IsWholeTable(t) /\ IdsDiffer(t.match_fields) /\ IdsDiffer(t.action_refs)
      /\ \A a \in Elements(r.actions) : IsWholeAction(a)
      /\ \A p \in Elements(r.action_profiles) : IsWholeProfile(p)
      /\ \A p \in ComparedParts : AreMessages(r[p])
      /\ IsWholePkgInfo(r.pkg_info)
      /\ HasFields(r.new_types, DOMAIN r.new_types) /\ r.other_types \in BOOLEAN
  BY <1>1, RolesAreWhole
<1>3. ASSUME NEW p \in RepeatedParts, NEW e \in Elements(r[p]) PROVE IsPart(KindOf(p), e)
  <2>1. CASE p = "tables"
    <3>1. IsTable(e)
      BY <2>1, RolesAreP4Infos
    <3>2. IsWholeTable(e) /\ IdsDiffer(e.match_fields) /\ IdsDiffer(e.action_refs)
      BY <1>2, <2>1
    <3>3. e # Refused
      BY <3>2, MessagesAreNoErrors DEF IsWholeTable
    <3> QED
      BY <2>1, <3>1, <3>2, <3>3 DEF IsPart, KindOf
  <2>2. CASE p = "actions"
    <3>1. IsWholeAction(e) /\ e # Refused
      BY <1>2, <2>2, MessagesAreNoErrors DEF IsWholeAction
    <3> QED
      BY <2>2, <3>1 DEF IsPart, KindOf
  <2>3. CASE p = "action_profiles"
    <3>1. IsWholeProfile(e) /\ e # Refused
      BY <1>2, <2>3, MessagesAreNoErrors DEF IsWholeProfile
    <3> QED
      BY <2>3, <3>1 DEF IsPart, KindOf
  <2>4. CASE p \in ComparedParts
    <3>1. e # Refused
      BY <1>2, <2>4, MessagesAreNoErrors DEF AreMessages
    <3> QED
      BY <2>4, <3>1 DEF IsPart, KindOf, ComparedParts
  <2> QED
    BY <2>1, <2>2, <2>3, <2>4 DEF RepeatedParts
<1> QED
  BY <1>2, <1>3 DEF IsWholeRole, ArePartsOf

(* Spec: what was merged is what the P4Infos are joined to, and they do not *)
(* contradict each other; what is refused contradicts itself or one of them.*)
THEOREM UnionOfCompatibleRoles == ErrorIsNoMessage /\ Spec => []UnionInv
<1> DEFINE allowed == \A s \in roles : Mergeable(<<s>>)
<1>1. ASSUME ErrorIsNoMessage, Init PROVE UnionInv
  <2>1. roles \ waiting = {} /\ AreCompatible({}) /\ waiting = roles
    BY <1>1 DEF Init, AreCompatible
  <2> QED
    BY <1>1, <2>1, EmptyCombinesNone DEF Init, UnionInv
<1>2. ASSUME ErrorIsNoMessage, UnionInv, [Next]_vars PROVE UnionInv'
  <2>1. ASSUME roles' = roles, waiting' = waiting, unioned' = unioned, stage' # "refused union" PROVE UnionInv'
    BY <1>2, <2>1 DEF UnionInv
  <2>2. CASE RefuseToMerge
    <3>1. roles' = roles /\ waiting' = waiting /\ unioned' = unioned /\ ~allowed
      BY <2>2 DEF RefuseToMerge, Refuse
    <3> QED
      BY <1>2, <3>1 DEF UnionInv
  <2>3. ASSUME NEW r \in waiting, MergeRole(r) PROVE UnionInv'
    <3>1. /\ roles' = roles /\ waiting' = waiting \ {r} /\ stage' = "merging"
          /\ unioned' = MergeP4Info(r, unioned) /\ MergeP4Info(r, unioned) # Refused
      BY <2>3 DEF MergeRole
    <3>2. r \in roles /\ roles \in RoleSets /\ waiting \subseteq roles
      BY <1>2 DEF UnionInv
    <3>3. CASE IsSingle(roles)
      <4>1. roles = {r} /\ waiting = roles
        BY <3>2, <3>3 DEF IsSingle
      <4>2. unioned = EmptyP4Info
        BY <1>2, <4>1 DEF UnionInv
      <4>3. waiting' = {}
        BY <3>1, <4>1
      <4> QED
        BY <3>1, <3>2, <3>3, <4>1, <4>2, <4>3 DEF UnionInv
    <3>4. CASE ~IsSingle(roles)
      <4> DEFINE merged == roles \ waiting
      <4>1. Combines(unioned, merged) /\ AreCompatible(merged)
        BY <1>2, <3>4 DEF UnionInv
      <4>2. \A t \in merged \cup {r} : IsWholeRole(t)
        BY <1>2, <3>2, <3>4, RolesAreProper
      <4>3. roles' \ waiting' = merged \cup {r} /\ r \notin merged
        BY <3>1, <3>2
      <4> HIDE DEF merged
      <4>4. /\ Alone(r) /\ \A t \in merged : Compatible(r, t)
            /\ Combines(unioned', merged \cup {r})
        BY <1>2, <3>1, <4>1, <4>2, MergedCombine
      <4>5. AreCompatible(merged \cup {r})
        BY <4>1, <4>3, <4>4, CompatibleWithOneMore
      <4>6. ~IsSingle(roles') /\ \A s \in roles' : roles' # {s}
        BY <3>1, <3>4 DEF IsSingle
      <4>7. Combines(unioned', roles' \ waiting') /\ AreCompatible(roles' \ waiting')
        BY <4>3, <4>4, <4>5
      <4> QED
        BY <3>1, <3>2, <4>6, <4>7 DEF UnionInv
    <3> QED
      BY <3>3, <3>4
  <2>4. ASSUME NEW r \in waiting, RefuseRole(r) PROVE UnionInv'
    <3>1. /\ roles' = roles /\ waiting' = waiting /\ unioned' = unioned
          /\ MergeP4Info(r, unioned) = Refused
      BY <2>4 DEF RefuseRole, Refuse
    <3>2. r \in roles /\ roles \in RoleSets /\ waiting \subseteq roles
      BY <1>2 DEF UnionInv
    <3>3. CASE IsSingle(roles)
      <4>1. roles = {r} /\ waiting = roles
        BY <3>2, <3>3 DEF IsSingle
      <4>2. unioned = EmptyP4Info
        BY <1>2, <4>1 DEF UnionInv
      <4>3. MergeP4Info(r, EmptyP4Info) = Refused
        BY <3>1, <4>2
      <4> QED
        BY <3>1, <3>2, <3>3, <4>1, <4>2, <4>3 DEF UnionInv
    <3>4. CASE ~IsSingle(roles)
      <4> DEFINE merged == roles \ waiting
      <4>1. Combines(unioned, merged) /\ AreCompatible(merged)
        BY <1>2, <3>4 DEF UnionInv
      <4>2. \A t \in merged \cup {r} : IsWholeRole(t)
        BY <1>2, <3>2, <3>4, RolesAreProper
      <4>3. ~Alone(r) \/ \E t \in merged : ~Compatible(r, t)
        <5> HIDE DEF merged
        <5> QED
          BY <1>2, <3>1, <4>1, <4>2, MergedCombine
      <4>4. ~IsSingle(roles') /\ \A s \in roles' : roles' # {s}
        BY <3>1, <3>4 DEF IsSingle
      <4> QED
        BY <3>1, <3>2, <4>1, <4>3, <4>4 DEF UnionInv
    <3> QED
      BY <3>3, <3>4
  <2>5. CASE Create
    BY <2>1, <2>5 DEF Create
  <2>6. CASE RefuseToCreate
    BY <2>1, <2>6 DEF RefuseToCreate, Refuse
  <2>7. CASE RemoveUnsupported
    BY <2>1, <2>7 DEF RemoveUnsupported
  <2>8. CASE UNCHANGED vars
    BY <1>2, <2>8 DEF vars, UnionInv
  <2> QED
    BY <1>2, <2>2, <2>3, <2>4, <2>5, <2>6, <2>7, <2>8 DEF Next
<1>3. ErrorIsNoMessage /\ Init => UnionInv
  BY <1>1
<1>4. ErrorIsNoMessage /\ UnionInv /\ [Next]_vars => UnionInv'
  BY <1>2
<1>5. ErrorIsNoMessage => ErrorIsNoMessage'
  BY DEF ErrorIsNoMessage
<1> QED
  BY <1>3, <1>4, <1>5, PTL DEF Spec

------------------------------------------------------------------------------
(* The order of the roles                                                   *)

(* UnionP4info, OrderIsIrrelevant: the P4Infos merged so far mean what they *)
(* mean when they are merged in some fixed order.                           *)
THEOREM OrderIsAlwaysIrrelevant == ErrorIsNoMessage /\ Spec => []OrderIsIrrelevant
<1>1. ASSUME ErrorIsNoMessage, UnionInv PROVE OrderIsIrrelevant
  <2> DEFINE merged == roles \ waiting
             list == SetToSeq(merged)
  <2>1. roles \in RoleSets /\ waiting \subseteq roles
    BY <1>1 DEF UnionInv
  <2>2. IsFiniteSet(merged)
    <3>1. IsFiniteSet(roles)
      BY <2>1, RolesAreWhole
    <3> QED
      BY <3>1, FS_Difference
  <2> HIDE DEF merged
  <2>3. /\ IsSequence(list) /\ Elements(list) = merged /\ Len(list) = Cardinality(merged)
        /\ \A i, j \in DOMAIN list : list[i] = list[j] => i = j
    BY <2>2, SetsAreLists
  <2> HIDE DEF list
  <2>4. CASE IsSingle(roles)
    <3>1. PICK r \in roles : roles = {r}
      BY <2>4 DEF IsSingle
    <3>2. CASE waiting = roles
      <4>1. merged = {}
        BY <3>2 DEF merged
      <4>2. Len(list) = 0
        BY <2>3, <4>1, FS_EmptySet
      <4>3. unioned = EmptyP4Info
        BY <1>1, <3>1, <3>2 DEF UnionInv
      <4> QED
        BY <4>2, <4>3, UnionOfNone DEF OrderIsIrrelevant, merged, list
    <3>3. CASE waiting # roles
      <4>1. merged = {r}
        BY <2>1, <3>1, <3>3 DEF merged
      <4>2. Len(list) = 1
        BY <2>3, <4>1, FS_Singleton
      <4>3. DOMAIN list = 1 .. 1
        BY <2>3, <4>2, SequencesAreFunctions
      <4>4. list[1] = r
        <5>1. 1 \in DOMAIN list
          BY <4>3
        <5>2. list[1] \in Elements(list)
          BY <5>1, Zenon DEF Elements
        <5> QED
          BY <2>3, <4>1, <5>2
      <4>5. UnionOf(list) = MergeP4Info(r, EmptyP4Info)
        BY <1>1, <2>3, <4>2, <4>4, UnionOfOne
      <4>6. unioned = MergeP4Info(r, EmptyP4Info)
        BY <1>1, <3>1, <3>3 DEF UnionInv
      <4> QED
        BY <4>5, <4>6 DEF OrderIsIrrelevant, merged, list
    <3> QED
      BY <3>2, <3>3
  <2>5. CASE ~IsSingle(roles)
    <3>1. Combines(unioned, merged) /\ AreCompatible(merged)
      BY <1>1, <2>5 DEF UnionInv, merged
    <3>2. \A t \in merged : IsWholeRole(t)
      BY <1>1, <2>1, <2>5, RolesAreProper DEF merged
    <3>3. \A i \in DOMAIN list : IsWholeRole(list[i])
      BY <2>3, <3>2 DEF Elements
    <3>4. Combines(UnionOf(list), merged)
      BY <1>1, <2>3, <3>1, <3>3, UnionInOrder
    <3>5. Meaning(unioned) = Meaning(UnionOf(list))
      BY <3>1, <3>2, <3>4, MeaningIsDetermined
    <3> QED
      BY <3>5 DEF OrderIsIrrelevant, merged, list
  <2> QED
    BY <2>4, <2>5
<1>2. ErrorIsNoMessage /\ UnionInv => OrderIsIrrelevant
  BY <1>1
<1>3. ErrorIsNoMessage => ErrorIsNoMessage'
  BY DEF ErrorIsNoMessage
<1> QED
  BY <1>2, <1>3, UnionOfCompatibleRoles, PTL

(* The unions of one P4Info and of two.                                     *)
LEMMA UnionsOfFew ==
  ASSUME ErrorIsNoMessage, NEW r, IsWholeRole(r), NEW s, IsWholeRole(s), r # s
  PROVE  /\ UnionOf(<<r>>) # Refused <=> Alone(r)
         /\ UnionOf(<<r, s>>) # Refused <=> Alone(r) /\ Alone(s) /\ Compatible(r, s)
<1>1. UnionOf(<<r>>) # Refused <=> AreCompatible({r})
  <2> DEFINE list == <<r>>
  <2>1. IsSequence(list) /\ Elements(list) = {r} /\ DOMAIN list = {1} /\ list[1] = r
    BY ShortLists
  <2> HIDE DEF list
  <2>2. UnionOf(list) # Refused <=> AreCompatible(Elements(list))
    BY <2>1, UnionInOrder
  <2> QED
    BY <2>1, <2>2 DEF list
<1>2. UnionOf(<<r, s>>) # Refused <=> AreCompatible({r, s})
  <2> DEFINE list == <<r, s>>
  <2>1. IsSequence(list) /\ Elements(list) = {r, s} /\ DOMAIN list = {1, 2} /\ list[1] = r /\ list[2] = s
    BY ShortLists
  <2> HIDE DEF list
  <2>2. UnionOf(list) # Refused <=> AreCompatible(Elements(list))
    BY <2>1, UnionInOrder
  <2> QED
    BY <2>1, <2>2 DEF list
<1>3. AreCompatible({r}) <=> Alone(r)
  BY DEF AreCompatible
<1>4. AreCompatible({r, s}) <=> Alone(r) /\ Alone(s) /\ Compatible(r, s)
  BY CompatibilityIsMutual DEF AreCompatible
<1> QED
  BY <1>1, <1>2, <1>3, <1>4

(* UnionP4info, OnlyContradictionsRefused: P4Infos are refused exactly if   *)
(* one of them contradicts itself or two of them contradict each other.     *)
THEOREM OnlyContradictionsAreEverRefused == ErrorIsNoMessage /\ Spec => []OnlyContradictionsRefused
<1>1. ASSUME ErrorIsNoMessage, UnionInv PROVE OnlyContradictionsRefused
  <2> DEFINE contradiction ==
               \E r, s \in roles : UnionOf(<<r>>) = Refused \/ (r # s /\ UnionOf(<<r, s>>) = Refused)
             refused == stage = "refused union" /\ (\A s \in roles : Mergeable(<<s>>))
  <2>1. roles \in RoleSets /\ waiting \subseteq roles
    BY <1>1 DEF UnionInv
  <2>2. SUFFICES ASSUME NEW q \in roles
                 PROVE  (refused => contradiction) /\ (waiting = {} => ~contradiction)
    BY DEF OnlyContradictionsRefused
  <2>3. CASE IsSingle(roles)
    <3>1. PICK r \in roles : roles = {r}
      BY <2>3 DEF IsSingle
    <3>2. UnionOf(<<r>>) = MergeP4Info(r, EmptyP4Info)
      BY <1>1, ShortLists, UnionOfOne
    <3>3. contradiction <=> MergeP4Info(r, EmptyP4Info) = Refused
      BY <3>1, <3>2
    <3> HIDE DEF contradiction
    <3>4. refused => MergeP4Info(r, EmptyP4Info) = Refused
      BY <1>1, <3>1 DEF UnionInv
    <3>5. waiting = {} => MergeP4Info(r, EmptyP4Info) # Refused
      BY <1>1, <3>1 DEF UnionInv
    <3> QED
      BY <3>3, <3>4, <3>5
  <2>4. CASE ~IsSingle(roles)
    <3>1. \A r \in roles : IsWholeRole(r)
      BY <1>1, <2>1, <2>4, RolesAreProper
    <3>2. contradiction <=> ~AreCompatible(roles)
      <4>1. \A r \in roles : \E s \in roles : r # s
        BY <2>4 DEF IsSingle
      <4>2. \A r \in roles : UnionOf(<<r>>) # Refused <=> Alone(r)
        BY <1>1, <3>1, <4>1, UnionsOfFew
      <4>3. \A r, s \in roles : r # s =>
              (UnionOf(<<r, s>>) # Refused <=> Alone(r) /\ Alone(s) /\ Compatible(r, s))
        BY <1>1, <3>1, UnionsOfFew
      <4> QED
        BY <4>2, <4>3 DEF AreCompatible
    <3> HIDE DEF contradiction
    <3>3. ASSUME refused PROVE ~AreCompatible(roles)
      <4>1. PICK r \in waiting : ~Alone(r) \/ \E t \in roles \ waiting : ~Compatible(r, t)
        BY <1>1, <2>4, <3>3 DEF UnionInv
      <4> QED
        BY <2>1, <4>1 DEF AreCompatible
    <3>4. waiting = {} => AreCompatible(roles)
      <4>1. waiting = {} => roles \ waiting = roles
        OBVIOUS
      <4> QED
        BY <1>1, <2>4, <4>1 DEF UnionInv
    <3> QED
      BY <3>2, <3>3, <3>4
  <2> QED
    BY <2>3, <2>4
<1>2. ErrorIsNoMessage /\ UnionInv => OnlyContradictionsRefused
  BY <1>1
<1>3. ErrorIsNoMessage => ErrorIsNoMessage'
  BY DEF ErrorIsNoMessage
<1> QED
  BY <1>2, <1>3, UnionOfCompatibleRoles, PTL

=============================================================================
