------------------------- MODULE SequencedWrites_proofs -------------------------
(***************************************************************************)
(* Proofs about the requests made of sequenced or sorted updates, and what *)
(* becomes of them at a server that checks references: for every ranked    *)
(* program, every table and every list of updates.                         *)
(***************************************************************************)
EXTENDS SequencedWrites, FiniteSetTheorems, WellFoundedInduction, SequenceTheorems, FunctionTheorems,
        TLAPS

------------------------------------------------------------------------------
(* The references of entities                                              *)

(* The lemmas on references of StatefulReferenceChecker_proofs, for the    *)
(* entities of the updates.                                                *)

(* What an entity satisfies depends on its key alone, so a caller may pass  *)
(* a key without its action to RemoveEntity, and an update changes nothing  *)
(* of what the entity satisfies.                                            *)
LEMMA SameKeySatisfiesSame ==
  ASSUME NEW d, NEW e, Key(d) = Key(e)
  PROVE  SatisfiedReferences(d) = SatisfiedReferences(e) /\ (SatisfiedOk(d) <=> SatisfiedOk(e))
<1>1. d.kind = e.kind /\ d.table = e.table /\ d.match = e.match
  BY DEF Key
<1>2. IncomingTableReferences(d) = IncomingTableReferences(e)
  BY <1>1 DEF IncomingTableReferences
<1>3. \A frs : FieldsReferredTo(frs, d) = FieldsReferredTo(frs, e)
  BY <1>1 DEF FieldsReferredTo
<1>4. ASSUME NEW tr
      PROVE  PossibleIncomingConcreteTableReferences(tr, d) =
             PossibleIncomingConcreteTableReferences(tr, e)
  <2>1. PossibleMatchPartials(tr, d) = PossibleMatchPartials(tr, e)
    BY <1>3 DEF PossibleMatchPartials
  <2>2. PossibleActionPartials(tr, d) = PossibleActionPartials(tr, e)
    BY <1>3 DEF PossibleActionPartials
  <2> QED
    BY <2>1, <2>2 DEF PossibleIncomingConcreteTableReferences
<1>5. SatisfiedReferences(d) = SatisfiedReferences(e)
  BY <1>2, <1>4, Zenon DEF SatisfiedReferences
<1>6. SatisfiedOk(d) <=> SatisfiedOk(e)
  BY <1>1, <1>2 DEF SatisfiedOk, IsSupportedEntity, IncomingOk, HasReferableMatch
<1> QED
  BY <1>5, <1>6

------------------------------------------------------------------------------
(* The values an entity gives to a set of field references are those the    *)
(* destination enumerates, once both agree on every value.                  *)
LEMMA AgreeingFieldsAreEnumerated ==
  ASSUME NEW d, NEW frs, NEW values,
         \A fr \in frs : values[fr.source.name] = d.match[fr.destination.name]
  PROVE  {ConcreteField(fr, values[fr.source.name]) : fr \in frs} = FieldsReferredTo(frs, d)
BY DEF FieldsReferredTo

(* A reference of one entity is among those another entity says it can     *)
(* satisfy exactly when the other entity has the value of every field.     *)
LEMMA ReferenceMeetsWhenValuesAgree ==
  ASSUME NEW tr \in TableReferences, NEW s, NEW d, OutgoingOk(tr, s),
         NEW r \in OutgoingConcreteTableReferences(tr, s)
  PROVE  r \in PossibleIncomingConcreteTableReferences(tr, d) <=>
           \A f \in r.fields : d.match[f.destination_field.name] = f.value
<1> DEFINE match == PartialReferenceFromMatch(tr, s)
           present == {fr \in MatchReferences(tr) : fr.source.name \in DOMAIN s.match}
           Agrees(fields) == \A f \in fields : d.match[f.destination_field.name] = f.value
<1>1. PICK a \in PartialReferencesFromActions(tr, s) :
        r = ConcreteTable(tr, a \cup match) /\ a \cup match # {}
  BY DEF OutgoingConcreteTableReferences
<1>2. r.fields = a \cup match
  BY <1>1 DEF ConcreteTable
<1>3. \A frs : Agrees(FieldsReferredTo(frs, d))
  BY DEF FieldsReferredTo, ConcreteField
<1>4. ASSUME r \in PossibleIncomingConcreteTableReferences(tr, d)
      PROVE  Agrees(r.fields)
  <2>0. PICK fields \in {m \cup b : m \in PossibleMatchPartials(tr, d),
                                   b \in PossibleActionPartials(tr, d)} :
          r = ConcreteTable(tr, fields)
    BY <1>4 DEF PossibleIncomingConcreteTableReferences
  <2>1. PICK m \in PossibleMatchPartials(tr, d), b \in PossibleActionPartials(tr, d) :
          fields = m \cup b
    OBVIOUS
  <2>2. r.fields = m \cup b
    BY <2>0, <2>1 DEF ConcreteTable
  <2>3. Agrees({})
    OBVIOUS
  <2> HIDE DEF Agrees
  <2>4. Agrees(m)
    <3>1. PICK p \in SUBSET OptionalReferences(tr) :
            m = FieldsReferredTo((MatchReferences(tr) \ OptionalReferences(tr)) \cup p, d)
      BY DEF PossibleMatchPartials
    <3> QED
      BY <1>3, <3>1
  <2>5. Agrees(b)
    BY <1>3, <2>3 DEF PossibleActionPartials
  <2>6. Agrees(m \cup b)
    BY <2>4, <2>5 DEF Agrees
  <2> QED
    BY <2>2, <2>6
<1>5. ASSUME Agrees(r.fields)
      PROVE  r \in PossibleIncomingConcreteTableReferences(tr, d)
  <2>1. match \in PossibleMatchPartials(tr, d)
    <3>1. \A fr \in present : ConcreteField(fr, s.match[fr.source.name]) \in r.fields
      BY <1>2 DEF PartialReferenceFromMatch
    <3>2. \A fr \in present : s.match[fr.source.name] = d.match[fr.destination.name]
      BY <1>5, <3>1 DEF ConcreteField
    <3>3. match = FieldsReferredTo(present, d)
      BY <3>2, AgreeingFieldsAreEnumerated DEF PartialReferenceFromMatch
    <3>4. MatchReferences(tr) \ OptionalReferences(tr) \subseteq present
      BY DEF OutgoingOk, HasReferableMatch, OptionalReferences
    <3>5. present = (MatchReferences(tr) \ OptionalReferences(tr))
                      \cup (present \cap OptionalReferences(tr))
      BY <3>4 DEF OptionalReferences
    <3> QED
      BY <3>3, <3>5 DEF PossibleMatchPartials
  <2>2. a \in PossibleActionPartials(tr, d)
    <3>1. CASE a = {}
      BY <3>1 DEF PossibleActionPartials
    <3>2. CASE a # {}
      <4>1. PICK i \in s.actions : a = PartialReferenceFromAction(tr, i)
        BY <3>2 DEF PartialReferencesFromActions
      <4>2. \A fr \in ActionReferences(tr, i.action) :
              ConcreteField(fr, i.params[fr.source.name]) \in r.fields
        BY <1>2, <4>1 DEF PartialReferenceFromAction
      <4>3. \A fr \in ActionReferences(tr, i.action) :
              i.params[fr.source.name] = d.match[fr.destination.name]
        BY <1>5, <4>2 DEF ConcreteField
      <4>4. a = FieldsReferredTo(ActionReferences(tr, i.action), d)
        BY <4>1, <4>3, AgreeingFieldsAreEnumerated DEF PartialReferenceFromAction
      <4>5. ActionReferences(tr, i.action) # {}
        BY <3>2, <4>1 DEF PartialReferenceFromAction
      <4>6. i.action \in SourceActions(tr)
        BY <4>5 DEF ActionReferences, SourceActions, MatchReferences
      <4> QED
        BY <4>4, <4>6 DEF PossibleActionPartials
    <3> QED
      BY <3>1, <3>2
  <2> QED
    BY <1>1, <2>1, <2>2 DEF PossibleIncomingConcreteTableReferences
<1> QED
  BY <1>4, <1>5

(* An entity satisfies a reference exactly when it is in the destination    *)
(* table of the reference and has the values it asks for.                  *)
LEMMA SatisfiesWhenValuesAgree ==
  ASSUME NEW s, NEW d, NeededOk(s), NEW r \in NeededReferences(s)
  PROVE  r \in SatisfiedReferences(d) <=>
           /\ d.table = r.destination_table
           /\ \A f \in r.fields : d.match[f.destination_field.name] = f.value
<1>1. PICK tr \in OutgoingTableReferences(s) : r \in OutgoingConcreteTableReferences(tr, s)
  BY DEF NeededReferences
<1>2. tr \in TableReferences /\ OutgoingOk(tr, s)
  BY DEF OutgoingTableReferences, NeededOk
<1>3. r.source_table = tr.source /\ r.destination_table = tr.destination
  BY <1>1 DEF OutgoingConcreteTableReferences, ConcreteTable
<1>4. r \in PossibleIncomingConcreteTableReferences(tr, d) <=>
        \A f \in r.fields : d.match[f.destination_field.name] = f.value
  BY <1>1, <1>2, ReferenceMeetsWhenValuesAgree
<1>5. ASSUME NEW t \in TableReferences, r \in PossibleIncomingConcreteTableReferences(t, d)
      PROVE  t = tr
  <2>1. r.source_table = t.source /\ r.destination_table = t.destination
    BY <1>5 DEF PossibleIncomingConcreteTableReferences, ConcreteTable
  <2> QED
    BY <1>2, <1>3, <2>1, GroupedByTables
<1>6. r \in SatisfiedReferences(d) <=>
        d.table = tr.destination /\ r \in PossibleIncomingConcreteTableReferences(tr, d)
  BY <1>2, <1>5 DEF SatisfiedReferences, IncomingTableReferences
<1> QED
  BY <1>3, <1>4, <1>6

(* Needed references lead from the entity's table, satisfied ones to it;    *)
(* table references climb in rank, so no entity satisfies its own needs.   *)
LEMMA NeverSatisfiesItself ==
  ASSUME NEW s, NEW d, NEW r, r \in NeededReferences(s), r \in SatisfiedReferences(d)
  PROVE  /\ s.table \in Tables /\ d.table \in Tables
         /\ DependencyRank[s.table] < DependencyRank[d.table]
<1>1. PICK tr \in OutgoingTableReferences(s) : r \in OutgoingConcreteTableReferences(tr, s)
  BY DEF NeededReferences
<1>2. PICK t \in IncomingTableReferences(d) : r \in PossibleIncomingConcreteTableReferences(t, d)
  BY DEF SatisfiedReferences
<1>3. r.source_table = tr.source /\ r.destination_table = tr.destination
  BY <1>1 DEF OutgoingConcreteTableReferences, ConcreteTable
<1>4. r.source_table = t.source /\ r.destination_table = t.destination
  BY <1>2 DEF PossibleIncomingConcreteTableReferences, ConcreteTable
<1> QED
  BY <1>3, <1>4, RankAssumption DEF OutgoingTableReferences, IncomingTableReferences

(* A finite nonempty set has an element of lowest rank.                     *)
LEMMA LowestRank ==
  ASSUME NEW S, IsFiniteSet(S), S # {}, NEW rank \in [S -> Int]
  PROVE  \E k \in S : \A j \in S : ~ (rank[j] < rank[k])
<1> DEFINE Lower(k) == {j \in S : rank[j] < rank[k]}
           T == {Lower(k) : k \in S}
<1>1. IsWellFoundedOn(StrictSubsetOrdering(S), SUBSET S)
  BY FS_StrictSubsetOrderingWellFounded, FS_FiniteSubsetsOfFinite
<1>2. \A k \in S : Lower(k) \in SUBSET S
  OBVIOUS
<1> HIDE DEF Lower
<1>3. T \subseteq SUBSET S /\ T # {}
  BY <1>2
<1> HIDE DEF T
<1>4. PICK U \in T : \A V \in T : ~ (<<V, U>> \in StrictSubsetOrdering(S))
  BY <1>1, <1>3, WFMin
<1>5. PICK k \in S : U = Lower(k)
  BY DEF T
<1>6. ASSUME NEW j \in S, rank[j] < rank[k]
      PROVE  FALSE
  <2>1. Lower(j) \subseteq Lower(k) /\ j \in Lower(k) /\ j \notin Lower(j)
    BY <1>6 DEF Lower
  <2>2. <<Lower(j), Lower(k)>> \in StrictSubsetOrdering(S)
    BY <1>2, <2>1 DEF StrictSubsetOrdering
  <2>3. Lower(j) \in T
    BY DEF T
  <2> QED
    BY <1>4, <1>5, <2>2, <2>3
<1> QED
  BY <1>6

------------------------------------------------------------------------------
(* Sequencing of one request.                                              *)

InEdges(v, edges) == {u \in Indices : <<u, v>> \in edges}

(* The updates found to be roots that are in no batch yet.                  *)
Waiting == IF pc = "clear" THEN new_roots ELSE roots

Cleared == Batched \ expanding

(* Nothing has been sequenced.                                              *)
Fresh ==
  /\ graph = {} /\ roots = {} /\ expanding = {} /\ new_roots = {}
  /\ batches = << >>
  /\ pushed = [v \in Indices |-> 0]

(* The graph has the dependencies on updates whose edges were not removed;  *)
(* an update has been pushed exactly if no edge into it is left.            *)
GraphInv ==
  /\ graph = {edge \in Dependencies : edge[1] \notin Cleared}
  /\ \A v \in Indices : pushed[v] = IF InEdges(v, graph) = {} THEN 1 ELSE 0
  /\ \A v \in Indices : InEdges(v, graph) = {} <=> v \in Batched \cup Waiting
  /\ Waiting \cap Batched = {}

BatchesInv ==
  /\ \A m, n \in DOMAIN batches : m # n => batches[m] \cap batches[n] = {}
  /\ DependenciesComeFirst
  /\ NoBatchIsLate
  /\ pc = "clear" => batches # << >> /\ roots = batches[Len(batches)]
  /\ batches # << >> =>
       \A v \in Waiting : \E u \in batches[Len(batches)] : <<u, v>> \in Dependencies

Types ==
  /\ Len(updates) \in Nat
  /\ batches \in Seq(SUBSET Indices)
  /\ TypeOK
  /\ pc # "clear" => expanding = {}

IInv ==
  /\ Types
  /\ pc = "build" \/ status = "MALFORMED" => Fresh
  /\ pc \in {"batch", "clear"} \/ status = "OK" => GraphInv /\ BatchesInv
  /\ status = "OK" => Batched = Indices
  /\ NeverCyclic

LEMMA InDegreeZeroOrOne ==
  ASSUME Len(updates) \in Nat, NEW v, NEW edges
  PROVE  /\ InDegree(v, edges) = 0 <=> InEdges(v, edges) = {}
         /\ InDegree(v, edges) = 1 <=> \E u \in Indices : InEdges(v, edges) = {u}
  <1>1. IsFiniteSet(Indices)
    BY FS_Interval DEF Indices
  <1>2. IsFiniteSet(InEdges(v, edges)) /\ InDegree(v, edges) = Cardinality(InEdges(v, edges))
    BY <1>1, FS_Subset DEF InEdges, InDegree
  <1>3. Cardinality(InEdges(v, edges)) = 0 <=> InEdges(v, edges) = {}
    BY <1>2, FS_EmptySet
  <1>4. Cardinality(InEdges(v, edges)) = 1 <=> \E u : InEdges(v, edges) = {u}
    BY <1>2, FS_Singleton
  <1>5. \A u : InEdges(v, edges) = {u} => u \in Indices
    BY DEF InEdges
  <1> QED
    BY <1>2, <1>3, <1>4, <1>5

LEMMA InitEstablishesInvariant == Init => IInv
  <1> SUFFICES ASSUME Init PROVE IInv
    OBVIOUS
  <1>1. Fresh /\ Len(updates) \in Nat /\ pc = "build" /\ status = "none"
    BY UpdateListsAreFinite DEF Init, Fresh
  <1>2. DOMAIN batches = {} /\ batches \in Seq(SUBSET Indices)
    BY <1>1 DEF Fresh
  <1>3. TypeOK
    BY <1>1, <1>2 DEF TypeOK, Fresh
  <1> QED
    BY <1>1, <1>2, <1>3 DEF IInv, Types, Fresh, NeverCyclic

LEMMA UnchangedUpdates ==
  ASSUME UNCHANGED updates
  PROVE  Indices' = Indices /\ Dependencies' = Dependencies
  BY DEF Indices, Dependencies

LEMMA BuildPreservesInvariant == IInv /\ BuildDependencyGraph => IInv'
  <1> SUFFICES ASSUME IInv, BuildDependencyGraph PROVE IInv'
    OBVIOUS
  <1>1. /\ pc = "build" /\ Fresh /\ status = "none"
        /\ UNCHANGED <<updates, expanding, new_roots, batches>>
    BY DEF BuildDependencyGraph, IInv, Types, TypeOK
  <1>2. Indices' = Indices /\ Dependencies' = Dependencies /\ Len(updates) \in Nat
    BY <1>1, UnchangedUpdates DEF IInv, Types
  <1>3. batches' = << >> /\ DOMAIN batches' = {} /\ Batched' = {}
    BY <1>1 DEF Fresh, Batched
  <1>4. CASE pc' = "returned" /\ status' = "MALFORMED" /\ UNCHANGED <<graph, roots, pushed>>
    <2>1. Fresh'
      BY <1>1, <1>2, <1>4 DEF Fresh
    <2>2. Types'
      BY <1>1, <1>2, <1>3, <1>4 DEF Types, TypeOK, IInv, Fresh
    <2> QED
      BY <1>4, <2>1, <2>2 DEF IInv, NeverCyclic
  <1>5. CASE /\ graph' = Dependencies
             /\ roots' = {v \in Indices : InDegree(v, Dependencies) = 0}
             /\ Push(roots')
             /\ pc' = "batch"
             /\ UNCHANGED status
    <2>1. roots' = {v \in Indices : InEdges(v, graph') = {}}
      BY <1>2, <1>5, InDegreeZeroOrOne
    <2>2. \A v \in Indices : InEdges(v, graph)' = InEdges(v, graph')
      BY <1>2 DEF InEdges
    <2>3. pushed' = [v \in Indices |-> IF v \in roots' THEN 1 ELSE 0]
      BY <1>1, <1>5 DEF Push, Fresh
    <2>4. Waiting' = roots' /\ Cleared' = {}
      BY <1>3, <1>5 DEF Waiting, Cleared
    <2>5. GraphInv'
      BY <1>2, <1>3, <1>5, <2>1, <2>2, <2>3, <2>4 DEF GraphInv
    <2>6. BatchesInv'
      BY <1>3, <1>5 DEF BatchesInv, DependenciesComeFirst, NoBatchIsLate
    <2>7. Types'
      BY <1>1, <1>2, <1>3, <1>5, <2>1, <2>3 DEF Types, TypeOK, Fresh
    <2> QED
      BY <1>1, <1>5, <2>5, <2>6, <2>7 DEF IInv, NeverCyclic
  <1> QED
    BY <1>4, <1>5 DEF BuildDependencyGraph

LEMMA StartBatchPreservesInvariant == IInv /\ StartBatch => IInv'
  <1> SUFFICES ASSUME IInv, StartBatch PROVE IInv'
    OBVIOUS
  <1>1. /\ pc = "batch" /\ roots # {} /\ pc' = "clear"
        /\ batches' = Append(batches, roots) /\ expanding' = roots /\ new_roots' = {}
        /\ UNCHANGED <<updates, graph, roots, pushed, status>>
    BY DEF StartBatch
  <1>2. Indices' = Indices /\ Dependencies' = Dependencies
    BY <1>1, UnchangedUpdates
  <1>3. GraphInv /\ BatchesInv /\ Types /\ TypeOK /\ NeverCyclic /\ expanding = {} /\ status = "none"
    BY <1>1 DEF IInv, Types, TypeOK
  <1>4. PICK N \in Nat : N = Len(batches)
    BY <1>3 DEF Types
  <1>5. /\ batches' \in Seq(SUBSET Indices)
        /\ DOMAIN batches = 1 .. N /\ DOMAIN batches' = 1 .. N + 1 /\ Len(batches') = N + 1
        /\ \A n \in 1 .. N : batches'[n] = batches[n]
        /\ batches'[N + 1] = roots
    BY <1>1, <1>3, <1>4 DEF Types, TypeOK
  <1>6. Batched' = Batched \cup roots
    BY <1>4, <1>5 DEF Batched
  <1>7. Waiting = roots /\ Waiting' = {} /\ Cleared = Batched /\ Cleared' = Batched
    BY <1>1, <1>3, <1>6 DEF Waiting, Cleared, GraphInv
  <1>8. \A v \in Indices : InEdges(v, graph)' = InEdges(v, graph)
    BY <1>1, <1>2 DEF InEdges
  <1>9. GraphInv'
    BY <1>1, <1>2, <1>3, <1>6, <1>7, <1>8 DEF GraphInv
  <1>10. \A m, n \in DOMAIN batches' : m # n => batches'[m] \cap batches'[n] = {}
    <2>1. \A n \in 1 .. N : batches[n] \cap roots = {}
      BY <1>3, <1>5, <1>7 DEF GraphInv, Batched
    <2> QED
      BY <1>3, <1>4, <1>5, <2>1 DEF BatchesInv
  <1>11. DependenciesComeFirst'
    <2> SUFFICES ASSUME NEW n \in 1 .. N + 1, NEW edge \in Dependencies, edge[2] \in batches'[n]
                 PROVE  \E m \in 1 .. n - 1 : edge[1] \in batches'[m]
      BY <1>2, <1>5 DEF DependenciesComeFirst
    <2>1. CASE n \in 1 .. N
      <3>1. PICK m \in 1 .. n - 1 : edge[1] \in batches[m]
        BY <1>3, <1>5, <2>1 DEF BatchesInv, DependenciesComeFirst
      <3> QED
        BY <1>4, <1>5, <2>1, <3>1
    <2>2. CASE n = N + 1
      <3>1. edge[2] \in roots /\ edge[2] \in Indices
        BY <1>3, <1>5, <2>2 DEF TypeOK
      <3>2. edge = <<edge[1], edge[2]>> /\ edge[1] \in Indices
        BY DEF Dependencies
      <3>3. InEdges(edge[2], graph) = {}
        BY <1>3, <1>7, <3>1 DEF GraphInv
      <3>4. edge \notin graph
        BY <3>2, <3>3 DEF InEdges
      <3>5. edge[1] \in Batched
        BY <1>3, <1>7, <3>4 DEF GraphInv
      <3>6. PICK m \in 1 .. N : edge[1] \in batches[m]
        BY <1>5, <3>5 DEF Batched
      <3> QED
        BY <1>4, <1>5, <2>2, <3>6
    <2> QED
      BY <1>4, <2>1, <2>2
  <1>12. NoBatchIsLate'
    <2> SUFFICES ASSUME NEW n \in 1 .. N + 1, n > 1, NEW v \in batches'[n]
                 PROVE  \E u \in batches'[n - 1] : <<u, v>> \in Dependencies
      BY <1>2, <1>5 DEF NoBatchIsLate
    <2>1. CASE n \in 1 .. N
      <3>1. n - 1 \in 1 .. N
        BY <1>4, <2>1
      <3> QED
        BY <1>3, <1>5, <2>1, <3>1 DEF BatchesInv, NoBatchIsLate
    <2>2. CASE n = N + 1
      <3>1. N \in 1 .. N /\ n - 1 = N /\ batches # << >>
        BY <1>4, <2>2
      <3> QED
        BY <1>3, <1>4, <1>5, <1>7, <2>2, <3>1 DEF BatchesInv
    <2>3. n \in 1 .. N \/ n = N + 1
      BY <1>4
    <2> QED
      BY <2>1, <2>2, <2>3
  <1>13. BatchesInv'
    BY <1>1, <1>4, <1>5, <1>7, <1>10, <1>11, <1>12 DEF BatchesInv
  <1>14. TypeOK'
    <2>1. \A n \in 1 .. N + 1 : batches'[n] \in (SUBSET Indices) \ {{}}
      BY <1>1, <1>3, <1>4, <1>5 DEF TypeOK
    <2> QED
      BY <1>1, <1>2, <1>3, <1>5, <2>1 DEF TypeOK
  <1>15. Types'
    BY <1>1, <1>2, <1>3, <1>5, <1>14 DEF Types
  <1> QED
    BY <1>1, <1>3, <1>9, <1>13, <1>15 DEF IInv, NeverCyclic

LEMMA ClearRootPreservesInvariant == IInv /\ ClearRoot => IInv'
  <1> SUFFICES ASSUME IInv, ClearRoot PROVE IInv'
    OBVIOUS
  <1>1. PICK root \in expanding :
          /\ new_roots' = new_roots \cup Released(root)
          /\ Push(Released(root))
          /\ graph' = {edge \in graph : edge[1] # root}
          /\ expanding' = expanding \ {root}
    BY DEF ClearRoot
  <1>2. pc = "clear" /\ UNCHANGED <<updates, pc, roots, batches, status>>
    BY DEF ClearRoot
  <1>3. Indices' = Indices /\ Dependencies' = Dependencies /\ Batched' = Batched
    BY <1>2, UnchangedUpdates DEF Batched
  <1>4. GraphInv /\ BatchesInv /\ Types /\ TypeOK /\ NeverCyclic /\ status = "none"
    BY <1>2 DEF IInv, Types, TypeOK
  <1>5. root \in Indices /\ root \in batches[Len(batches)] /\ root \in Batched
    <2>1. root \in Indices /\ roots = batches[Len(batches)] /\ batches # << >>
      BY <1>2, <1>4 DEF TypeOK, BatchesInv
    <2>2. Len(batches) \in DOMAIN batches
      BY <1>4, <2>1 DEF Types
    <2> QED
      BY <1>4, <2>1, <2>2 DEF Batched, TypeOK
  <1>6. \A v \in Indices : InEdges(v, graph)' = InEdges(v, graph) \ {root}
    BY <1>1, <1>3 DEF InEdges
  <1>7. Released(root) = {v \in Indices : InEdges(v, graph) = {root}}
    BY <1>4, <1>5, InDegreeZeroOrOne DEF Released, InEdges, Types
  <1>8. Waiting = new_roots /\ Waiting' = Waiting \cup Released(root) /\ Cleared' = Cleared \cup {root}
    BY <1>1, <1>2, <1>3, <1>5 DEF Waiting, Cleared
  <1>9. \A v \in Indices : pushed'[v] = pushed[v] + IF v \in Released(root) THEN 1 ELSE 0
    BY <1>1 DEF Push
  <1>10. GraphInv'
    <2>1. graph' = {edge \in Dependencies : edge[1] \notin Cleared'}
      BY <1>1, <1>4, <1>8 DEF GraphInv
    <2>2. ASSUME NEW v \in Indices
          PROVE  /\ pushed'[v] = IF InEdges(v, graph)' = {} THEN 1 ELSE 0
                 /\ InEdges(v, graph)' = {} <=> v \in Batched \cup Waiting'
      <3>1. CASE v \in Released(root)
        BY <1>4, <1>6, <1>7, <1>8, <1>9, <3>1 DEF GraphInv
      <3>2. CASE v \notin Released(root)
        <4>1. InEdges(v, graph) # {root}
          BY <1>7, <3>2
        <4>2. InEdges(v, graph)' = {} <=> InEdges(v, graph) = {}
          BY <1>6, <4>1
        <4>3. pushed[v] \in Nat
          BY <1>4 DEF TypeOK
        <4> QED
          BY <1>4, <1>8, <1>9, <3>2, <4>2, <4>3 DEF GraphInv
      <3> QED
        BY <3>1, <3>2
    <2>3. Released(root) \cap Batched = {}
      BY <1>4, <1>7 DEF GraphInv
    <2> QED
      BY <1>3, <1>4, <1>8, <2>1, <2>2, <2>3 DEF GraphInv
  <1>11. BatchesInv'
    <2>1. \A v \in Released(root) : <<root, v>> \in Dependencies
      BY <1>4, <1>7 DEF InEdges, GraphInv
    <2>2. \A v \in Waiting' : \E u \in batches[Len(batches)] : <<u, v>> \in Dependencies
      BY <1>2, <1>4, <1>5, <1>8, <2>1 DEF BatchesInv
    <2>3. DependenciesComeFirst' /\ NoBatchIsLate'
      BY <1>2, <1>3, <1>4 DEF BatchesInv, DependenciesComeFirst, NoBatchIsLate
    <2> QED
      BY <1>2, <1>3, <1>4, <2>2, <2>3 DEF BatchesInv
  <1>12. pushed' \in [Indices -> Nat]
    BY <1>1, <1>4 DEF Push, TypeOK
  <1>13. TypeOK'
    BY <1>1, <1>2, <1>3, <1>4, <1>7, <1>12 DEF TypeOK
  <1>14. Types'
    BY <1>2, <1>3, <1>4, <1>13 DEF Types
  <1> QED
    BY <1>2, <1>4, <1>10, <1>11, <1>14 DEF IInv, NeverCyclic

LEMMA SwapRootsPreservesInvariant == IInv /\ SwapRoots => IInv'
  <1> SUFFICES ASSUME IInv, SwapRoots PROVE IInv'
    OBVIOUS
  <1>1. /\ pc = "clear" /\ expanding = {} /\ roots' = new_roots /\ pc' = "batch"
        /\ UNCHANGED <<updates, graph, expanding, new_roots, batches, pushed, status>>
    BY DEF SwapRoots
  <1>2. Indices' = Indices /\ Dependencies' = Dependencies /\ Batched' = Batched
    BY <1>1, UnchangedUpdates DEF Batched
  <1>3. GraphInv /\ BatchesInv /\ Types /\ TypeOK /\ NeverCyclic /\ status = "none"
    BY <1>1 DEF IInv, Types, TypeOK
  <1>4. Waiting' = Waiting /\ Cleared' = Cleared
    BY <1>1, <1>2 DEF Waiting, Cleared
  <1>5. \A v \in Indices : InEdges(v, graph)' = InEdges(v, graph)
    BY <1>1, <1>2 DEF InEdges
  <1>6. GraphInv'
    BY <1>1, <1>2, <1>3, <1>4, <1>5 DEF GraphInv
  <1>7. BatchesInv'
    BY <1>1, <1>2, <1>3, <1>4 DEF BatchesInv, DependenciesComeFirst, NoBatchIsLate
  <1>8. Types'
    BY <1>1, <1>2, <1>3 DEF Types, TypeOK
  <1> QED
    BY <1>1, <1>3, <1>6, <1>7, <1>8 DEF IInv, NeverCyclic

(* Along an edge between deletions the rank of the table grows, along the   *)
(* other edges it falls.                                                    *)
Height(u) ==
  IF u.type = "DELETE" THEN DependencyRank[u.entity.table] ELSE - DependencyRank[u.entity.table]

LEMMA RefersUpwards ==
  ASSUME NEW e, NEW d, Refers(e, d)
  PROVE  /\ e.table \in Tables /\ d.table \in Tables
         /\ DependencyRank[e.table] < DependencyRank[d.table]
  <1>1. PICK value \in ReferredValues(e) : value \in IndexedValues(d)
    BY DEF Refers
  <1>2. PICK ref \in RefersTo : value[1] = ref.table /\ ref.table = d.table
    BY <1>1 DEF IndexedValues
  <1>3. PICK used \in RefersTo : value[1] = used.table /\ used.source = e.table
    BY <1>1 DEF ReferredValues, MatchReferredValues, InvocationReferredValues
  <1>4. PICK tr \in TableReferences : used.source = tr.source /\ used.table = tr.destination
    BY DEF RefersTo
  <1> QED
    BY <1>2, <1>3, <1>4, RankAssumption

LEMMA DependenciesAreAscending ==
  ASSUME NEW edge \in Dependencies
  PROVE  /\ Height(updates[edge[1]]) \in Int /\ Height(updates[edge[2]]) \in Int
         /\ Height(updates[edge[1]]) < Height(updates[edge[2]])
  <1> DEFINE u == updates[edge[1]]
             v == updates[edge[2]]
  <1>1. Precedes(u, v)
    BY DEF Dependencies
  <1> HIDE DEF u, v
  <1>2. CASE v.type # "DELETE" /\ u.type # "DELETE" /\ Refers(v.entity, u.entity)
    <2>1. /\ u.entity.table \in Tables /\ v.entity.table \in Tables
          /\ DependencyRank[v.entity.table] < DependencyRank[u.entity.table]
      BY <1>2, RefersUpwards
    <2>2. DependencyRank[u.entity.table] \in Int /\ DependencyRank[v.entity.table] \in Int
      BY <2>1, RankAssumption
    <2>3. Height(u) = - DependencyRank[u.entity.table] /\ Height(v) = - DependencyRank[v.entity.table]
      BY <1>2 DEF Height
    <2> QED
      BY <2>1, <2>2, <2>3 DEF u, v
  <1>3. CASE v.type = "DELETE" /\ u.type = "DELETE" /\ Refers(u.entity, v.entity)
    <2>1. /\ u.entity.table \in Tables /\ v.entity.table \in Tables
          /\ DependencyRank[u.entity.table] < DependencyRank[v.entity.table]
      BY <1>3, RefersUpwards
    <2>2. DependencyRank[u.entity.table] \in Int /\ DependencyRank[v.entity.table] \in Int
      BY <2>1, RankAssumption
    <2>3. Height(u) = DependencyRank[u.entity.table] /\ Height(v) = DependencyRank[v.entity.table]
      BY <1>3 DEF Height
    <2> QED
      BY <2>1, <2>2, <2>3 DEF u, v
  <1> QED
    BY <1>1, <1>2, <1>3 DEF Precedes

(* A lowest update with an edge into it would have an edge from a lower one *)
(* that has edges into it as well.                                          *)
LEMMA NothingIsLeft ==
  ASSUME IInv, pc = "batch", roots = {}
  PROVE  graph = {} /\ Batched = Indices
  <1>1. GraphInv /\ Types /\ TypeOK /\ expanding = {} /\ Waiting = {}
    BY DEF IInv, Types, Waiting
  <1>2. Cleared = Batched
    BY <1>1 DEF Cleared
  <1> DEFINE Stuck == {v \in Indices : InEdges(v, graph) # {}}
             low == [v \in Stuck |-> Height(updates[v])]
  <1>3. \A v \in Stuck : \E u \in Stuck : <<u, v>> \in Dependencies
    <2> SUFFICES ASSUME NEW v \in Stuck PROVE \E u \in Stuck : <<u, v>> \in Dependencies
      OBVIOUS
    <2>1. PICK u \in Indices : <<u, v>> \in graph
      BY DEF InEdges
    <2>2. <<u, v>> \in Dependencies /\ u \notin Batched
      BY <1>1, <1>2, <2>1 DEF GraphInv
    <2>3. u \in Stuck
      BY <1>1, <2>2 DEF GraphInv
    <2> QED
      BY <2>2, <2>3
  <1>4. IsFiniteSet(Stuck)
    <2>1. IsFiniteSet(Indices)
      BY <1>1, FS_Interval DEF Indices, Types
    <2> QED
      BY <2>1, FS_Subset
  <1>5. \A u, v \in Stuck : <<u, v>> \in Dependencies =>
          low[u] \in Int /\ low[v] \in Int /\ low[u] < low[v]
    BY DependenciesAreAscending
  <1>6. low \in [Stuck -> Int]
    BY <1>3, <1>5
  <1> HIDE DEF low
  <1>7. Stuck = {}
    <2> HIDE DEF Stuck
    <2> QED
      BY <1>3, <1>4, <1>5, <1>6, LowestRank
  <1>8. Batched = Indices
    <2>1. Indices \subseteq Batched
      BY <1>1, <1>7 DEF GraphInv
    <2>2. Batched \subseteq Indices
      BY <1>1 DEF Batched, TypeOK
    <2> QED
      BY <2>1, <2>2
  <1>9. graph = {}
    BY <1>1, <1>2, <1>8 DEF GraphInv, Dependencies
  <1> QED
    BY <1>8, <1>9

LEMMA ReturnPreservesInvariant == IInv /\ Return => IInv'
  <1> SUFFICES ASSUME IInv, Return PROVE IInv'
    OBVIOUS
  <1>1. pc = "batch" /\ roots = {} /\ pc' = "returned"
        /\ UNCHANGED <<updates, graph, roots, expanding, new_roots, batches, pushed>>
    BY DEF Return
  <1>2. Batched = Indices /\ status' = "OK"
    BY <1>1, NothingIsLeft DEF Return
  <1>3. Indices' = Indices /\ Dependencies' = Dependencies /\ Batched' = Batched
    BY <1>1, UnchangedUpdates DEF Batched
  <1>4. GraphInv /\ BatchesInv /\ Types /\ TypeOK
    BY <1>1 DEF IInv, Types
  <1>5. Waiting' = Waiting /\ Cleared' = Cleared
    BY <1>1, <1>3 DEF Waiting, Cleared
  <1>6. \A v \in Indices : InEdges(v, graph)' = InEdges(v, graph)
    BY <1>1, <1>3 DEF InEdges
  <1>7. GraphInv'
    BY <1>1, <1>3, <1>4, <1>5, <1>6 DEF GraphInv
  <1>8. BatchesInv'
    BY <1>1, <1>3, <1>4, <1>5 DEF BatchesInv, DependenciesComeFirst, NoBatchIsLate
  <1>9. Types'
    BY <1>1, <1>2, <1>3, <1>4 DEF Types, TypeOK
  <1> QED
    BY <1>1, <1>2, <1>3, <1>7, <1>8, <1>9 DEF IInv, NeverCyclic

LEMMA StutterPreservesInvariant == IInv /\ UNCHANGED sequencerVars => IInv'
  <1> SUFFICES ASSUME IInv, UNCHANGED sequencerVars PROVE IInv'
    OBVIOUS
  <1>1. UNCHANGED <<updates, pc, graph, roots, expanding, new_roots, batches, pushed, status>>
    BY DEF sequencerVars
  <1>2. Indices' = Indices /\ Dependencies' = Dependencies /\ Batched' = Batched
    BY <1>1, UnchangedUpdates DEF Batched
  <1>3. Waiting' = Waiting /\ Cleared' = Cleared
    BY <1>1, <1>2 DEF Waiting, Cleared
  <1>4. \A v \in Indices : InEdges(v, graph)' = InEdges(v, graph)
    BY <1>1, <1>2 DEF InEdges
  <1>5. Fresh' = Fresh /\ GraphInv' = GraphInv
    BY <1>1, <1>2, <1>3, <1>4 DEF Fresh, GraphInv
  <1>6. BatchesInv' = BatchesInv
    BY <1>1, <1>2, <1>3 DEF BatchesInv, DependenciesComeFirst, NoBatchIsLate
  <1>7. Types' = Types
    BY <1>1, <1>2 DEF Types, TypeOK
  <1> QED
    BY <1>1, <1>2, <1>5, <1>6, <1>7 DEF IInv, NeverCyclic

------------------------------------------------------------------------------
(* The invariant the properties below follow from.                          *)
THEOREM InvariantHolds == Spec => []IInv
  <1>1. Init => IInv
    BY InitEstablishesInvariant
  <1>2. IInv /\ [Next]_sequencerVars => IInv'
    BY BuildPreservesInvariant, StartBatchPreservesInvariant, ClearRootPreservesInvariant,
       SwapRootsPreservesInvariant, ReturnPreservesInvariant, StutterPreservesInvariant
       DEF Next
  <1> QED
    BY <1>1, <1>2, PTL DEF Spec

(* Every variable of the sequencer keeps its type.                          *)
THEOREM TypeCorrect == Spec => []TypeOK
  <1>1. IInv => TypeOK
    BY DEF IInv, Types
  <1> QED
    BY <1>1, InvariantHolds, PTL

(* Whatever the updates, none is put into two batches, and none is missing  *)
(* when the batches are returned.                                           *)
THEOREM NothingLostOrRepeated == Spec => []EveryUpdateSentOnce
  <1>1. IInv => EveryUpdateSentOnce
    <2> SUFFICES ASSUME IInv PROVE EveryUpdateSentOnce
      OBVIOUS
    <2>1. TypeOK /\ NeverCyclic
      BY DEF IInv, Types
    <2>2. CASE Fresh
      BY <2>2 DEF Fresh, EveryUpdateSentOnce, IInv, Types, TypeOK
    <2>3. CASE GraphInv /\ BatchesInv
      BY <2>3 DEF GraphInv, BatchesInv, EveryUpdateSentOnce, IInv
    <2> QED
      BY <2>1, <2>2, <2>3 DEF IInv, TypeOK, NeverCyclic
  <1> QED
    BY <1>1, InvariantHolds, PTL

LEMMA InvariantOrdersBatches == IInv => DependenciesComeFirst /\ NoBatchIsLate
  <1>1. Fresh => DependenciesComeFirst /\ NoBatchIsLate
    BY DEF Fresh, DependenciesComeFirst, NoBatchIsLate
  <1> QED
    BY <1>1 DEF IInv, BatchesInv, Types, TypeOK, NeverCyclic

(* Whatever the updates, what a batch depends on is in an earlier batch.    *)
THEOREM BatchesAreOrdered == Spec => []DependenciesComeFirst
  BY InvariantOrdersBatches, InvariantHolds, PTL

(* Whatever the updates, one that is not in the first batch depends on one  *)
(* of the batch before its own: there are no more batches than needed.      *)
THEOREM BatchesAreFew == Spec => []NoBatchIsLate
  BY InvariantOrdersBatches, InvariantHolds, PTL

(* The check for a cycle at the end of the loop never fails for a program   *)
(* whose tables are ranked: when no root is left, no edge is left.          *)
THEOREM CyclesAreImpossible == Spec => []NeverCyclic
  <1>1. IInv => NeverCyclic
    BY DEF IInv
  <1> QED
    BY <1>1, InvariantHolds, PTL

------------------------------------------------------------------------------
(* Requests sent one batch after the other.                                *)

------------------------------------------------------------------------------
(* What the server looks at, and what the sequencer looks at               *)

(* Update `first' has to come before `second', by the references that the   *)
(* server checks.                                                           *)
MustPrecede(first, second) ==
  \/ /\ first.type = "INSERT" /\ second.type \in {"INSERT", "MODIFY"}
     /\ NeededReferences(second.entity) \cap SatisfiedReferences(first.entity) # {}
  \/ /\ first.type = "DELETE" /\ second.type = "DELETE"
     /\ NeededReferences(first.entity) \cap SatisfiedReferences(second.entity) # {}

(* A reference between two table entries shows in the single fields the     *)
(* sequencer compares.                                                      *)
LEMMA SatisfiedReferencesShow ==
  ASSUME NEW e, NEW d, NeededOk(e), SatisfiedOk(d), CanBeSequenced(e), CanBeSequenced(d),
         NEW r, r \in NeededReferences(e), r \in SatisfiedReferences(d)
  PROVE  Refers(e, d)
<1>1. PICK tr \in OutgoingTableReferences(e) : r \in OutgoingConcreteTableReferences(tr, e)
  BY DEF NeededReferences
<1>2. tr \in TableReferences /\ tr.source = e.table /\ OutgoingOk(tr, e)
  BY DEF OutgoingTableReferences, NeededOk
<1>3. PICK a \in PartialReferencesFromActions(tr, e) :
        /\ r = ConcreteTable(tr, a \cup PartialReferenceFromMatch(tr, e))
        /\ a \cup PartialReferenceFromMatch(tr, e) # {}
  BY <1>1 DEF OutgoingConcreteTableReferences
<1>4. /\ r.fields = a \cup PartialReferenceFromMatch(tr, e)
      /\ r.destination_table = tr.destination
  BY <1>3 DEF ConcreteTable
<1>5. /\ d.table = tr.destination
      /\ \A f \in r.fields : d.match[f.destination_field.name] = f.value
  BY <1>4, SatisfiesWhenValuesAgree
<1>6. ASSUME NEW fr \in tr.fields
      PROVE  /\ [source |-> tr.source, field |-> fr.source, table |-> tr.destination,
                 match_field |-> fr.destination.name] \in RefersTo
             /\ HasMatchValue(d, fr.destination.name)
  <2>1. {tr.source, tr.destination} \cap BuiltInTables = {}
    BY <1>2, <1>5 DEF CanBeSequenced
  <2>2. tr \in IncomingTableReferences(d)
    BY <1>2, <1>5 DEF IncomingTableReferences
  <2>3. HasReferableMatch(d, fr.destination) /\ ~fr.destination.optional
    BY <2>2 DEF SatisfiedOk, IncomingOk, IsSupported
  <2> QED
    BY <1>2, <2>1, <2>3 DEF RefersTo, HasMatchValue, HasReferableMatch
<1>7. \A fr \in tr.fields :
        <<tr.destination, fr.destination.name, d.match[fr.destination.name]>> \in IndexedValues(d)
  <2> SUFFICES ASSUME NEW fr \in tr.fields
               PROVE  <<tr.destination, fr.destination.name, d.match[fr.destination.name]>>
                        \in IndexedValues(d)
    OBVIOUS
  <2>1. PICK ref \in RefersTo : ref.table = tr.destination /\ ref.match_field = fr.destination.name
    BY <1>6
  <2> QED
    BY <1>5, <1>6, <2>1 DEF IndexedValues
<1>8. CASE PartialReferenceFromMatch(tr, e) # {}
  <2>1. PICK fr \in MatchReferences(tr) :
          /\ fr.source.name \in DOMAIN e.match
          /\ ConcreteField(fr, e.match[fr.source.name]) \in r.fields
    BY <1>4, <1>8 DEF PartialReferenceFromMatch
  <2>2. fr \in tr.fields /\ fr.source.kind = "match" /\ HasMatchValue(e, fr.source.name)
    BY <1>2, <2>1 DEF MatchReferences, OutgoingOk, HasReferableMatch, HasMatchValue
  <2>3. d.match[fr.destination.name] = e.match[fr.source.name]
    BY <1>5, <2>1 DEF ConcreteField
  <2>4. <<tr.destination, fr.destination.name, e.match[fr.source.name]>> \in MatchReferredValues(e)
    <3>1. PICK ref \in RefersTo : /\ ref.source = tr.source /\ ref.field = fr.source
                                 /\ ref.table = tr.destination
                                 /\ ref.match_field = fr.destination.name
      BY <1>6, <2>2
    <3> QED
      BY <1>2, <2>2, <3>1 DEF MatchReferredValues
  <2> QED
    BY <1>7, <2>2, <2>3, <2>4 DEF Refers, ReferredValues
<1>9. CASE a # {}
  <2>1. PICK i \in e.actions : a = PartialReferenceFromAction(tr, i)
    BY <1>9 DEF PartialReferencesFromActions
  <2>2. PICK fr \in ActionReferences(tr, i.action) :
          ConcreteField(fr, i.params[fr.source.name]) \in r.fields
    BY <1>4, <1>9, <2>1 DEF PartialReferenceFromAction
  <2>3. /\ fr \in tr.fields /\ fr.source.kind = "action" /\ fr.source.action = i.action
        /\ fr.source.name \in DOMAIN i.params
    BY <1>2 DEF ActionReferences, OutgoingOk
  <2>4. d.match[fr.destination.name] = i.params[fr.source.name]
    BY <1>5, <2>2 DEF ConcreteField
  <2>5. <<tr.destination, fr.destination.name, i.params[fr.source.name]>>
          \in InvocationReferredValues(e, i)
    <3>1. PICK ref \in RefersTo : /\ ref.source = tr.source /\ ref.field = fr.source
                                 /\ ref.table = tr.destination
                                 /\ ref.match_field = fr.destination.name
      BY <1>6, <2>3
    <3> QED
      BY <1>2, <2>3, <3>1 DEF InvocationReferredValues
  <2> QED
    BY <1>7, <2>3, <2>4, <2>5 DEF Refers, ReferredValues
<1> QED
  BY <1>3, <1>8, <1>9

LEMMA MustPrecedeIsRecorded ==
  ASSUME BuildsUpOrTearsDown, NEW i \in Indices, NEW j \in Indices,
         MustPrecede(updates[j], updates[i])
  PROVE  <<j, i>> \in Dependencies
<1>1. /\ NeededOk(updates[i].entity) /\ SatisfiedOk(updates[i].entity)
      /\ NeededOk(updates[j].entity) /\ SatisfiedOk(updates[j].entity)
      /\ CanBeSequenced(updates[i].entity) /\ CanBeSequenced(updates[j].entity)
  BY DEF BuildsUpOrTearsDown, MakesSense
<1>2. \/ NeededReferences(updates[i].entity) \cap SatisfiedReferences(updates[j].entity) = {}
      \/ Refers(updates[i].entity, updates[j].entity)
  BY <1>1, SatisfiedReferencesShow
<1>3. \/ NeededReferences(updates[j].entity) \cap SatisfiedReferences(updates[i].entity) = {}
      \/ Refers(updates[j].entity, updates[i].entity)
  BY <1>1, SatisfiedReferencesShow
<1> QED
  BY <1>2, <1>3 DEF MustPrecede, Precedes, Dependencies

------------------------------------------------------------------------------
(* Tables on the way                                                       *)

(* What is assumed of the table before anything is sent.                    *)
BeforeOk ==
  /\ before = [k \in DOMAIN before |-> before[k]]
  /\ \A k \in DOMAIN before : Key(before[k]) = k
  /\ Server!NothingDangles(before)

(* What has to come before the updates of `done' is in `done'.              *)
Closed(done) ==
  \A i \in done : \A j \in Indices : MustPrecede(updates[j], updates[i]) => j \in done

(* Client and server read references in the same way.                      *)
LEMMA ServerReadsReferences ==
  ASSUME NEW e
  PROVE  /\ Server!NeededReferences(e) = NeededReferences(e)
         /\ Server!SatisfiedReferences(e) = SatisfiedReferences(e)
         /\ Server!NeededOk(e) <=> NeededOk(e)
         /\ Server!SatisfiedOk(e) <=> SatisfiedOk(e)
         /\ Server!HasKey(e) <=> HasKey(e)
         /\ Server!Key(e) = Key(e)
<1>1. Server!NeededReferences(e) = NeededReferences(e)
  BY DEF NeededReferences, Server!NeededReferences,
         OutgoingTableReferences, Server!OutgoingTableReferences,
         OutgoingConcreteTableReferences, Server!OutgoingConcreteTableReferences,
         PartialReferencesFromActions, Server!PartialReferencesFromActions,
         PartialReferenceFromAction, Server!PartialReferenceFromAction,
         PartialReferenceFromMatch, Server!PartialReferenceFromMatch,
         MatchReferences, Server!MatchReferences,
         ActionReferences, Server!ActionReferences,
         ConcreteField, Server!ConcreteField,
         ConcreteTable, Server!ConcreteTable
<1>2. Server!SatisfiedReferences(e) = SatisfiedReferences(e)
  BY DEF SatisfiedReferences, Server!SatisfiedReferences,
         IncomingTableReferences, Server!IncomingTableReferences,
         PossibleIncomingConcreteTableReferences, Server!PossibleIncomingConcreteTableReferences,
         PossibleMatchPartials, Server!PossibleMatchPartials,
         PossibleActionPartials, Server!PossibleActionPartials,
         FieldsReferredTo, Server!FieldsReferredTo,
         OptionalReferences, Server!OptionalReferences,
         SourceActions, Server!SourceActions,
         MatchReferences, Server!MatchReferences,
         ActionReferences, Server!ActionReferences,
         ConcreteField, Server!ConcreteField,
         ConcreteTable, Server!ConcreteTable
<1>3. Server!NeededOk(e) <=> NeededOk(e)
  BY DEF NeededOk, Server!NeededOk,
         IsSupportedEntity, Server!IsSupportedEntity,
         OutgoingTableReferences, Server!OutgoingTableReferences,
         OutgoingOk, Server!OutgoingOk,
         IsSupported, Server!IsSupported,
         HasReferableMatch, Server!HasReferableMatch,
         MatchReferences, Server!MatchReferences,
         ActionReferences, Server!ActionReferences
<1>4. Server!SatisfiedOk(e) <=> SatisfiedOk(e)
  BY DEF SatisfiedOk, Server!SatisfiedOk,
         IsSupportedEntity, Server!IsSupportedEntity,
         IncomingTableReferences, Server!IncomingTableReferences,
         IncomingOk, Server!IncomingOk,
         IsSupported, Server!IsSupported,
         HasReferableMatch, Server!HasReferableMatch
<1>5. (Server!HasKey(e) <=> HasKey(e)) /\ Server!Key(e) = Key(e)
  BY DEF HasKey, Server!HasKey,
         Key, Server!Key
<1> QED
  BY <1>1, <1>2, <1>3, <1>4, <1>5

LEMMA ServerFindsUnsatisfied ==
  ASSUME NEW entities
  PROVE  Server!UnsatisfiedOutgoingReferences(entities) = UnsatisfiedOutgoingReferences(entities)
BY ServerReadsReferences DEF UnsatisfiedOutgoingReferences, Server!UnsatisfiedOutgoingReferences

LEMMA NothingDanglesIfSatisfied ==
  ASSUME NEW store
  PROVE  Server!NothingDangles(store) <=>
           \A k \in DOMAIN store : \A r \in NeededReferences(store[k]) :
             \E l \in DOMAIN store : r \in SatisfiedReferences(store[l])
<1> DEFINE entities == Server!Image(store)
<1>1. Server!NothingDangles(store) <=> UnsatisfiedOutgoingReferences(entities) = {}
  BY ServerFindsUnsatisfied DEF Server!NothingDangles
<1>2. UnsatisfiedOutgoingReferences(entities) = {} <=>
        \A e \in entities :
          NeededReferences(e) \subseteq UNION {SatisfiedReferences(d) : d \in entities}
  BY DEF UnsatisfiedOutgoingReferences
<1> QED
  BY <1>1, <1>2 DEF Server!Image

(* Keys of different updates differ, so the table has what was written last. *)
LEMMA TableHasWhatWasWritten ==
  ASSUME MakesSense, NEW done \in SUBSET Indices, NEW i \in done,
         updates[i].type \in {"INSERT", "MODIFY"}
  PROVE  /\ Key(updates[i].entity) \in DOMAIN TableAfter(done)
         /\ TableAfter(done)[Key(updates[i].entity)] = updates[i].entity
<1> DEFINE key == Key(updates[i].entity)
           writer == CHOOSE j \in done : Key(updates[j].entity) = key
<1>1. writer = i
  BY DEF MakesSense
<1>2. key \in Updated("INSERT", done) \cup Updated("MODIFY", done)
  BY DEF Updated
<1>3. key \notin Updated("DELETE", done)
  BY DEF Updated, MakesSense
<1>4. key \in DOMAIN before \/ key \in Updated("INSERT", done)
  BY DEF MakesSense, Updated
<1> QED
  BY <1>1, <1>2, <1>3, <1>4 DEF TableAfter

LEMMA TableHasWhatWasThere ==
  ASSUME NEW done \in SUBSET Indices,
         NEW k \in DOMAIN TableAfter(done), k \notin Updated("INSERT", done) \cup Updated("MODIFY", done)
  PROVE  k \in DOMAIN before /\ TableAfter(done)[k] = before[k]
  BY DEF TableAfter

LEMMA WriterOf ==
  ASSUME NEW done \in SUBSET Indices, NEW type, NEW k \in Updated(type, done)
  PROVE  \E i \in done : updates[i].type = type /\ Key(updates[i].entity) = k
  BY DEF Updated

(* An entry keeps its key while its action is modified.                     *)
LEMMA KeysAreKept ==
  ASSUME BeforeOk, MakesSense, NEW done \in SUBSET Indices, NEW k \in DOMAIN TableAfter(done)
  PROVE  Key(TableAfter(done)[k]) = k
<1>1. CASE k \in Updated("INSERT", done) \cup Updated("MODIFY", done)
  <2>1. PICK i \in done : updates[i].type \in {"INSERT", "MODIFY"} /\ Key(updates[i].entity) = k
    BY <1>1, WriterOf
  <2> QED
    BY <2>1, TableHasWhatWasWritten
<1>2. CASE k \notin Updated("INSERT", done) \cup Updated("MODIFY", done)
  BY <1>2, TableHasWhatWasThere DEF BeforeOk
<1> QED
  BY <1>1, <1>2

LEMMA NothingDanglesWhileBuilding ==
  ASSUME BeforeOk, BuildsUpOrTearsDown, "DELETE" \notin UpdateTypes,
         NEW done \in SUBSET Indices, Closed(done)
  PROVE  Server!NothingDangles(TableAfter(done))
<1> DEFINE table == TableAfter(done)
           final == TableAfter(Indices)
<1>1. MakesSense /\ Server!NothingDangles(final)
  BY DEF BuildsUpOrTearsDown
<1>2. \A S \in SUBSET Indices : DOMAIN TableAfter(S) = DOMAIN before \cup Updated("INSERT", S)
  BY DEF UpdateTypes, TableAfter, Updated
<1>3. \A k \in DOMAIN before : /\ k \in DOMAIN table
                             /\ SatisfiedReferences(table[k]) = SatisfiedReferences(before[k])
  BY <1>1, <1>2, KeysAreKept, SameKeySatisfiesSame DEF BeforeOk
<1> SUFFICES ASSUME NEW k \in DOMAIN table, NEW r \in NeededReferences(table[k])
             PROVE  \E l \in DOMAIN table : r \in SatisfiedReferences(table[l])
  BY NothingDanglesIfSatisfied
<1>4. CASE k \notin Updated("INSERT", done) \cup Updated("MODIFY", done)
  <2>1. k \in DOMAIN before /\ table[k] = before[k]
    BY <1>4, TableHasWhatWasThere
  <2>2. PICK l \in DOMAIN before : r \in SatisfiedReferences(before[l])
    BY <2>1, NothingDanglesIfSatisfied DEF BeforeOk
  <2> QED
    BY <1>3, <2>2
<1>5. CASE k \in Updated("INSERT", done) \cup Updated("MODIFY", done)
  <2>1. PICK i \in done : updates[i].type \in {"INSERT", "MODIFY"} /\ Key(updates[i].entity) = k
    BY <1>5, WriterOf
  <2>2. table[k] = updates[i].entity /\ k \in DOMAIN final /\ final[k] = updates[i].entity
    BY <1>1, <2>1, TableHasWhatWasWritten
  <2>3. PICK l \in DOMAIN final : r \in SatisfiedReferences(final[l])
    BY <1>1, <2>2, NothingDanglesIfSatisfied
  <2>4. CASE l \in DOMAIN before
    <3>1. Key(final[l]) = l /\ Key(before[l]) = l
      BY <1>1, <2>4, KeysAreKept DEF BeforeOk
    <3>2. r \in SatisfiedReferences(before[l])
      BY <2>3, <3>1, SameKeySatisfiesSame
    <3> QED
      BY <1>3, <2>4, <3>2
  <2>5. CASE l \in Updated("INSERT", Indices)
    <3>1. PICK j \in Indices : updates[j].type = "INSERT" /\ Key(updates[j].entity) = l
      BY <2>5, WriterOf
    <3>2. final[l] = updates[j].entity
      BY <1>1, <3>1, TableHasWhatWasWritten
    <3>3. MustPrecede(updates[j], updates[i])
      BY <2>1, <2>2, <2>3, <3>1, <3>2 DEF MustPrecede
    <3>4. j \in done
      BY <3>3 DEF Closed
    <3>5. l \in DOMAIN table /\ table[l] = updates[j].entity
      BY <1>1, <3>1, <3>4, TableHasWhatWasWritten
    <3> QED
      BY <2>3, <3>2, <3>5
  <2> QED
    BY <1>2, <2>3, <2>4, <2>5
<1> QED
  BY <1>4, <1>5

LEMMA NothingDanglesWhileTearingDown ==
  ASSUME BeforeOk, BuildsUpOrTearsDown, UpdateTypes = {"DELETE"},
         NEW done \in SUBSET Indices, Closed(done)
  PROVE  Server!NothingDangles(TableAfter(done))
<1> DEFINE table == TableAfter(done)
           final == TableAfter(Indices)
<1>1. MakesSense /\ Server!NothingDangles(final)
  BY DEF BuildsUpOrTearsDown
<1>2. \A S \in SUBSET Indices : TableAfter(S) = [k \in DOMAIN before \ Updated("DELETE", S) |-> before[k]]
  <2>1. \A S \in SUBSET Indices : Updated("INSERT", S) = {} /\ Updated("MODIFY", S) = {}
    BY DEF UpdateTypes, Updated
  <2> QED
    BY <2>1 DEF TableAfter
<1>6. /\ table = [k \in DOMAIN before \ Updated("DELETE", done) |-> before[k]]
      /\ final = [k \in DOMAIN before \ Updated("DELETE", Indices) |-> before[k]]
  BY <1>2
<1> HIDE DEF table, final
<1>3. DOMAIN final \subseteq DOMAIN table
  BY <1>6 DEF Updated
<1> SUFFICES ASSUME NEW k \in DOMAIN table, NEW r \in NeededReferences(table[k])
             PROVE  \E l \in DOMAIN table : r \in SatisfiedReferences(table[l])
  BY NothingDanglesIfSatisfied DEF table
<1>4. CASE k \in DOMAIN final
  <2>1. r \in NeededReferences(final[k])
    BY <1>4, <1>6
  <2>2. PICK l \in DOMAIN final : r \in SatisfiedReferences(final[l])
    BY <1>1, <1>4, <2>1, NothingDanglesIfSatisfied
  <2> QED
    BY <1>3, <1>6, <2>2
<1>5. CASE k \notin DOMAIN final
  <2>1. k \in DOMAIN before /\ table[k] = before[k] /\ k \in Updated("DELETE", Indices)
    BY <1>5, <1>6
  <2>2. PICK i \in Indices : updates[i].type = "DELETE" /\ Key(updates[i].entity) = k
    BY <2>1, WriterOf
  <2>3. before[k] = updates[i].entity /\ i \notin done
    BY <1>1, <1>6, <2>2 DEF MakesSense, Updated
  <2>4. PICK l \in DOMAIN before : r \in SatisfiedReferences(before[l])
    BY <2>1, NothingDanglesIfSatisfied DEF BeforeOk
  <2>5. ASSUME l \in Updated("DELETE", done)
        PROVE  FALSE
    <3>1. PICK j \in done : updates[j].type = "DELETE" /\ Key(updates[j].entity) = l
      BY <2>5, WriterOf
    <3>2. before[l] = updates[j].entity
      BY <1>1, <3>1 DEF MakesSense
    <3>3. MustPrecede(updates[i], updates[j])
      BY <2>1, <2>2, <2>3, <2>4, <3>1, <3>2 DEF MustPrecede
    <3> QED
      BY <2>3, <3>3 DEF Closed
  <2> QED
    BY <1>6, <2>4, <2>5
<1> QED
  BY <1>4, <1>5

(* However far the updates have come, as long as none came too early.       *)
THEOREM NothingDanglesOnTheWay ==
  ASSUME BeforeOk, BuildsUpOrTearsDown, NEW done \in SUBSET Indices, Closed(done)
  PROVE  Server!NothingDangles(TableAfter(done))
BY NothingDanglesWhileBuilding, NothingDanglesWhileTearingDown DEF BuildsUpOrTearsDown

------------------------------------------------------------------------------
(* What the server decides                                                 *)

LEMMA WrittenOrThere ==
  ASSUME MakesSense, NEW done \in SUBSET Indices, NEW i \in Indices, i \notin done,
         NEW k, k # Key(updates[i].entity)
  PROVE  \A type : k \in Updated(type, done \cup {i}) <=> k \in Updated(type, done)
BY DEF Updated

LEMMA OthersAreKept ==
  ASSUME MakesSense, NEW done \in SUBSET Indices, NEW i \in Indices, i \notin done,
         NEW k, k # Key(updates[i].entity)
  PROVE  /\ k \in DOMAIN TableAfter(done \cup {i}) <=> k \in DOMAIN TableAfter(done)
         /\ k \in DOMAIN TableAfter(done) => TableAfter(done \cup {i})[k] = TableAfter(done)[k]
<1>1. k \in DOMAIN TableAfter(done \cup {i}) <=> k \in DOMAIN TableAfter(done)
  BY WrittenOrThere DEF TableAfter
<1>2. CASE k \in Updated("INSERT", done) \cup Updated("MODIFY", done)
  <2>1. PICK j \in done : updates[j].type \in {"INSERT", "MODIFY"} /\ Key(updates[j].entity) = k
    BY <1>2, WriterOf
  <2> QED
    BY <1>1, <2>1, TableHasWhatWasWritten
<1>3. CASE k \notin Updated("INSERT", done) \cup Updated("MODIFY", done)
  <2>1. k \notin Updated("INSERT", done \cup {i}) \cup Updated("MODIFY", done \cup {i})
    BY <1>3, WrittenOrThere
  <2> QED
    BY <1>1, <1>3, <2>1, TableHasWhatWasThere
<1> QED
  BY <1>1, <1>2, <1>3

LEMMA TableWith ==
  ASSUME MakesSense, NEW done \in SUBSET Indices, NEW i \in Indices, i \notin done,
         updates[i].type \in {"INSERT", "MODIFY"}
  PROVE  Server!With(TableAfter(done), updates[i].entity) = TableAfter(done \cup {i})
<1> DEFINE e == updates[i].entity
           old == TableAfter(done)
           new == TableAfter(done \cup {i})
           domain == DOMAIN old \cup {Key(e)}
<1>1. Server!With(old, e) = [k \in domain |-> IF k = Key(e) THEN e ELSE old[k]]
  BY ServerReadsReferences DEF Server!With
<1>2. Key(e) \in DOMAIN new /\ new[Key(e)] = e
  BY TableHasWhatWasWritten
<1>3. domain = DOMAIN new
  BY <1>2, OthersAreKept
<1>4. \A k \in domain : new[k] = IF k = Key(e) THEN e ELSE old[k]
  BY <1>2, <1>3, OthersAreKept
<1>5. new = [k \in DOMAIN new |-> new[k]]
  BY DEF TableAfter
<1> HIDE DEF e, old, new, domain
<1> QED
  BY <1>1, <1>3, <1>4, <1>5 DEF e, old, new

LEMMA TableWithout ==
  ASSUME MakesSense, NEW done \in SUBSET Indices, NEW i \in Indices, i \notin done,
         updates[i].type = "DELETE"
  PROVE  Server!Without(TableAfter(done), updates[i].entity) = TableAfter(done \cup {i})
<1> DEFINE e == updates[i].entity
           old == TableAfter(done)
           new == TableAfter(done \cup {i})
           domain == DOMAIN old \ {Key(e)}
<1>1. Server!Without(old, e) = [k \in domain |-> old[k]]
  BY ServerReadsReferences DEF Server!Without
<1>2. Key(e) \notin DOMAIN new
  BY DEF TableAfter, Updated
<1>3. domain = DOMAIN new
  BY <1>2, OthersAreKept
<1>4. \A k \in domain : new[k] = old[k]
  BY <1>3, OthersAreKept
<1>5. new = [k \in DOMAIN new |-> new[k]]
  BY DEF TableAfter
<1> HIDE DEF e, old, new, domain
<1> QED
  BY <1>1, <1>3, <1>4, <1>5 DEF e, old, new

(* An entry is there exactly when it was there or has been inserted.        *)
LEMMA InstalledBeforeUpdate ==
  ASSUME MakesSense, NEW done \in SUBSET Indices, NEW i \in Indices, i \notin done,
         installed = TableAfter(done)
  PROVE  /\ updates[i].type = "INSERT" => ~Server!IsInstalled(updates[i].entity)
         /\ updates[i].type # "INSERT" => Server!IsInstalled(updates[i].entity)
<1>1. HasKey(updates[i].entity)
  BY DEF MakesSense, SatisfiedOk, IsSupportedEntity, HasKey
<1>2. \A type : Key(updates[i].entity) \notin Updated(type, done)
  BY DEF MakesSense, Updated
<1>3. Key(updates[i].entity) \in DOMAIN installed <=> Key(updates[i].entity) \in DOMAIN before
  BY <1>2 DEF TableAfter
<1> QED
  BY <1>1, <1>3, ServerReadsReferences DEF Server!IsInstalled, MakesSense

Requested(i) ==
  \/ updates[i].type = "INSERT" /\ Server!Add(updates[i].entity)
  \/ updates[i].type = "MODIFY" /\ Server!Update(updates[i].entity)
  \/ updates[i].type = "DELETE" /\ Server!Remove(updates[i].entity)

LEMMA UpdateIsAccepted ==
  ASSUME BeforeOk, BuildsUpOrTearsDown, NEW done \in SUBSET Indices,
         NEW i \in Indices, i \notin done, Closed(done \cup {i}),
         installed = TableAfter(done), Requested(i)
  PROVE  installed' = TableAfter(done \cup {i}) /\ response'.status = "OK"
<1> DEFINE e == updates[i].entity
<1>1. MakesSense /\ NeededOk(e) /\ SatisfiedOk(e)
  BY DEF BuildsUpOrTearsDown, MakesSense
<1>2. Server!NothingDangles(TableAfter(done \cup {i}))
  BY NothingDanglesOnTheWay
<1>3. ASSUME NEW operation, Server!Attempt(operation, e, TableAfter(done \cup {i}))
      PROVE  installed' = TableAfter(done \cup {i}) /\ response'.status = "OK"
  BY <1>2, <1>3 DEF Server!Attempt, Server!Respond
<1>4. CASE updates[i].type = "INSERT" /\ Server!Add(e)
  <2>1. Server!Attempt("Add", e, Server!With(installed, e))
    BY <1>1, <1>4, InstalledBeforeUpdate, ServerReadsReferences DEF Server!Add
  <2> QED
    BY <1>1, <1>3, <1>4, <2>1, TableWith
<1>5. CASE updates[i].type = "MODIFY" /\ Server!Update(e)
  <2>1. Server!Attempt("Update", e, Server!With(installed, e))
    BY <1>1, <1>5, InstalledBeforeUpdate, ServerReadsReferences DEF Server!Update, Server!IsInstalled
  <2> QED
    BY <1>1, <1>3, <1>5, <2>1, TableWith
<1>6. CASE updates[i].type = "DELETE" /\ Server!Remove(e)
  <2>1. Server!Attempt("Remove", e, Server!Without(installed, e))
    BY <1>1, <1>6, InstalledBeforeUpdate DEF Server!Remove, Server!IsInstalled
  <2> QED
    BY <1>1, <1>3, <1>6, <2>1, TableWithout
<1> QED
  BY <1>4, <1>5, <1>6 DEF Requested

------------------------------------------------------------------------------
(* Cutting into pieces                                                     *)

LEMMA Division ==
  ASSUME NEW c \in Nat, NEW n \in Nat, n > 0
  PROVE  /\ c \div n \in Nat
         /\ (c \div n) * n <= c
         /\ c < (c \div n) * n + n
         /\ \A q \in Nat : q * n <= c /\ c < q * n + n => q = c \div n
BY SMT

LEMMA IntervalSize ==
  ASSUME NEW m \in Nat, NEW k \in Nat
  PROVE  Cardinality(m + 1 .. m + k) = k
<1>1. m + 1 \in Int /\ m + k \in Int
  OBVIOUS
<1>2. Cardinality(m + 1 .. m + k) = IF m + 1 > m + k THEN 0 ELSE m + k - (m + 1) + 1
  BY <1>1, FS_Interval
<1> QED
  BY <1>2

Piece(S, position, size, n) == {i \in S : position[i] \div size = n - 1}

(* The elements of a piece are those at `size' positions in a row, or at    *)
(* what is left of them at the end.                                         *)
LEMMA PieceIsInterval ==
  ASSUME NEW S, NEW N \in Nat, N > 0, NEW position \in Bijection(S, 0 .. N - 1),
         NEW size \in Nat, size > 0, NEW n \in 1 .. Ceiling(N, size)
  PROVE  LET last == IF n * size <= N THEN n * size - 1 ELSE N - 1
         IN  /\ [i \in Piece(S, position, size, n) |-> position[i]]
                  \in Bijection(Piece(S, position, size, n), ((n - 1) * size) .. last)
             /\ (n - 1) * size < N
<1> DEFINE last == IF n * size <= N THEN n * size - 1 ELSE N - 1
           piece == Piece(S, position, size, n)
           restricted == [i \in piece |-> position[i]]
<1>1. /\ position \in [S -> 0 .. N - 1]
      /\ \A i, j \in S : position[i] = position[j] => i = j
      /\ \A c \in 0 .. N - 1 : \E i \in S : position[i] = c
  BY DEF Bijection, Injection, Surjection, IsInjective
<1>2. PICK k \in Nat : n = k + 1
  BY DEF Ceiling
<1>3. k * size < N
  <2>1. k + 1 <= (N + size - 1) \div size
    BY <1>2 DEF Ceiling
  <2>2. N + size - 1 \in Nat
    OBVIOUS
  <2> DEFINE q == (N + size - 1) \div size
  <2>3. q \in Nat /\ q * size <= N + size - 1
    BY <2>2, Division
  <2> HIDE DEF q
  <2>4. (k + 1) * size <= q * size
    BY <2>1, <2>3 DEF q
  <2>5. (k + 1) * size = k * size + size /\ k * size \in Nat
    OBVIOUS
  <2> QED
    BY <2>3, <2>4, <2>5
<1>4. n * size = k * size + size /\ k * size \in Nat
  BY <1>2
<1>5. \A c \in 0 .. N - 1 : c \div size = k <=> c \in (k * size) .. last
  <2> SUFFICES ASSUME NEW c \in 0 .. N - 1
               PROVE  c \div size = k <=> c \in (k * size) .. last
    OBVIOUS
  <2>1. c \div size = k <=> k * size <= c /\ c < k * size + size
    BY Division
  <2> QED
    BY <1>3, <1>4, <2>1
<1>6. piece = {i \in S : position[i] \in (k * size) .. last}
  BY <1>1, <1>2, <1>5 DEF Piece
<1>7. (k * size) .. last \subseteq 0 .. N - 1
  BY <1>3, <1>4
<1> HIDE DEF last, piece
<1>8. restricted \in Bijection(piece, (k * size) .. last)
  BY <1>1, <1>6, <1>7 DEF Bijection, Injection, Surjection, IsInjective
<1> QED
  BY <1>2, <1>3, <1>8 DEF piece, last

(* Every element is in a piece, and no piece is empty or too long.          *)
LEMMA Pieces ==
  ASSUME NEW S, NEW N \in Nat, N > 0, NEW position \in Bijection(S, 0 .. N - 1),
         NEW size \in Nat, size > 0
  PROVE  /\ Ceiling(N, size) \in Nat
         /\ \A i \in S : \E n \in 1 .. Ceiling(N, size) : i \in Piece(S, position, size, n)
         /\ \A n \in 1 .. Ceiling(N, size) :
              /\ Piece(S, position, size, n) # {}
              /\ Cardinality(Piece(S, position, size, n)) <= size
<1> DEFINE last(n) == IF n * size <= N THEN n * size - 1 ELSE N - 1
           count == Ceiling(N, size)
<1>1. position \in [S -> 0 .. N - 1]
  BY DEF Bijection, Injection
<1>2. N + size - 1 \in Nat /\ count = (N + size - 1) \div size
  BY DEF Ceiling
<1>3. /\ count \in Nat /\ count * size <= N + size - 1
      /\ N + size - 1 < count * size + size
  BY <1>2, Division
<1> HIDE DEF count
<1>4. ASSUME NEW i \in S
      PROVE  \E n \in 1 .. count : i \in Piece(S, position, size, n)
  <2>1. position[i] \in Nat /\ position[i] <= N - 1
    BY <1>1
  <2> DEFINE q == position[i] \div size
  <2>2. q \in Nat /\ q * size <= position[i]
    BY <2>1, Division
  <2>3. i \in Piece(S, position, size, q + 1)
    BY <2>2 DEF Piece
  <2> HIDE DEF q
  <2>4. q * size < count * size
    BY <1>3, <2>1, <2>2
  <2>5. q < count
    BY <1>3, <2>2, <2>4
  <2> QED
    BY <1>3, <2>2, <2>3, <2>5
<1>5. ASSUME NEW n \in 1 .. count
      PROVE  /\ Piece(S, position, size, n) # {}
             /\ Cardinality(Piece(S, position, size, n)) <= size
  <2> DEFINE piece == Piece(S, position, size, n)
             from == (n - 1) * size
  <2>1. /\ [i \in piece |-> position[i]] \in Bijection(piece, from .. last(n))
        /\ from < N
    BY PieceIsInterval DEF count
  <2>2. n \in Nat /\ n * size = from + size /\ from \in Nat /\ n * size \in Nat
    BY <1>3
  <2>3. last(n) \in Int /\ from <= last(n) /\ last(n) < from + size
    BY <2>1, <2>2
  <2> HIDE DEF piece, from, last
  <2>5. ExistsBijection(from .. last(n), piece)
    BY <2>1, Fun_ExistsBijSymmetric DEF ExistsBijection
  <2>6. Cardinality(piece) = last(n) - from + 1
    BY <2>2, <2>3, <2>5, FS_Interval, FS_Bijection
  <2>7. piece # {}
    BY <2>2, <2>3, <2>6, FS_EmptySet
  <2> QED
    BY <2>2, <2>3, <2>6, <2>7 DEF piece
<1> QED
  BY <1>3, <1>4, <1>5 DEF count

(* What is in an earlier piece has a lower position.                        *)
LEMMA PiecesAreInOrder ==
  ASSUME NEW S \in SUBSET Nat, NEW position \in [S -> Nat],
         \A i, j \in S : i <= j => position[i] <= position[j],
         NEW size \in Nat, size > 0, NEW m \in Nat, NEW n \in Nat, m < n,
         NEW i \in Piece(S, position, size, m), NEW j \in Piece(S, position, size, n)
  PROVE  i < j
<1>1. i \in S /\ j \in S /\ position[i] \in Nat /\ position[j] \in Nat
  BY DEF Piece
<1>2. position[i] \div size = m - 1 /\ position[j] \div size = n - 1
  BY DEF Piece
<1>3. m - 1 \in Nat /\ n - 1 \in Nat
  BY <1>1, <1>2, Division
<1>4. position[i] < (m - 1) * size + size
  BY <1>1, <1>2, Division
<1>5. (n - 1) * size <= position[j]
  BY <1>1, <1>2, Division
<1>6. (m - 1) * size + size <= (n - 1) * size
  <2>1. (m - 1) * size + size = m * size
    OBVIOUS
  <2>2. n - 1 = m + (n - 1 - m) /\ n - 1 - m \in Nat
    OBVIOUS
  <2>3. m * size <= (n - 1) * size
    BY <1>3, <2>2
  <2> QED
    BY <2>1, <2>3
<1>7. position[i] < position[j]
  <2>1. (m - 1) * size \in Int /\ (n - 1) * size \in Int
    OBVIOUS
  <2> QED
    BY <1>1, <1>4, <1>5, <1>6, <2>1
<1> QED
  BY <1>1, <1>7

(* The positions of the updates of a batch are numbered from 0.             *)
LEMMA PositionIsBijection ==
  ASSUME NEW batch \in SUBSET Nat, IsFiniteSet(batch)
  PROVE  [i \in batch |-> Cardinality({j \in batch : j < i})] \in Bijection(batch, 0 .. Cardinality(batch) - 1)
<1> DEFINE below(i) == {j \in batch : j < i}
           N == Cardinality(batch)
           position == [i \in batch |-> Cardinality(below(i))]
<1>1. N \in Nat
  BY FS_CardinalityType
<1>0. \A i \in batch : i \in Nat
  OBVIOUS
<1>2. \A i \in batch : below(i) \in SUBSET batch /\ i \notin below(i) /\ below(i) \cup {i} \in SUBSET batch
  BY <1>0
<1>3. ASSUME NEW i \in batch, NEW j \in batch, i < j
      PROVE  below(i) \cup {i} \in SUBSET below(j)
  <2>1. \A k \in batch : k < i => k < j
    BY <1>0, <1>3
  <2> QED
    BY <1>3, <2>1
<1>9. \A i, j \in batch : i = j \/ i < j \/ j < i
  BY <1>0
<1> HIDE DEF below
<1>7. ASSUME NEW i \in batch
      PROVE  /\ IsFiniteSet(below(i)) /\ Cardinality(below(i)) \in Nat
             /\ Cardinality(below(i)) \in 0 .. N - 1
             /\ Cardinality(below(i) \cup {i}) = Cardinality(below(i)) + 1
  <2>1. IsFiniteSet(below(i))
    BY <1>2, FS_Subset
  <2>2. Cardinality(below(i) \cup {i}) = Cardinality(below(i)) + 1
    BY <1>2, <2>1, FS_AddElement
  <2>3. Cardinality(below(i) \cup {i}) <= N
    BY <1>2, FS_Subset
  <2>4. Cardinality(below(i)) \in Nat
    BY <2>1, FS_CardinalityType
  <2> QED
    BY <1>1, <2>1, <2>2, <2>3, <2>4
<1>8. ASSUME NEW i \in batch, NEW j \in batch, i < j
      PROVE  Cardinality(below(i)) < Cardinality(below(j))
  <2>1. below(i) \cup {i} \in SUBSET below(j) /\ IsFiniteSet(below(j))
    BY <1>3, <1>7, <1>8
  <2>2. Cardinality(below(i) \cup {i}) <= Cardinality(below(j))
    BY <2>1, FS_Subset
  <2>3. Cardinality(below(i)) \in Nat /\ Cardinality(below(j)) \in Nat
    BY <1>7
  <2>4. Cardinality(below(i) \cup {i}) = Cardinality(below(i)) + 1
    BY <1>7
  <2> HIDE DEF N, position
  <2> QED
    BY <2>2, <2>3, <2>4
<1>10. \A i, j \in batch : Cardinality(below(i)) = Cardinality(below(j)) => i = j
  <2> SUFFICES ASSUME NEW i \in batch, NEW j \in batch, i # j
               PROVE  Cardinality(below(i)) # Cardinality(below(j))
    OBVIOUS
  <2>1. Cardinality(below(i)) \in Nat /\ Cardinality(below(j)) \in Nat
    BY <1>7
  <2>2. Cardinality(below(i)) < Cardinality(below(j)) \/ Cardinality(below(j)) < Cardinality(below(i))
    BY <1>8, <1>9
  <2> HIDE DEF N, position
  <2> QED
    BY <2>1, <2>2
<1>4. position \in Injection(batch, 0 .. N - 1)
  BY <1>7, <1>10 DEF Injection, IsInjective
<1>5. IsFiniteSet(0 .. N - 1) /\ Cardinality(0 .. N - 1) = N
  <2> HIDE DEF N
  <2>1. 0 \in Int /\ N - 1 \in Int
    BY <1>1
  <2> QED
    BY <1>1, <2>1, FS_Interval
<1>6. position \in Surjection(batch, 0 .. N - 1)
  BY <1>4, <1>5, FS_Injection
<1> QED
  BY <1>4, <1>6 DEF Bijection, below

(* The requests for a batch have all of it, each update once and in order,  *)
(* and are as few as can be.                                                *)
LEMMA CutPieces ==
  ASSUME Len(updates) \in Nat, MaximumOk, maximum = Unlimited \/ maximum \in Int,
         NEW batch \in SUBSET Indices, batch # {}
  PROVE  /\ Cut(batch) \in Seq(SUBSET Indices)
         /\ \A i \in batch : \E n \in DOMAIN Cut(batch) : i \in Cut(batch)[n]
         /\ \A n \in DOMAIN Cut(batch) :
              /\ Cut(batch)[n] \subseteq batch
              /\ Cut(batch)[n] # {}
              /\ maximum # Unlimited => Cardinality(Cut(batch)[n]) <= maximum
         /\ \A m, n \in DOMAIN Cut(batch) : m # n => Cut(batch)[m] \cap Cut(batch)[n] = {}
         /\ \A m, n \in DOMAIN Cut(batch) : m < n =>
              \A i \in Cut(batch)[m], j \in Cut(batch)[n] : i < j
         /\ Len(Cut(batch)) = Needed(batch)
<1>1. CASE maximum = Unlimited
  <2>1. Cut(batch) = <<batch>>
    BY <1>1 DEF Cut
  <2>2. <<batch>> \in Seq(SUBSET Indices) /\ DOMAIN <<batch>> = {1} /\ <<batch>>[1] = batch
    OBVIOUS
  <2>3. Len(<<batch>>) = 1 /\ Needed(batch) = 1
    BY <1>1 DEF Needed
  <2> QED
    BY <1>1, <2>1, <2>2, <2>3
<1>2. CASE maximum # Unlimited
  <2> DEFINE N == Cardinality(batch)
             position == [i \in batch |-> Cardinality({j \in batch : j < i})]
             count == Ceiling(N, maximum)
  <2>1. IsFiniteSet(batch) /\ batch \in SUBSET Nat
    <3>1. IsFiniteSet(Indices)
      BY FS_Interval DEF Indices
    <3>2. Indices \subseteq Nat
      BY DEF Indices
    <3> QED
      BY <3>1, <3>2, FS_Subset
  <2>2. position \in Bijection(batch, 0 .. N - 1)
    BY <2>1, PositionIsBijection
  <2>3. N \in Nat /\ N > 0
    BY <2>1, FS_CardinalityType, FS_EmptySet
  <2>4. maximum \in Nat /\ maximum > 0
    BY <1>2 DEF MaximumOk
  <2>5. /\ count \in Nat
        /\ \A i \in batch : \E n \in 1 .. count : i \in Piece(batch, position, maximum, n)
        /\ \A n \in 1 .. count :
             /\ Piece(batch, position, maximum, n) # {}
             /\ Cardinality(Piece(batch, position, maximum, n)) <= maximum
    <3> HIDE DEF position, N
    <3> QED
      BY <2>2, <2>3, <2>4, Pieces
  <2>6. Cut(batch) = [n \in 1 .. count |-> {i \in batch : Cardinality({j \in batch : j < i}) \div maximum = n - 1}]
    BY <1>2 DEF Cut
  <2>7. \A n : Piece(batch, position, maximum, n)
                = {i \in batch : Cardinality({j \in batch : j < i}) \div maximum = n - 1}
    BY DEF Piece
  <2>13. /\ position \in [batch -> Nat]
         /\ \A i, j \in batch : i <= j => position[i] <= position[j]
    <3>1. position \in [batch -> 0 .. N - 1]
      BY <2>2 DEF Bijection, Injection
    <3>2. ASSUME NEW i \in batch, NEW j \in batch, i <= j PROVE position[i] <= position[j]
      <4> DEFINE below(v) == {u \in batch : u < v}
      <4>1. below(i) \subseteq below(j) /\ below(j) \subseteq batch
        <5>1. i \in Nat /\ j \in Nat /\ \A u \in batch : u \in Nat
          BY <2>1
        <5>2. \A u \in batch : u < i => u < j
          BY <3>2, <5>1
        <5> QED
          BY <5>2
      <4>2. IsFiniteSet(below(j))
        BY <2>1, <4>1, FS_Subset
      <4> HIDE DEF below
      <4>3. Cardinality(below(i)) <= Cardinality(below(j))
        BY <4>1, <4>2, FS_Subset
      <4> QED
        BY <4>3 DEF below
    <3> HIDE DEF position
    <3> QED
      BY <2>3, <3>1, <3>2
  <2> HIDE DEF position
  <2>14. count = Needed(batch)
    BY <1>2 DEF Needed
  <2> HIDE DEF count
  <2>8. Cut(batch) = [n \in 1 .. count |-> Piece(batch, position, maximum, n)]
    BY <2>6, <2>7
  <2>9. \A n \in 1 .. count : Piece(batch, position, maximum, n) \in SUBSET batch
    BY DEF Piece
  <2>10. \A m, n \in 1 .. count : m # n =>
           Piece(batch, position, maximum, m) \cap Piece(batch, position, maximum, n) = {}
    BY <2>5 DEF Piece
  <2>11. DOMAIN Cut(batch) = 1 .. count /\ Len(Cut(batch)) = count /\ Cut(batch) \in Seq(SUBSET Indices)
    BY <2>5, <2>8, <2>9
  <2>12. \A n \in 1 .. count : Cut(batch)[n] = Piece(batch, position, maximum, n)
    BY <2>8
  <2>15. \A m, n \in 1 .. count : m < n =>
           \A i \in Piece(batch, position, maximum, m), j \in Piece(batch, position, maximum, n) : i < j
    BY <2>1, <2>4, <2>5, <2>13, PiecesAreInOrder
  <2> QED
    BY <2>5, <2>9, <2>10, <2>11, <2>12, <2>14, <2>15
<1> QED
  BY <1>1, <1>2

------------------------------------------------------------------------------
(* The invariant                                                           *)

Sorted == pc = "sorted"
Extracted == pc = "extracted"

(* A situation that can be, and where the client is in it.                  *)
Situation ==
  /\ Len(updates) \in Nat
  /\ maximum = Unlimited \/ maximum \in Int
  /\ BeforeOk
  /\ \/ pc \in {"build", "batch", "clear", "returned"} /\ status # "INVALID_MAXIMUM" /\ IInv
     \/ Sorted /\ batches = << >> /\ maximum = Unlimited
     \/ Extracted /\ batches = << >>
     \/ pc = "returned" /\ status = "INVALID_MAXIMUM" /\ batches = << >>
  /\ pc # "build" /\ ~Sorted /\ ~Extracted /\ status # "INVALID_MAXIMUM" => MaximumOk

Placed(i) == \E n \in DOMAIN requests : i \in requests[n]

RequestsOf(part) == {n \in DOMAIN requests : requests[n] \subseteq part}

(* Requests are formed batch by batch, and sent when all are formed.        *)
FormedInv ==
  /\ formed \in 0 .. Len(batches)
  /\ requests \in Seq(SUBSET Indices)
  /\ formed > 0 => pc = "returned" /\ status = "OK"
  /\ ~Sorted /\ ~Extracted =>
       /\ formed = 0 => requests = << >>
       /\ \A n \in DOMAIN requests : \E b \in 1 .. formed : requests[n] \subseteq batches[b]
       /\ \A b \in 1 .. formed : \A i \in batches[b] : Placed(i)
       /\ \A b \in 1 .. formed : Cardinality(RequestsOf(batches[b])) = Needed(batches[b])

(* Every way to make requests repeats nothing and keeps the order, and the  *)
(* other two leave nothing out, either.                                     *)
CutInv ==
  /\ \A m, n \in DOMAIN requests : m # n => requests[m] \cap requests[n] = {}
  /\ \A m, n \in DOMAIN requests : m < n =>
       \A i \in requests[m], j \in requests[n] : InTurn(i, j)
  /\ \A n \in DOMAIN requests :
       /\ maximum # Unlimited => Cardinality(requests[n]) <= maximum
       /\ requests[n] = {} => Extracted /\ Indices = {}
  /\ Sorted \/ (Extracted /\ status # "INVALID_MAXIMUM") => \A i \in Indices : Placed(i)
  /\ Extracted /\ status # "INVALID_MAXIMUM" =>
       Len(requests) = IF Indices = {} THEN 1 ELSE Needed(Indices)

(* No update is in a request before what it needs.                          *)
OrderInv ==
  ~Extracted /\ BuildsUpOrTearsDown =>
    \A n \in DOMAIN requests : \A i \in requests[n] : \A j \in Indices :
      MustPrecede(updates[j], updates[i]) => \E m \in 1 .. n - 1 : j \in requests[m]

Done == (UNION {requests[n] : n \in 1 .. sent}) \ pending

(* The server's table is the one after the updates it has looked at.        *)
ServerInv ==
  /\ sent \in 0 .. Len(requests)
  /\ formed < Len(batches) => sent = 0
  /\ IF sent = 0 THEN pending = {} ELSE pending \subseteq requests[sent]
  /\ ~Extracted /\ BuildsUpOrTearsDown =>
       installed = TableAfter(Done) /\ response.status = "OK"

WritesInv == Situation /\ FormedInv /\ CutInv /\ OrderInv /\ ServerInv

LEMMA SituationIsKept ==
  ASSUME UNCHANGED <<updates, before, maximum>>
  PROVE  /\ Indices' = Indices
         /\ BeforeOk' <=> BeforeOk
         /\ MaximumOk' <=> MaximumOk
         /\ \A done : TableAfter(done)' = TableAfter(done)
         /\ BuildsUpOrTearsDown' <=> BuildsUpOrTearsDown
<1>1. Indices' = Indices /\ (MaximumOk' <=> MaximumOk) /\ UpdateTypes' = UpdateTypes
  BY DEF Indices, MaximumOk, UpdateTypes
<1>2. BeforeOk' <=> BeforeOk
  BY DEF BeforeOk
<1>3. \A done : TableAfter(done)' = TableAfter(done)
  BY DEF TableAfter, Updated
<1>4. MakesSense' <=> MakesSense
  BY <1>1 DEF MakesSense
<1>5. TableAfter(Indices)' = TableAfter(Indices)
  BY <1>1 DEF TableAfter, Updated
<1>6. Server!NothingDangles(TableAfter(Indices))' <=> Server!NothingDangles(TableAfter(Indices))
  BY <1>5
<1> QED
  BY <1>1, <1>2, <1>3, <1>4, <1>6 DEF BuildsUpOrTearsDown

LEMMA InitEstablishesWrites == WritesInit => WritesInv
<1> SUFFICES ASSUME WritesInit PROVE WritesInv
  OBVIOUS
<1>1. PICK p \in Problems : updates = p.updates /\ before = p.before /\ maximum = p.maximum
  BY DEF WritesInit
<1>2. IInv /\ pc = "build" /\ status = "none" /\ Len(updates) \in Nat /\ batches = << >>
  BY InitEstablishesInvariant, UpdateListsAreFinite DEF WritesInit, Init
<1>3. /\ installed = before /\ requests = << >> /\ formed = 0 /\ sent = 0 /\ pending = {}
      /\ response.status = "OK"
  BY DEF WritesInit
<1>4. Server!NothingDangles(before)
  <2>0. {before[k] : k \in DOMAIN before} = {p.before[k] : k \in DOMAIN p.before}
    BY <1>1
  <2>1. UnsatisfiedOutgoingReferences({before[k] : k \in DOMAIN before}) = {}
    BY <2>0, ProblemsAreReal
  <2>2. Server!Image(before) = {before[k] : k \in DOMAIN before}
    BY DEF Server!Image
  <2> QED
    BY <2>1, <2>2, ServerFindsUnsatisfied DEF Server!NothingDangles
<1>5. BeforeOk /\ (maximum = Unlimited \/ maximum \in Int)
  BY <1>1, <1>4, ProblemsAreReal DEF BeforeOk
<1>6. Done = {}
  BY <1>3 DEF Done
<1>7. TableAfter({}) = before
  <2>1. \A type : Updated(type, {}) = {}
    BY DEF Updated
  <2> QED
    BY <1>5, <2>1 DEF TableAfter, BeforeOk
<1>8. DOMAIN requests = {} /\ Len(requests) = 0 /\ Len(batches) = 0 /\ requests \in Seq(SUBSET Indices)
  BY <1>2, <1>3
<1>9. Situation
  BY <1>2, <1>5 DEF Situation
<1>10. FormedInv
  BY <1>2, <1>3, <1>8 DEF FormedInv, Sorted, Extracted
<1>11. CutInv /\ OrderInv
  BY <1>2, <1>8 DEF CutInv, OrderInv, Sorted, Extracted
<1>12. ServerInv
  BY <1>2, <1>3, <1>6, <1>7, <1>8 DEF ServerInv
<1> QED
  BY <1>9, <1>10, <1>11, <1>12 DEF WritesInv

(* Steps of the sequencer: nothing is formed or sent yet.                   *)
LEMMA SequenceUpdatesKeeps == WritesInv /\ SequenceUpdates => WritesInv'
<1> SUFFICES ASSUME WritesInv, SequenceUpdates PROVE WritesInv'
  OBVIOUS
<1>1. Next /\ UNCHANGED writeVars /\ (pc = "build" => MaximumOk)
  BY DEF SequenceUpdates
<1>2. UNCHANGED <<before, maximum, formed, requests, sent, pending, installed, response>>
  BY <1>1 DEF writeVars
<1>3. /\ pc \in {"build", "batch", "clear"} /\ status' # "INVALID_MAXIMUM"
      /\ pc' \in {"batch", "clear", "returned"}
      /\ UNCHANGED updates
  <2>1. pc \in {"build", "batch", "clear"} /\ pc' \in {"batch", "clear", "returned"} /\ UNCHANGED updates
    BY <1>1 DEF Next, BuildDependencyGraph, StartBatch, ClearRoot, SwapRoots, Return
  <2>2. IInv /\ status # "INVALID_MAXIMUM"
    BY <2>1 DEF WritesInv, Situation, Sorted, Extracted
  <2>3. status' # "INVALID_MAXIMUM"
    BY <1>1, <2>2 DEF Next, BuildDependencyGraph, StartBatch, ClearRoot, SwapRoots, Return
  <2> QED
    BY <2>1, <2>3
<1>4. IInv /\ status # "INVALID_MAXIMUM" /\ MaximumOk
  BY <1>1, <1>3 DEF WritesInv, Situation, Sorted, Extracted
<1>5. IInv'
  BY <1>1, <1>4, BuildPreservesInvariant, StartBatchPreservesInvariant, ClearRootPreservesInvariant,
     SwapRootsPreservesInvariant, ReturnPreservesInvariant DEF Next
<1>6. /\ Indices' = Indices /\ BeforeOk' /\ MaximumOk'
      /\ \A done : TableAfter(done)' = TableAfter(done)
      /\ BuildsUpOrTearsDown' <=> BuildsUpOrTearsDown
  BY <1>2, <1>3, <1>4, SituationIsKept DEF WritesInv, Situation
<1>7. formed = 0 /\ requests = << >> /\ sent = 0 /\ pending = {}
  BY <1>3, <1>4 DEF WritesInv, FormedInv, ServerInv, Sorted, Extracted
<1>8. DOMAIN requests = {} /\ Len(requests) = 0 /\ requests \in Seq(SUBSET Indices)
  BY <1>7
<1>9. Situation'
  BY <1>2, <1>3, <1>5, <1>6 DEF WritesInv, Situation
<1>10. 0 \in 0 .. Len(batches')
  <2>1. batches' \in Seq(SUBSET Indices)
    BY <1>5, <1>6 DEF IInv, Types
  <2> QED
    BY <2>1
<1>11. FormedInv'
  BY <1>2, <1>3, <1>6, <1>7, <1>8, <1>10 DEF FormedInv, Sorted, Extracted
<1>12. CutInv' /\ OrderInv'
  BY <1>2, <1>3, <1>8 DEF CutInv, OrderInv, Sorted, Extracted
<1>13. ServerInv'
  <2>1. Done' = {} /\ Done = {}
    BY <1>2, <1>7 DEF Done
  <2>2. ~Extracted /\ (BuildsUpOrTearsDown => installed = TableAfter({}) /\ response.status = "OK")
    BY <1>3, <2>1 DEF WritesInv, ServerInv, Extracted
  <2>3. TableAfter(Done)' = TableAfter({})
    BY <1>6, <2>1
  <2> QED
    BY <1>2, <1>6, <1>7, <1>8, <2>2, <2>3 DEF ServerInv
<1> QED
  BY <1>9, <1>11, <1>12, <1>13 DEF WritesInv

LEMMA RefuseMaximumKeeps == WritesInv /\ RefuseMaximum => WritesInv'
<1> SUFFICES ASSUME WritesInv, RefuseMaximum PROVE WritesInv'
  OBVIOUS
<1>1. /\ pc = "build" /\ pc' = "returned" /\ status' = "INVALID_MAXIMUM"
      /\ UNCHANGED <<updates, batches, before, maximum, formed, requests, sent, pending, installed, response>>
  BY DEF RefuseMaximum, writeVars
<1>2. batches = << >>
  BY <1>1 DEF WritesInv, Situation, Sorted, Extracted, IInv, Fresh
<1>3. /\ Indices' = Indices /\ BeforeOk'
      /\ \A done : TableAfter(done)' = TableAfter(done)
      /\ BuildsUpOrTearsDown' <=> BuildsUpOrTearsDown
  BY <1>1, SituationIsKept DEF WritesInv, Situation
<1>4. formed = 0 /\ requests = << >>
  BY <1>1 DEF WritesInv, FormedInv, Sorted, Extracted
<1>5. sent = 0 /\ pending = {}
  BY <1>2, <1>4 DEF WritesInv, ServerInv
<1>6. DOMAIN requests = {} /\ Len(requests) = 0 /\ requests \in Seq(SUBSET Indices)
  BY <1>4
<1>7. Situation'
  BY <1>1, <1>2, <1>3 DEF WritesInv, Situation
<1>8. FormedInv' /\ CutInv' /\ OrderInv'
  BY <1>1, <1>2, <1>3, <1>4, <1>6 DEF FormedInv, CutInv, OrderInv, Sorted, Extracted
<1>9. ServerInv'
  <2>1. Done' = {} /\ Done = {}
    BY <1>1, <1>5 DEF Done
  <2>2. ~Extracted /\ (BuildsUpOrTearsDown => installed = TableAfter({}) /\ response.status = "OK")
    BY <1>1, <2>1 DEF WritesInv, ServerInv, Extracted
  <2>3. TableAfter(Done)' = TableAfter({})
    BY <1>3, <2>1
  <2> QED
    BY <1>1, <1>2, <1>3, <1>5, <1>6, <2>2, <2>3 DEF ServerInv
<1> QED
  BY <1>7, <1>8, <1>9 DEF WritesInv

(* One more batch is cut: what it depends on is in the requests formed of   *)
(* the batches before.                                                      *)
LEMMA FormRequestsKeeps == WritesInv /\ FormRequests => WritesInv'
<1> SUFFICES ASSUME WritesInv, FormRequests PROVE WritesInv'
  OBVIOUS
<1> DEFINE batch == batches[formed + 1]
           cut == Cut(batch)
           old == Len(requests)
<1>1. /\ status = "OK" /\ formed < Len(batches) /\ formed' = formed + 1
      /\ requests' = requests \o cut
      /\ UNCHANGED <<updates, pc, status, batches, before, maximum, sent, pending, installed, response>>
      /\ UNCHANGED sequencerVars
  BY DEF FormRequests, sequencerVars
<1>2. Situation /\ FormedInv /\ CutInv /\ OrderInv /\ ServerInv
  BY DEF WritesInv
<1>18. batches # << >>
  <2> SUFFICES ASSUME batches = << >> PROVE FALSE
    OBVIOUS
  <2>1. Len(batches) = 0
    OBVIOUS
  <2>2. formed \in 0 .. 0 /\ formed < 0
    BY <1>1, <1>2, <2>1 DEF FormedInv
  <2> QED
    BY <2>2
<1>3. ~Sorted /\ ~Extracted /\ IInv /\ pc = "returned" /\ MaximumOk
  <2>1. ~Sorted /\ ~Extracted /\ IInv
    BY <1>1, <1>2, <1>18 DEF Situation, Sorted, Extracted
  <2>2. pc = "returned"
    BY <1>1, <2>1 DEF IInv, Types, TypeOK
  <2> QED
    BY <1>1, <1>2, <2>1, <2>2 DEF Situation
<1>4. BatchesInv /\ batches \in Seq(SUBSET Indices) /\ \A b \in DOMAIN batches : batches[b] # {}
  BY <1>1, <1>3 DEF IInv, Types, TypeOK
<1>19. formed \in Nat
  BY <1>2, <1>4 DEF FormedInv
<1>5. formed + 1 \in DOMAIN batches /\ batch \in SUBSET Indices /\ batch # {}
  BY <1>1, <1>2, <1>19, <1>4
<1>6. /\ Indices' = Indices /\ BeforeOk' /\ MaximumOk'
      /\ \A done : TableAfter(done)' = TableAfter(done)
      /\ BuildsUpOrTearsDown' <=> BuildsUpOrTearsDown
  BY <1>1, <1>2, <1>3, SituationIsKept DEF Situation
<1>7. /\ cut \in Seq(SUBSET Indices)
      /\ \A i \in batch : \E n \in DOMAIN cut : i \in cut[n]
      /\ \A n \in DOMAIN cut :
           /\ cut[n] \subseteq batch
           /\ cut[n] # {}
           /\ maximum # Unlimited => Cardinality(cut[n]) <= maximum
      /\ \A m, n \in DOMAIN cut : m # n => cut[m] \cap cut[n] = {}
      /\ \A m, n \in DOMAIN cut : m < n => \A i \in cut[m], j \in cut[n] : i < j
      /\ Len(cut) = Needed(batch)
  BY <1>2, <1>3, <1>5, CutPieces DEF Situation
<1>8. requests \in Seq(SUBSET Indices) /\ old \in Nat
  BY <1>2 DEF FormedInv
<1> HIDE DEF batch, cut
<1>9. /\ requests' \in Seq(SUBSET Indices)
      /\ Len(requests') = old + Len(cut) /\ Len(cut) \in Nat
      /\ DOMAIN requests' = 1 .. old + Len(cut) /\ DOMAIN requests = 1 .. old /\ DOMAIN cut = 1 .. Len(cut)
      /\ \A n \in 1 .. old : requests'[n] = requests[n]
      /\ \A n \in 1 .. Len(cut) : requests'[old + n] = cut[n]
  <2>1. cut \in Seq(SUBSET Indices) /\ requests \in Seq(SUBSET Indices) /\ requests' = requests \o cut
    BY <1>1, <1>7, <1>8
  <2> QED
    BY <2>1
<1>10. \A n \in DOMAIN requests' : \/ n \in 1 .. old /\ requests'[n] = requests[n]
                                  \/ \E k \in DOMAIN cut : n = old + k /\ requests'[n] = cut[k]
  <2> SUFFICES ASSUME NEW n \in DOMAIN requests', n \notin 1 .. old
               PROVE  \E k \in DOMAIN cut : n = old + k /\ requests'[n] = cut[k]
    BY <1>9
  <2>1. n - old \in DOMAIN cut /\ n = old + (n - old)
    BY <1>8, <1>9
  <2> QED
    BY <1>9, <2>1
<1>11. \A n \in DOMAIN requests : \E b \in 1 .. formed : requests[n] \subseteq batches[b]
  BY <1>2, <1>3 DEF FormedInv
<1>12. \A n \in DOMAIN requests : requests[n] \cap batch = {}
  <2> SUFFICES ASSUME NEW n \in DOMAIN requests PROVE requests[n] \cap batch = {}
    OBVIOUS
  <2>1. PICK b \in 1 .. formed : requests[n] \subseteq batches[b]
    BY <1>11
  <2>2. b \in DOMAIN batches /\ b # formed + 1
    BY <1>2, <1>19, <1>4, <1>5
  <2> QED
    BY <1>4, <1>5, <2>1, <2>2 DEF BatchesInv, batch
<1>13. Situation'
  <2>1. IInv'
    BY <1>1, <1>3, StutterPreservesInvariant
  <2> QED
    BY <1>1, <1>2, <1>19, <1>3, <1>6, <2>1 DEF Situation
<1>14. FormedInv'
  <2>1. formed' \in 0 .. Len(batches)
    BY <1>1, <1>2, <1>19, <1>5
  <2>2. \A n \in DOMAIN requests' : \E b \in 1 .. formed' : requests'[n] \subseteq batches[b]
    <3>1. formed + 1 \in 1 .. formed' /\ 1 .. formed \subseteq 1 .. formed'
      BY <1>1, <1>2, <1>19
    <3> QED
      BY <1>7, <1>9, <1>10, <1>11, <3>1 DEF batch
  <2>3. \A b \in 1 .. formed' : \A i \in batches[b] : \E n \in DOMAIN requests' : i \in requests'[n]
    <3> SUFFICES ASSUME NEW b \in 1 .. formed', NEW i \in batches[b]
                 PROVE  \E n \in DOMAIN requests' : i \in requests'[n]
      OBVIOUS
    <3>1. CASE b \in 1 .. formed
      <4>1. PICK n \in DOMAIN requests : i \in requests[n]
        BY <1>2, <1>3, <3>1 DEF FormedInv, Placed
      <4> QED
        BY <1>8, <1>9, <4>1
    <3>2. CASE b = formed + 1
      <4>1. PICK n \in DOMAIN cut : i \in cut[n]
        BY <1>7, <3>2 DEF batch
      <4>2. old + n \in DOMAIN requests' /\ requests'[old + n] = cut[n]
        BY <1>8, <1>9
      <4> QED
        BY <4>1, <4>2
    <3> QED
      BY <1>1, <1>2, <1>19, <3>1, <3>2
  <2>4. ASSUME NEW b \in 1 .. formed' PROVE Cardinality(RequestsOf(batches[b])') = Needed(batches[b])
    <3> DEFINE of == {n \in DOMAIN requests' : requests'[n] \subseteq batches[b]}
    <3>1. RequestsOf(batches[b])' = of
      BY <1>1 DEF RequestsOf
    <3>2. b \in DOMAIN batches
      BY <1>1, <1>2, <1>19, <1>4, <1>5
    <3>3. CASE b \in 1 .. formed
      <4>1. batches[b] \cap batch = {}
        BY <1>4, <1>5, <1>19, <3>2, <3>3 DEF BatchesInv, batch
      <4>2. ASSUME NEW n \in DOMAIN requests', n \notin 1 .. old PROVE n \notin of
        BY <1>7, <1>10, <4>1, <4>2
      <4>3. \A n \in 1 .. old : n \in of <=> n \in RequestsOf(batches[b])
        BY <1>8, <1>9 DEF RequestsOf
      <4>4. RequestsOf(batches[b]) \subseteq 1 .. old
        BY <1>9 DEF RequestsOf
      <4> HIDE DEF of
      <4>5. of \subseteq DOMAIN requests'
        BY DEF of
      <4>6. of = RequestsOf(batches[b])
        BY <4>2, <4>3, <4>4, <4>5
      <4> QED
        BY <1>2, <1>3, <3>1, <3>3, <4>6 DEF FormedInv
    <3>4. CASE b = formed + 1
      <4>1. batches[b] = batch
        BY <3>4 DEF batch
      <4>2. \A n \in 1 .. old : n \notin of
        <5> SUFFICES ASSUME NEW n \in 1 .. old PROVE ~(requests[n] \subseteq batch)
          BY <1>9, <4>1
        <5>1. requests[n] # {}
          BY <1>2, <1>3, <1>9 DEF CutInv
        <5> QED
          BY <1>9, <1>12, <5>1
      <4>3. \A n \in old + 1 .. old + Len(cut) : n \in of
        <5> SUFFICES ASSUME NEW n \in old + 1 .. old + Len(cut) PROVE n \in of
          OBVIOUS
        <5>1. n - old \in DOMAIN cut /\ n = old + (n - old) /\ n \in DOMAIN requests'
          BY <1>8, <1>9
        <5>2. requests'[n] = cut[n - old]
          BY <1>9, <5>1
        <5> QED
          BY <1>7, <4>1, <5>1, <5>2
      <4>4. of = old + 1 .. old + Len(cut)
        <5>1. \A n \in of : n \in 1 .. old + Len(cut)
          BY <1>9
        <5> HIDE DEF of, old
        <5>2. old \in Nat /\ Len(cut) \in Nat
          BY <1>8, <1>9
        <5>3. ASSUME NEW n \in of PROVE n \in old + 1 .. old + Len(cut)
          <6>1. n \in 1 .. old + Len(cut) /\ n \notin 1 .. old
            BY <4>2, <5>1
          <6> QED
            BY <5>2, <6>1
        <5> QED
          BY <4>3, <5>3
      <4>5. Cardinality(old + 1 .. old + Len(cut)) = Len(cut)
        BY <1>8, <1>9, IntervalSize
      <4> QED
        BY <1>7, <3>1, <4>1, <4>4, <4>5
    <3> QED
      BY <1>1, <1>19, <3>3, <3>4
  <2>6. \A b : Needed(batches[b])' = Needed(batches[b])
    BY <1>1 DEF Needed
  <2>5. ~Sorted' /\ ~Extracted' /\ formed' # 0
    BY <1>1, <1>2, <1>19, <1>3 DEF Sorted, Extracted
  <2> QED
    BY <1>1, <1>3, <1>6, <1>9, <2>1, <2>2, <2>3, <2>4, <2>5, <2>6 DEF FormedInv, Placed
<1>15. CutInv'
  <2>1. ASSUME NEW m \in DOMAIN requests', NEW n \in DOMAIN requests', m < n
        PROVE  requests'[m] \cap requests'[n] = {}
    <3>1. CASE n \in 1 .. old
      BY <1>2, <1>8, <1>9, <2>1, <3>1 DEF CutInv
    <3>2. CASE m \in 1 .. old /\ n \notin 1 .. old
      BY <1>7, <1>9, <1>10, <1>12, <3>2
    <3>3. CASE m \notin 1 .. old /\ n \notin 1 .. old
      <4>1. PICK k \in DOMAIN cut : m = old + k /\ requests'[m] = cut[k]
        BY <1>10, <3>3
      <4>2. PICK l \in DOMAIN cut : n = old + l /\ requests'[n] = cut[l]
        BY <1>10, <3>3
      <4> QED
        BY <1>7, <2>1, <4>1, <4>2
    <3> QED
      BY <1>8, <1>9, <2>1, <3>1, <3>2, <3>3
  <2>2. \A m, n \in DOMAIN requests' : m # n => requests'[m] \cap requests'[n] = {}
    <3> SUFFICES ASSUME NEW m \in DOMAIN requests', NEW n \in DOMAIN requests', m # n
                 PROVE  requests'[m] \cap requests'[n] = {}
      OBVIOUS
    <3>1. m < n \/ n < m
      BY <1>8, <1>9
    <3> QED
      BY <2>1, <3>1
  <2>3. \A n \in DOMAIN requests' :
          requests'[n] # {} /\ (maximum # Unlimited => Cardinality(requests'[n]) <= maximum)
    BY <1>2, <1>3, <1>7, <1>9, <1>10 DEF CutInv
  <2>4. ~Sorted' /\ ~Extracted' /\ pc # "extracted"
    BY <1>1, <1>3 DEF Sorted, Extracted
  <2>5. \A b \in DOMAIN batches : \A i \in batch : i \in batches[b] => b = formed + 1
    BY <1>4, <1>5 DEF BatchesInv, batch
  <2>6. ASSUME NEW m \in DOMAIN requests', NEW n \in DOMAIN requests', m < n,
               NEW i \in requests'[m], NEW j \in requests'[n]
        PROVE  InTurn(i, j)
    <3>1. CASE n \in 1 .. old
      <4>1. m \in 1 .. old
        BY <1>8, <1>9, <2>6, <3>1
      <4> QED
        BY <1>2, <1>9, <2>6, <3>1, <4>1 DEF CutInv
    <3>2. CASE m \in 1 .. old /\ n \notin 1 .. old
      <4>1. PICK c \in 1 .. formed : requests[m] \subseteq batches[c]
        BY <1>9, <1>11, <3>2
      <4>2. i \in batches[c] /\ j \in batch /\ c \in DOMAIN batches /\ c < formed + 1
        <5>1. c \in DOMAIN batches /\ c < formed + 1
          BY <1>1, <1>4, <1>5, <1>19
        <5>2. requests'[m] = requests[m] /\ i \in batches[c]
          BY <1>9, <2>6, <3>2, <4>1
        <5>3. PICK k \in DOMAIN cut : n = old + k /\ requests'[n] = cut[k]
          BY <1>10, <3>2
        <5> QED
          BY <1>7, <2>6, <5>1, <5>2, <5>3
      <4>3. \A a \in DOMAIN batches : i \in batches[a] => a = c
        BY <1>4, <4>2 DEF BatchesInv
      <4> QED
        BY <2>4, <2>5, <4>2, <4>3 DEF InTurn
    <3>3. CASE m \notin 1 .. old /\ n \notin 1 .. old
      <4>1. PICK k \in DOMAIN cut : m = old + k /\ requests'[m] = cut[k]
        BY <1>10, <3>3
      <4>2. PICK l \in DOMAIN cut : n = old + l /\ requests'[n] = cut[l]
        BY <1>10, <3>3
      <4>3. k < l
        BY <1>8, <1>9, <2>6, <4>1, <4>2
      <4>4. i < j /\ i \in batch /\ j \in batch
        BY <1>7, <2>6, <4>1, <4>2, <4>3
      <4> QED
        BY <2>4, <2>5, <4>4 DEF InTurn
    <3> QED
      BY <1>8, <1>9, <2>6, <3>1, <3>2, <3>3
  <2>7. \A i, j : InTurn(i, j)' <=> InTurn(i, j)
    BY <1>1 DEF InTurn
  <2> QED
    BY <1>1, <1>6, <2>2, <2>3, <2>4, <2>6, <2>7 DEF CutInv
<1>16. OrderInv'
  <2> SUFFICES ASSUME BuildsUpOrTearsDown, NEW n \in DOMAIN requests', NEW i \in requests'[n],
                      NEW j \in Indices, MustPrecede(updates[j], updates[i])
               PROVE  \E m \in 1 .. n - 1 : j \in requests'[m]
    BY <1>1, <1>6 DEF OrderInv
  <2>1. CASE n \in 1 .. old
    <3>1. PICK m \in 1 .. n - 1 : j \in requests[m]
      BY <1>2, <1>3, <1>9, <2>1 DEF OrderInv
    <3>2. m \in 1 .. old
      BY <1>8, <2>1
    <3> QED
      BY <1>9, <3>1, <3>2
  <2>2. CASE n \notin 1 .. old
    <3>1. PICK k \in DOMAIN cut : n = old + k /\ requests'[n] = cut[k]
      BY <1>10, <2>2
    <3>2. i \in batch /\ i \in Indices
      BY <1>5, <1>7, <3>1
    <3>3. <<j, i>> \in Dependencies
      BY <3>2, MustPrecedeIsRecorded
    <3>4. PICK b \in 1 .. formed : j \in batches[b]
      <4>1. \E m \in 1 .. (formed + 1) - 1 : j \in batches[m]
        BY <1>4, <1>5, <3>2, <3>3 DEF BatchesInv, DependenciesComeFirst, batch
      <4> QED
        BY <1>2, <1>19, <4>1
    <3>5. PICK m \in DOMAIN requests : j \in requests[m]
      BY <1>2, <1>3, <3>4 DEF FormedInv, Placed
    <3>6. m \in 1 .. n - 1 /\ requests'[m] = requests[m]
      BY <1>8, <1>9, <3>1, <3>5
    <3> QED
      BY <3>5, <3>6
  <2> QED
    BY <2>1, <2>2
<1>17. ServerInv'
  <2>1. sent = 0 /\ pending = {}
    BY <1>1, <1>2 DEF ServerInv
  <2>2. Done' = {} /\ Done = {}
    BY <1>1, <2>1 DEF Done
  <2>3. BuildsUpOrTearsDown => installed = TableAfter({}) /\ response.status = "OK"
    BY <1>2, <1>3, <2>2 DEF ServerInv
  <2>4. TableAfter(Done)' = TableAfter({})
    BY <1>6, <2>2
  <2>5. 0 \in 0 .. Len(requests')
    BY <1>8, <1>9
  <2> QED
    BY <1>1, <1>6, <2>1, <2>3, <2>4, <2>5 DEF ServerInv
<1> QED
  BY <1>13, <1>14, <1>15, <1>16, <1>17 DEF WritesInv

------------------------------------------------------------------------------
(* Updates that are sorted by the ranks of their tables, or not at all      *)

(* Ranks rise along the references the server checks, so sorted updates are *)
(* in an order that leaves none dangling.                                   *)
LEMMA SortedOrderIsSafe ==
  ASSUME \A i \in Indices : updates[i].entity.table \in Tables,
         "DELETE" \in UpdateTypes => UpdateTypes = {"DELETE"},
         NEW order \in StableSortUpdates("DELETE" \in UpdateTypes),
         NEW m \in Indices, NEW n \in Indices,
         MustPrecede(updates[order[m]], updates[order[n]])
  PROVE  m < n
<1>1. /\ order \in [Indices -> Indices]
      /\ m \in Nat /\ n \in Nat
      /\ Rank(order[m]) \in Int /\ Rank(order[n]) \in Int
  <2>1. order \in [Indices -> Indices]
    BY DEF StableSortUpdates, Bijection, Injection
  <2> QED
    BY <2>1, RankAssumption DEF Rank, Indices
<1>2. \/ "DELETE" \notin UpdateTypes /\ Rank(order[n]) < Rank(order[m])
      \/ "DELETE" \in UpdateTypes /\ Rank(order[m]) < Rank(order[n])
  <2>1. CASE /\ updates[order[m]].type = "INSERT"
             /\ NeededReferences(updates[order[n]].entity)
                   \cap SatisfiedReferences(updates[order[m]].entity) # {}
    <3>1. "INSERT" \in UpdateTypes
      BY <1>1, <2>1 DEF UpdateTypes
    <3>2. "DELETE" \notin UpdateTypes
      BY <3>1
    <3> QED
      BY <2>1, <3>2, NeverSatisfiesItself DEF Rank
  <2>2. CASE /\ updates[order[m]].type = "DELETE"
             /\ NeededReferences(updates[order[m]].entity)
                   \cap SatisfiedReferences(updates[order[n]].entity) # {}
    <3>1. "DELETE" \in UpdateTypes
      BY <1>1, <2>2 DEF UpdateTypes
    <3> QED
      BY <2>2, <3>1, NeverSatisfiesItself DEF Rank
  <2> QED
    BY <2>1, <2>2 DEF MustPrecede
<1>3. n < m => IF "DELETE" \in UpdateTypes THEN Rank(order[n]) <= Rank(order[m])
               ELSE Rank(order[n]) >= Rank(order[m])
  BY <1>1 DEF StableSortUpdates
<1>4. m # n
  BY <1>1, <1>2
<1> QED
  BY <1>1, <1>2, <1>3, <1>4

LEMMA SortUpdatesKeeps == WritesInv /\ SortUpdates => WritesInv'
<1> SUFFICES ASSUME WritesInv, SortUpdates PROVE WritesInv'
  OBVIOUS
<1>1. /\ pc = "build" /\ maximum = Unlimited /\ pc' = "sorted"
      /\ UNCHANGED <<updates, batches, before, maximum, formed, sent, pending, installed, response>>
      /\ \A i \in Indices : updates[i].entity.table \in Tables
      /\ "DELETE" \in UpdateTypes => UpdateTypes = {"DELETE"}
  BY DEF SortUpdates
<1>2. PICK order \in StableSortUpdates("DELETE" \in UpdateTypes) :
        requests' = [n \in Indices |-> {order[n]}]
  BY DEF SortUpdates
<1>3. batches = << >> /\ formed = 0 /\ sent = 0 /\ pending = {} /\ Len(updates) \in Nat
  <2>1. batches = << >> /\ Len(updates) \in Nat
    BY <1>1 DEF WritesInv, Situation, Sorted, Extracted, IInv, Fresh
  <2>2. Len(batches) = 0
    BY <2>1
  <2>3. formed = 0
    BY <2>2 DEF WritesInv, FormedInv
  <2>4. requests = << >> /\ Len(requests) = 0
    BY <1>1, <2>3 DEF WritesInv, FormedInv, Sorted, Extracted
  <2> QED
    BY <2>1, <2>3, <2>4 DEF WritesInv, ServerInv
<1>4. /\ order \in [Indices -> Indices]
      /\ \A m, n \in Indices : order[m] = order[n] => m = n
      /\ \A i \in Indices : \E n \in Indices : order[n] = i
  BY DEF StableSortUpdates, Bijection, Injection, Surjection, IsInjective
<1>5. /\ requests' \in Seq(SUBSET Indices) /\ DOMAIN requests' = Indices
      /\ Len(requests') = Len(updates)
      /\ \A n \in Indices : requests'[n] = {order[n]}
  <2>1. \A n \in Indices : {order[n]} \in SUBSET Indices
    BY <1>4
  <2>2. requests' \in [1 .. Len(updates) -> SUBSET Indices]
    BY <1>2, <2>1 DEF Indices
  <2>3. requests' \in Seq(SUBSET Indices) /\ Len(requests') = Len(updates)
    BY <1>3, <2>2
  <2> QED
    BY <1>2, <2>3
<1>6. /\ Indices' = Indices /\ BeforeOk'
      /\ \A done : TableAfter(done)' = TableAfter(done)
      /\ BuildsUpOrTearsDown' <=> BuildsUpOrTearsDown
  BY <1>1, SituationIsKept DEF WritesInv, Situation
<1>7. Situation'
  BY <1>1, <1>3, <1>6 DEF WritesInv, Situation, Sorted, Extracted
<1>8. FormedInv'
  BY <1>1, <1>3, <1>5, <1>6 DEF FormedInv, Sorted, Extracted
<1>9. CutInv'
  <2>1. \A m, n \in DOMAIN requests' : m # n => requests'[m] \cap requests'[n] = {}
    BY <1>4, <1>5
  <2>2. \A n \in DOMAIN requests' : requests'[n] # {}
    BY <1>5
  <2>3. \A i \in Indices : \E n \in DOMAIN requests' : i \in requests'[n]
    BY <1>4, <1>5
  <2>4. maximum' = Unlimited /\ ~Extracted'
    BY <1>1 DEF Extracted
  <2>5. \A i, j : InTurn(i, j)'
    BY <1>1, <1>3 DEF InTurn
  <2> QED
    BY <1>6, <2>1, <2>2, <2>3, <2>4, <2>5 DEF CutInv, Placed
<1>10. OrderInv'
  <2> SUFFICES ASSUME NEW n \in Indices, NEW j \in Indices, MustPrecede(updates[j], updates[order[n]])
               PROVE  \E m \in 1 .. n - 1 : j \in requests'[m]
    BY <1>1, <1>5, <1>6 DEF OrderInv
  <2>1. PICK m \in Indices : order[m] = j
    BY <1>4
  <2>2. m < n
    BY <1>1, <2>1, SortedOrderIsSafe
  <2>3. m \in 1 .. n - 1
    BY <1>3, <2>2 DEF Indices
  <2> QED
    BY <1>5, <2>1, <2>3
<1>11. ServerInv'
  <2>1. Done' = {} /\ Done = {}
    BY <1>1, <1>3 DEF Done
  <2>2. ~Extracted /\ (BuildsUpOrTearsDown => installed = TableAfter({}) /\ response.status = "OK")
    BY <1>1, <2>1 DEF WritesInv, ServerInv, Extracted
  <2>3. TableAfter(Done)' = TableAfter({})
    BY <1>6, <2>1
  <2>4. 0 \in 0 .. Len(requests')
    BY <1>3, <1>5
  <2> QED
    BY <1>1, <1>3, <1>6, <2>2, <2>3, <2>4 DEF ServerInv
<1> QED
  BY <1>7, <1>8, <1>9, <1>10, <1>11 DEF WritesInv

LEMMA ExtractKeeps == WritesInv /\ ExtractWriteRequests => WritesInv'
<1> SUFFICES ASSUME WritesInv, ExtractWriteRequests PROVE WritesInv'
  OBVIOUS
<1>1. /\ pc = "build" /\ pc' = "extracted"
      /\ UNCHANGED <<updates, batches, before, maximum, formed, sent, pending, installed, response>>
  BY DEF ExtractWriteRequests
<1>2. /\ batches = << >> /\ formed = 0 /\ requests = << >> /\ sent = 0 /\ pending = {}
      /\ Len(updates) \in Nat /\ (maximum = Unlimited \/ maximum \in Int)
  <2>1. /\ batches = << >> /\ Len(updates) \in Nat
        /\ maximum = Unlimited \/ maximum \in Int
    BY <1>1 DEF WritesInv, Situation, Sorted, Extracted, IInv, Fresh
  <2>2. Len(batches) = 0
    BY <2>1
  <2>3. formed = 0
    BY <2>2 DEF WritesInv, FormedInv
  <2>4. requests = << >> /\ Len(requests) = 0
    BY <1>1, <2>3 DEF WritesInv, FormedInv, Sorted, Extracted
  <2> QED
    BY <2>1, <2>3, <2>4 DEF WritesInv, ServerInv
<1>3. Indices' = Indices /\ BeforeOk'
  BY <1>1, SituationIsKept DEF WritesInv, Situation
<1>4. Situation' /\ OrderInv'
  BY <1>1, <1>2, <1>3 DEF WritesInv, Situation, OrderInv, Sorted, Extracted
<1>8. /\ \A i, j : InTurn(i, j)' <=> i < j
      /\ \A part : Needed(part)' = Needed(part)
  BY <1>1 DEF InTurn, Needed
<1>5. CASE requests' = << >> /\ status' = "INVALID_MAXIMUM"
  <2>1. DOMAIN requests' = {} /\ Len(requests') = 0 /\ requests' \in Seq(SUBSET Indices)
    BY <1>5
  <2>2. CutInv'
    BY <1>1, <1>5, <2>1 DEF CutInv, Sorted, Extracted
  <2>3. FormedInv' /\ ServerInv'
    BY <1>1, <1>2, <1>3, <2>1 DEF FormedInv, ServerInv, Sorted, Extracted
  <2> QED
    BY <1>4, <2>2, <2>3 DEF WritesInv
<1>6. CASE /\ maximum = Unlimited \/ Len(updates) <= maximum
           /\ requests' = <<Indices>>
  <2>1. /\ DOMAIN requests' = {1} /\ Len(requests') = 1 /\ requests'[1] = Indices
        /\ requests' \in Seq(SUBSET Indices)
    BY <1>6
  <2>2. Cardinality(Indices) = Len(updates)
    <3>1. 1 \in Int /\ Len(updates) \in Int
      BY <1>2
    <3>2. Cardinality(1 .. Len(updates)) = IF 1 > Len(updates) THEN 0 ELSE Len(updates) - 1 + 1
      BY <3>1, FS_Interval
    <3> QED
      BY <1>2, <3>2 DEF Indices
  <2>5. Indices # {} => Needed(Indices) = 1
    <3> SUFFICES ASSUME Indices # {}, maximum # Unlimited PROVE Ceiling(Len(updates), maximum) = 1
      BY <2>2 DEF Needed
    <3>1. Len(updates) > 0 /\ Len(updates) <= maximum /\ maximum \in Nat /\ maximum > 0
      BY <1>2, <1>6 DEF Indices
    <3>2. Len(updates) + maximum - 1 \in Nat
      BY <1>2, <3>1
    <3>3. 1 * maximum <= Len(updates) + maximum - 1 /\ Len(updates) + maximum - 1 < 1 * maximum + maximum
      BY <1>2, <3>1
    <3> QED
      BY <3>1, <3>2, <3>3, Division DEF Ceiling
  <2>6. /\ \A m, n \in DOMAIN requests' : m = n
        /\ \A n \in DOMAIN requests' : requests'[n] = Indices
        /\ \A i \in Indices : \E n \in DOMAIN requests' : i \in requests'[n]
    BY <2>1
  <2>3. CutInv'
    <3>1. maximum # Unlimited => Cardinality(Indices) <= maximum
      BY <1>6, <2>2
    <3>2. \A m, n \in DOMAIN requests' : ~(m < n)
      BY <2>1
    <3> QED
      BY <1>1, <1>3, <1>8, <2>1, <2>5, <2>6, <3>1, <3>2 DEF CutInv, Placed, Sorted, Extracted
  <2>4. FormedInv' /\ ServerInv'
    BY <1>1, <1>2, <1>3, <2>1 DEF FormedInv, ServerInv, Sorted, Extracted
  <2> QED
    BY <1>4, <2>3, <2>4 DEF WritesInv
<1>7. CASE /\ maximum # Unlimited /\ ~(Len(updates) <= maximum) /\ ~(maximum < 1)
           /\ requests' = [n \in 1 .. Ceiling(Len(updates), maximum) |->
                             {i \in Indices : (i - 1) \div maximum = n - 1}]
  <2> DEFINE N == Len(updates)
             position == [i \in Indices |-> i - 1]
             count == Ceiling(N, maximum)
  <2>1. position \in Bijection(Indices, 0 .. N - 1)
    <3>1. \A c \in 0 .. N - 1 : c + 1 \in Indices /\ position[c + 1] = c
      BY <1>2 DEF Indices
    <3> QED
      BY <1>2, <3>1 DEF Indices, Bijection, Injection, Surjection, IsInjective
  <2>2. N \in Nat /\ N > 0 /\ maximum \in Nat /\ maximum > 0
    BY <1>2, <1>7
  <2>3. /\ count \in Nat
        /\ \A i \in Indices : \E n \in 1 .. count : i \in Piece(Indices, position, maximum, n)
        /\ \A n \in 1 .. count :
             /\ Piece(Indices, position, maximum, n) # {}
             /\ Cardinality(Piece(Indices, position, maximum, n)) <= maximum
    <3> HIDE DEF position, N
    <3> QED
      BY <2>1, <2>2, Pieces
  <2>4. \A n : Piece(Indices, position, maximum, n) = {i \in Indices : (i - 1) \div maximum = n - 1}
    BY DEF Piece
  <2>11. Indices \in SUBSET Nat /\ position \in [Indices -> Nat] /\ \A i, j \in Indices : i <= j => position[i] <= position[j]
    BY <1>2 DEF Indices
  <2>12. Indices # {} /\ count = Needed(Indices)
    <3>1. 1 \in Indices
      BY <2>2 DEF Indices
    <3>2. Cardinality(Indices) = N
      <4>1. Cardinality(1 .. N) = IF 1 > N THEN 0 ELSE N - 1 + 1
        BY <2>2, FS_Interval
      <4> QED
        BY <2>2, <4>1 DEF Indices
    <3> QED
      BY <1>7, <3>1, <3>2 DEF Needed
  <2> HIDE DEF position, count
  <2>13. \A m, n \in 1 .. count : m < n =>
           \A i \in Piece(Indices, position, maximum, m), j \in Piece(Indices, position, maximum, n) : i < j
    BY <2>2, <2>3, <2>11, PiecesAreInOrder
  <2>5. requests' = [n \in 1 .. count |-> Piece(Indices, position, maximum, n)]
    BY <1>7, <2>4 DEF count
  <2>6. \A n \in 1 .. count : Piece(Indices, position, maximum, n) \in SUBSET Indices
    BY DEF Piece
  <2>7. \A m, n \in 1 .. count : m # n =>
          Piece(Indices, position, maximum, m) \cap Piece(Indices, position, maximum, n) = {}
    BY <2>3 DEF Piece
  <2>8. /\ DOMAIN requests' = 1 .. count /\ Len(requests') = count /\ requests' \in Seq(SUBSET Indices)
        /\ \A n \in 1 .. count : requests'[n] = Piece(Indices, position, maximum, n)
    BY <2>3, <2>5, <2>6
  <2>9. CutInv'
    <3>1. \A m, n \in DOMAIN requests' : m < n => \A i \in requests'[m], j \in requests'[n] : i < j
      BY <2>8, <2>13
    <3> HIDE DEF N
    <3> QED
      BY <1>1, <1>3, <1>8, <2>3, <2>7, <2>8, <2>12, <3>1 DEF CutInv, Placed, Sorted, Extracted
  <2>10. FormedInv' /\ ServerInv'
    BY <1>1, <1>2, <1>3, <2>3, <2>8 DEF FormedInv, ServerInv, Sorted, Extracted
  <2> QED
    BY <1>4, <2>9, <2>10 DEF WritesInv
<1> QED
  BY <1>2, <1>5, <1>6, <1>7 DEF ExtractWriteRequests

------------------------------------------------------------------------------
(* Requests are sent                                                       *)

(* Sending changes nothing of what the client has made.                     *)
LEMMA RequestsStay ==
  ASSUME WritesInv, UNCHANGED <<sequencerVars, before, maximum, formed, requests>>
  PROVE  /\ Situation' /\ FormedInv' /\ CutInv' /\ OrderInv'
         /\ Indices' = Indices /\ (Extracted' <=> Extracted)
         /\ \A done : TableAfter(done)' = TableAfter(done)
         /\ BuildsUpOrTearsDown' <=> BuildsUpOrTearsDown
<1>1. UNCHANGED <<updates, pc, status, batches>>
  BY DEF sequencerVars
<1>2. /\ Indices' = Indices /\ BeforeOk' /\ (MaximumOk' <=> MaximumOk)
      /\ \A done : TableAfter(done)' = TableAfter(done)
      /\ BuildsUpOrTearsDown' <=> BuildsUpOrTearsDown
  BY <1>1, SituationIsKept DEF WritesInv, Situation
<1>3. IInv => IInv'
  BY StutterPreservesInvariant
<1>4. Situation'
  BY <1>1, <1>2, <1>3 DEF WritesInv, Situation, Sorted, Extracted
<1>5. /\ Sorted' <=> Sorted
      /\ Extracted' <=> Extracted
      /\ \A i : Placed(i)' <=> Placed(i)
      /\ \A i, j : InTurn(i, j)' <=> InTurn(i, j)
      /\ \A b : RequestsOf(batches[b])' = RequestsOf(batches[b])
      /\ \A part : Needed(part)' = Needed(part)
  BY <1>1 DEF Sorted, Extracted, Placed, InTurn, RequestsOf, Needed
<1>9. \A b : Needed(batches[b])' = Needed(batches[b])
  BY <1>1 DEF Needed
<1>6. FormedInv'
  BY <1>1, <1>2, <1>5, <1>9 DEF WritesInv, FormedInv
<1>7. CutInv'
  BY <1>1, <1>2, <1>5 DEF WritesInv, CutInv
<1>8. OrderInv'
  BY <1>1, <1>2, <1>5 DEF WritesInv, OrderInv
<1> QED
  BY <1>2, <1>4, <1>5, <1>6, <1>7, <1>8

LEMMA WhatIsDone ==
  /\ \A i : i \in Done <=> i \notin pending /\ \E n \in 1 .. sent : i \in requests[n]
  /\ \A i : i \in Done' <=> i \notin pending' /\ \E n \in 1 .. sent' : i \in requests'[n]
BY DEF Done

LEMMA SendRequestKeeps == WritesInv /\ SendRequest => WritesInv'
<1> SUFFICES ASSUME WritesInv, SendRequest PROVE WritesInv'
  OBVIOUS
<1>1. /\ formed = Len(batches) /\ pending = {} /\ sent < Len(requests)
      /\ sent' = sent + 1 /\ pending' = requests[sent + 1]
      /\ UNCHANGED <<sequencerVars, before, maximum, formed, requests, installed, response>>
  BY DEF SendRequest
<1>2. /\ Situation' /\ FormedInv' /\ CutInv' /\ OrderInv'
      /\ Extracted' <=> Extracted
      /\ \A done : TableAfter(done)' = TableAfter(done)
      /\ BuildsUpOrTearsDown' <=> BuildsUpOrTearsDown
  BY <1>1, RequestsStay
<1>3. UNCHANGED batches
  BY <1>1 DEF sequencerVars
<1>4. /\ sent \in Nat /\ sent + 1 \in DOMAIN requests
      /\ DOMAIN requests = 1 .. Len(requests) /\ Len(requests) \in Nat
  BY <1>1 DEF WritesInv, FormedInv, ServerInv
<1>5. Done' = Done
  <2>1. 1 .. sent + 1 = (1 .. sent) \cup {sent + 1}
    BY <1>4
  <2>2. \A n \in 1 .. sent : requests[n] \cap requests[sent + 1] = {}
    <3> SUFFICES ASSUME NEW n \in 1 .. sent PROVE requests[n] \cap requests[sent + 1] = {}
      OBVIOUS
    <3>1. n \in DOMAIN requests /\ n # sent + 1
      BY <1>1, <1>4
    <3> QED
      BY <1>4, <3>1 DEF WritesInv, CutInv
  <2>3. requests' = requests /\ requests[sent + 1] = pending' /\ sent + 1 \in 1 .. sent + 1
    BY <1>1, <1>4
  <2>4. \A i : i \in Done' <=> i \in Done
    BY <1>1, <2>1, <2>2, <2>3, WhatIsDone
  <2> QED
    BY <2>4
<1>6. ServerInv'
  <2>1. sent' \in 0 .. Len(requests') /\ sent' # 0
    BY <1>1, <1>4
  <2>2. ~(formed' < Len(batches'))
    BY <1>1, <1>2, <1>3 DEF FormedInv
  <2>3. ~Extracted /\ BuildsUpOrTearsDown => installed = TableAfter(Done) /\ response.status = "OK"
    BY DEF WritesInv, ServerInv
  <2>4. TableAfter(Done)' = TableAfter(Done)
    BY <1>2, <1>5
  <2> QED
    BY <1>1, <1>2, <2>1, <2>2, <2>3, <2>4 DEF ServerInv
<1> QED
  BY <1>2, <1>6 DEF WritesInv

(* The server looks at an update when everything it needs has been looked   *)
(* at, and so accepts it.                                                   *)
LEMMA ApplyUpdateKeeps == WritesInv /\ ApplyUpdate => WritesInv'
<1> SUFFICES ASSUME WritesInv, ApplyUpdate PROVE WritesInv'
  OBVIOUS
<1>1. PICK i \in pending : pending' = pending \ {i} /\ Requested(i)
  BY DEF ApplyUpdate, Requested
<1>2. UNCHANGED <<sequencerVars, before, maximum, formed, requests, sent>>
  BY DEF ApplyUpdate
<1>3. /\ Situation' /\ FormedInv' /\ CutInv' /\ OrderInv'
      /\ Extracted' <=> Extracted
      /\ \A done : TableAfter(done)' = TableAfter(done)
      /\ BuildsUpOrTearsDown' <=> BuildsUpOrTearsDown
  BY <1>2, RequestsStay
<1>4. UNCHANGED batches
  BY <1>2 DEF sequencerVars
<1>5. /\ sent \in 1 .. Len(requests) /\ pending \subseteq requests[sent]
      /\ DOMAIN requests = 1 .. Len(requests) /\ Len(requests) \in Nat
      /\ requests \in Seq(SUBSET Indices)
  BY <1>1 DEF WritesInv, FormedInv, ServerInv
<1>6. i \in Indices /\ Done \subseteq Indices /\ i \notin Done
  <2>1. \A n \in 1 .. sent : n \in DOMAIN requests /\ requests[n] \subseteq Indices
    BY <1>5
  <2>2. i \in requests[sent] /\ sent \in 1 .. sent
    BY <1>1, <1>5
  <2> QED
    BY <1>1, <2>1, <2>2, WhatIsDone
<1>7. Done' = Done \cup {i}
  <2>1. i \in requests[sent] /\ sent \in 1 .. sent
    BY <1>1, <1>5
  <2>2. requests' = requests /\ sent' = sent
    BY <1>2
  <2>3. \A j : j \in Done' <=> j \in Done \cup {i}
    BY <1>1, <2>1, <2>2, WhatIsDone
  <2> QED
    BY <2>3
<1>8. ASSUME ~Extracted, BuildsUpOrTearsDown
      PROVE  installed' = TableAfter(Done \cup {i}) /\ response'.status = "OK"
  <2>1. installed = TableAfter(Done)
    BY <1>8 DEF WritesInv, ServerInv
  <2>2. Closed(Done \cup {i})
    <3> SUFFICES ASSUME NEW k \in Done \cup {i}, NEW j \in Indices, MustPrecede(updates[j], updates[k])
                 PROVE  j \in Done
      BY DEF Closed
    <3>1. PICK n \in 1 .. sent : k \in requests[n]
      <4>1. i \in requests[sent] /\ sent \in 1 .. sent
        BY <1>1, <1>5
      <4> QED
        BY <4>1, WhatIsDone
    <3>2. n \in DOMAIN requests
      BY <1>5
    <3>3. PICK m \in 1 .. n - 1 : j \in requests[m]
      BY <1>8, <3>1, <3>2 DEF WritesInv, OrderInv
    <3>4. m \in 1 .. sent /\ m \in DOMAIN requests /\ sent \in DOMAIN requests /\ m # sent
      BY <1>5
    <3>5. j \notin pending
      BY <1>5, <3>3, <3>4 DEF WritesInv, CutInv
    <3> QED
      BY <3>3, <3>4, <3>5, WhatIsDone
  <2> QED
    BY <1>1, <1>6, <1>8, <2>1, <2>2, UpdateIsAccepted DEF WritesInv, Situation
<1>9. ServerInv'
  <2>1. /\ sent' \in 0 .. Len(requests') /\ sent' # 0 /\ pending' \subseteq requests'[sent']
        /\ ~(formed' < Len(batches'))
    BY <1>1, <1>2, <1>4, <1>5 DEF WritesInv, ServerInv
  <2>2. TableAfter(Done)' = TableAfter(Done \cup {i})
    BY <1>3, <1>7
  <2> QED
    BY <1>3, <1>8, <2>1, <2>2 DEF ServerInv
<1> QED
  BY <1>3, <1>9 DEF WritesInv

LEMMA StutterKeepsWrites == WritesInv /\ UNCHANGED allVars => WritesInv'
<1> SUFFICES ASSUME WritesInv, UNCHANGED allVars PROVE WritesInv'
  OBVIOUS
<1>1. UNCHANGED <<sequencerVars, before, maximum, formed, requests, sent, pending, installed, response>>
  BY DEF allVars, writeVars
<1>2. /\ Situation' /\ FormedInv' /\ CutInv' /\ OrderInv'
      /\ Extracted' <=> Extracted
      /\ \A done : TableAfter(done)' = TableAfter(done)
      /\ BuildsUpOrTearsDown' <=> BuildsUpOrTearsDown
  BY <1>1, RequestsStay
<1>3. UNCHANGED batches
  BY <1>1 DEF sequencerVars
<1>4. TableAfter(Done)' = TableAfter(Done)
  BY <1>1, <1>2 DEF Done
<1>5. ServerInv'
  BY <1>1, <1>2, <1>3, <1>4 DEF WritesInv, ServerInv
<1> QED
  BY <1>2, <1>5 DEF WritesInv

------------------------------------------------------------------------------
(* What follows of every execution                                         *)

(* The invariant holds, for all lists, tables and maximums and whatever the *)
(* order in which the server takes the updates of a request.                *)
THEOREM WritesInvariantHolds == WritesSpec => []WritesInv
<1>1. WritesInv /\ [WritesNext]_allVars => WritesInv'
  BY SequenceUpdatesKeeps, RefuseMaximumKeeps, FormRequestsKeeps, SortUpdatesKeeps, ExtractKeeps,
     SendRequestKeeps, ApplyUpdateKeeps, StutterKeepsWrites DEF WritesNext
<1> QED
  BY InitEstablishesWrites, <1>1, PTL DEF WritesSpec

(* The requests the sequencer forms, and the sorted updates, are accepted   *)
(* whenever the list builds up or tears down towards a consistent table.    *)
THEOREM BuildUpAndTearDownAlwaysAccepted == WritesSpec => []BuildUpAndTearDownAccepted
<1>1. WritesInv => BuildUpAndTearDownAccepted
  BY DEF WritesInv, ServerInv, Extracted, BuildUpAndTearDownAccepted
<1> QED
  BY WritesInvariantHolds, <1>1, PTL

(* However the requests are made, they hold every update exactly once and   *)
(* in order, none of them is empty or too long, none mixes batches, and     *)
(* there are as few as the maximum allows; but a list without updates is    *)
(* extracted into one empty request.                                        *)
THEOREM RequestsAlwaysFit == WritesSpec => []RequestsFit
<1>1. WritesInv => RequestsFit
  <2> SUFFICES ASSUME WritesInv PROVE RequestsFit
    OBVIOUS
  <2>1. Situation /\ FormedInv /\ CutInv
    BY DEF WritesInv
  <2>2. AllFormed => UNION {requests[n] : n \in DOMAIN requests} = Indices
    <3> SUFFICES ASSUME AllFormed PROVE \A i \in Indices : Placed(i)
      <4>1. \A n \in DOMAIN requests : requests[n] \subseteq Indices
        BY <2>1 DEF FormedInv
      <4> QED
        BY <4>1 DEF Placed
    <3>1. CASE Sorted \/ Extracted
      BY <2>1, <3>1 DEF CutInv, AllFormed, Sorted, Extracted
    <3>2. CASE ~Sorted /\ ~Extracted
      <4>1. pc = "returned" /\ status = "OK" /\ formed = Len(batches)
        BY <3>2 DEF AllFormed, Sorted, Extracted
      <4>2. IInv
        BY <2>1, <3>2, <4>1 DEF Situation
      <4>3. Indices = Batched /\ batches \in Seq(SUBSET Indices)
        BY <4>1, <4>2 DEF IInv, Types
      <4>4. \A b \in DOMAIN batches : \A i \in batches[b] : Placed(i)
        BY <2>1, <3>2, <4>1, <4>3 DEF FormedInv
      <4> QED
        BY <4>3, <4>4 DEF Batched
    <3> QED
      BY <3>1, <3>2
  <2>3. \A n \in DOMAIN requests :
          /\ maximum # Unlimited => Cardinality(requests[n]) <= maximum
          /\ requests[n] = {} => pc = "extracted" /\ Indices = {}
          /\ pc = "returned" => \E b \in 1 .. formed : requests[n] \subseteq batches[b]
    BY <2>1 DEF FormedInv, CutInv, Sorted, Extracted
  <2>4. ASSUME NEW b \in 1 .. formed
        PROVE  Cardinality({n \in DOMAIN requests : requests[n] \subseteq batches[b]}) = Needed(batches[b])
    <3>1. pc = "returned"
      <4>1. formed > 0
        BY <2>1 DEF FormedInv
      <4> QED
        BY <2>1, <4>1 DEF FormedInv
    <3> QED
      BY <2>1, <3>1 DEF FormedInv, RequestsOf, Sorted, Extracted
  <2>5. pc = "extracted" /\ AllFormed => Len(requests) = IF Indices = {} THEN 1 ELSE Needed(Indices)
    BY <2>1 DEF AllFormed, CutInv, Extracted
  <2> QED
    BY <2>1, <2>2, <2>3, <2>4, <2>5 DEF RequestsFit, CutInv
<1> QED
  BY WritesInvariantHolds, <1>1, PTL

=============================================================================
