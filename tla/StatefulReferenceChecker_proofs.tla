-------------------- MODULE StatefulReferenceChecker_proofs --------------------
(***************************************************************************)
(* The inductive invariant of StatefulReferenceChecker: the counters are   *)
(* those of the installed entities, and every needed reference is          *)
(* satisfied.  Neither half is inductive alone: a removal keeps references *)
(* satisfied only because its counts are exact, and counts of untracked    *)
(* references are known to be zero only because nothing dangles.           *)
(***************************************************************************)
EXTENDS StatefulReferenceChecker, FiniteSetTheorems, WellFoundedInduction, TLAPS

------------------------------------------------------------------------------
(* The references of entities                                              *)

(* What an entity satisfies depends on its key alone, so a caller may pass  *)
(* a key without its action to RemoveEntity, and an update changes nothing  *)
(* of what the entity satisfies.                                            *)
THEOREM SameKeySatisfiesSame ==
  ASSUME NEW d, NEW e, Key(d) = Key(e)
  PROVE  SatisfiedReferences(d) = SatisfiedReferences(e) /\ (SatisfiedOk(d) <=> SatisfiedOk(e))
<1>1. d.kind = e.kind /\ d.table = e.table /\ d.match = e.match
  BY DEF Key
<1>2. IncomingTableReferences(d) = IncomingTableReferences(e)
  BY <1>1 DEF IncomingTableReferences
<1>3. \A frs : FieldsReferredTo(frs, d) = FieldsReferredTo(frs, e)
  BY <1>1 DEF FieldsReferredTo
<1>4. ASSUME NEW tr
      PROVE  PossibleIncomingConcreteTableReferences(tr, d) =
             PossibleIncomingConcreteTableReferences(tr, e)
  <2>1. PossibleMatchPartials(tr, d) = PossibleMatchPartials(tr, e)
    BY <1>3 DEF PossibleMatchPartials
  <2>2. PossibleActionPartials(tr, d) = PossibleActionPartials(tr, e)
    BY <1>3 DEF PossibleActionPartials
  <2> QED
    BY <2>1, <2>2 DEF PossibleIncomingConcreteTableReferences
<1>5. SatisfiedReferences(d) = SatisfiedReferences(e)
  BY <1>2, <1>4, Zenon DEF SatisfiedReferences
<1>6. SatisfiedOk(d) <=> SatisfiedOk(e)
  BY <1>1, <1>2 DEF SatisfiedOk, IsSupportedEntity, IncomingOk, HasReferableMatch
<1> QED
  BY <1>5, <1>6

------------------------------------------------------------------------------
(* The values an entity gives to a set of field references are those the    *)
(* destination enumerates, once both agree on every value.                  *)
LEMMA AgreeingFieldsAreEnumerated ==
  ASSUME NEW d, NEW frs, NEW values,
         \A fr \in frs : values[fr.source.name] = d.match[fr.destination.name]
  PROVE  {ConcreteField(fr, values[fr.source.name]) : fr \in frs} = FieldsReferredTo(frs, d)
BY DEF FieldsReferredTo

(* A reference of one entity is among those another entity says it can     *)
(* satisfy exactly when the other entity has the value of every field.     *)
THEOREM ReferenceMeetsWhenValuesAgree ==
  ASSUME NEW tr \in TableReferences, NEW s, NEW d, OutgoingOk(tr, s),
         NEW r \in OutgoingConcreteTableReferences(tr, s)
  PROVE  r \in PossibleIncomingConcreteTableReferences(tr, d) <=>
           \A f \in r.fields : d.match[f.destination_field.name] = f.value
<1> DEFINE match == PartialReferenceFromMatch(tr, s)
           present == {fr \in MatchReferences(tr) : fr.source.name \in DOMAIN s.match}
           Agrees(fields) == \A f \in fields : d.match[f.destination_field.name] = f.value
<1>1. PICK a \in PartialReferencesFromActions(tr, s) :
        r = ConcreteTable(tr, a \cup match) /\ a \cup match # {}
  BY DEF OutgoingConcreteTableReferences
<1>2. r.fields = a \cup match
  BY <1>1 DEF ConcreteTable
<1>3. \A frs : Agrees(FieldsReferredTo(frs, d))
  BY DEF FieldsReferredTo, ConcreteField
<1>4. ASSUME r \in PossibleIncomingConcreteTableReferences(tr, d)
      PROVE  Agrees(r.fields)
  <2>0. PICK fields \in {m \cup b : m \in PossibleMatchPartials(tr, d),
                                   b \in PossibleActionPartials(tr, d)} :
          r = ConcreteTable(tr, fields)
    BY <1>4 DEF PossibleIncomingConcreteTableReferences
  <2>1. PICK m \in PossibleMatchPartials(tr, d), b \in PossibleActionPartials(tr, d) :
          fields = m \cup b
    OBVIOUS
  <2>2. r.fields = m \cup b
    BY <2>0, <2>1 DEF ConcreteTable
  <2>3. Agrees({})
    OBVIOUS
  <2> HIDE DEF Agrees
  <2>4. Agrees(m)
    <3>1. PICK p \in SUBSET OptionalReferences(tr) :
            m = FieldsReferredTo((MatchReferences(tr) \ OptionalReferences(tr)) \cup p, d)
      BY DEF PossibleMatchPartials
    <3> QED
      BY <1>3, <3>1
  <2>5. Agrees(b)
    BY <1>3, <2>3 DEF PossibleActionPartials
  <2>6. Agrees(m \cup b)
    BY <2>4, <2>5 DEF Agrees
  <2> QED
    BY <2>2, <2>6
<1>5. ASSUME Agrees(r.fields)
      PROVE  r \in PossibleIncomingConcreteTableReferences(tr, d)
  <2>1. match \in PossibleMatchPartials(tr, d)
    <3>1. \A fr \in present : ConcreteField(fr, s.match[fr.source.name]) \in r.fields
      BY <1>2 DEF PartialReferenceFromMatch
    <3>2. \A fr \in present : s.match[fr.source.name] = d.match[fr.destination.name]
      BY <1>5, <3>1 DEF ConcreteField
    <3>3. match = FieldsReferredTo(present, d)
      BY <3>2, AgreeingFieldsAreEnumerated DEF PartialReferenceFromMatch
    <3>4. MatchReferences(tr) \ OptionalReferences(tr) \subseteq present
      BY DEF OutgoingOk, HasReferableMatch, OptionalReferences
    <3>5. present = (MatchReferences(tr) \ OptionalReferences(tr))
                      \cup (present \cap OptionalReferences(tr))
      BY <3>4 DEF OptionalReferences
    <3> QED
      BY <3>3, <3>5 DEF PossibleMatchPartials
  <2>2. a \in PossibleActionPartials(tr, d)
    <3>1. CASE a = {}
      BY <3>1 DEF PossibleActionPartials
    <3>2. CASE a # {}
      <4>1. PICK i \in s.actions : a = PartialReferenceFromAction(tr, i)
        BY <3>2 DEF PartialReferencesFromActions
      <4>2. \A fr \in ActionReferences(tr, i.action) :
              ConcreteField(fr, i.params[fr.source.name]) \in r.fields
        BY <1>2, <4>1 DEF PartialReferenceFromAction
      <4>3. \A fr \in ActionReferences(tr, i.action) :
              i.params[fr.source.name] = d.match[fr.destination.name]
        BY <1>5, <4>2 DEF ConcreteField
      <4>4. a = FieldsReferredTo(ActionReferences(tr, i.action), d)
        BY <4>1, <4>3, AgreeingFieldsAreEnumerated DEF PartialReferenceFromAction
      <4>5. ActionReferences(tr, i.action) # {}
        BY <3>2, <4>1 DEF PartialReferenceFromAction
      <4>6. i.action \in SourceActions(tr)
        BY <4>5 DEF ActionReferences, SourceActions, MatchReferences
      <4> QED
        BY <4>4, <4>6 DEF PossibleActionPartials
    <3> QED
      BY <3>1, <3>2
  <2> QED
    BY <1>1, <2>1, <2>2 DEF PossibleIncomingConcreteTableReferences
<1> QED
  BY <1>4, <1>5

(* An entity satisfies a reference exactly when it is in the destination    *)
(* table of the reference and has the values it asks for.                  *)
THEOREM SatisfiesWhenValuesAgree ==
  ASSUME NEW s, NEW d, NeededOk(s), NEW r \in NeededReferences(s)
  PROVE  r \in SatisfiedReferences(d) <=>
           /\ d.table = r.destination_table
           /\ \A f \in r.fields : d.match[f.destination_field.name] = f.value
<1>1. PICK tr \in OutgoingTableReferences(s) : r \in OutgoingConcreteTableReferences(tr, s)
  BY DEF NeededReferences
<1>2. tr \in TableReferences /\ OutgoingOk(tr, s)
  BY DEF OutgoingTableReferences, NeededOk
<1>3. r.source_table = tr.source /\ r.destination_table = tr.destination
  BY <1>1 DEF OutgoingConcreteTableReferences, ConcreteTable
<1>4. r \in PossibleIncomingConcreteTableReferences(tr, d) <=>
        \A f \in r.fields : d.match[f.destination_field.name] = f.value
  BY <1>1, <1>2, ReferenceMeetsWhenValuesAgree
<1>5. ASSUME NEW t \in TableReferences, r \in PossibleIncomingConcreteTableReferences(t, d)
      PROVE  t = tr
  <2>1. r.source_table = t.source /\ r.destination_table = t.destination
    BY <1>5 DEF PossibleIncomingConcreteTableReferences, ConcreteTable
  <2> QED
    BY <1>2, <1>3, <2>1, GroupedByTables
<1>6. r \in SatisfiedReferences(d) <=>
        d.table = tr.destination /\ r \in PossibleIncomingConcreteTableReferences(tr, d)
  BY <1>2, <1>5 DEF SatisfiedReferences, IncomingTableReferences
<1> QED
  BY <1>3, <1>4, <1>6

(* Needed references lead from the entity's table, satisfied ones to it;    *)
(* table references climb in rank, so no entity satisfies its own needs.   *)
THEOREM NeverSatisfiesItself ==
  ASSUME NEW s, NEW d, NEW r, r \in NeededReferences(s), r \in SatisfiedReferences(d)
  PROVE  /\ s.table \in Tables /\ d.table \in Tables
         /\ DependencyRank[s.table] < DependencyRank[d.table]
<1>1. PICK tr \in OutgoingTableReferences(s) : r \in OutgoingConcreteTableReferences(tr, s)
  BY DEF NeededReferences
<1>2. PICK t \in IncomingTableReferences(d) : r \in PossibleIncomingConcreteTableReferences(t, d)
  BY DEF SatisfiedReferences
<1>3. r.source_table = tr.source /\ r.destination_table = tr.destination
  BY <1>1 DEF OutgoingConcreteTableReferences, ConcreteTable
<1>4. r.source_table = t.source /\ r.destination_table = t.destination
  BY <1>2 DEF PossibleIncomingConcreteTableReferences, ConcreteTable
<1> QED
  BY <1>3, <1>4, RankAssumption DEF OutgoingTableReferences, IncomingTableReferences

(* A finite nonempty set has an element of lowest rank.                     *)
LEMMA LowestRank ==
  ASSUME NEW S, IsFiniteSet(S), S # {}, NEW rank \in [S -> Int]
  PROVE  \E k \in S : \A j \in S : ~ (rank[j] < rank[k])
<1> DEFINE Lower(k) == {j \in S : rank[j] < rank[k]}
           T == {Lower(k) : k \in S}
<1>1. IsWellFoundedOn(StrictSubsetOrdering(S), SUBSET S)
  BY FS_StrictSubsetOrderingWellFounded, FS_FiniteSubsetsOfFinite
<1>2. \A k \in S : Lower(k) \in SUBSET S
  OBVIOUS
<1> HIDE DEF Lower
<1>3. T \subseteq SUBSET S /\ T # {}
  BY <1>2
<1> HIDE DEF T
<1>4. PICK U \in T : \A V \in T : ~ (<<V, U>> \in StrictSubsetOrdering(S))
  BY <1>1, <1>3, WFMin
<1>5. PICK k \in S : U = Lower(k)
  BY DEF T
<1>6. ASSUME NEW j \in S, rank[j] < rank[k]
      PROVE  FALSE
  <2>1. Lower(j) \subseteq Lower(k) /\ j \in Lower(k) /\ j \notin Lower(j)
    BY <1>6 DEF Lower
  <2>2. <<Lower(j), Lower(k)>> \in StrictSubsetOrdering(S)
    BY <1>2, <2>1 DEF StrictSubsetOrdering
  <2>3. Lower(j) \in T
    BY DEF T
  <2> QED
    BY <1>4, <1>5, <2>2, <2>3
<1> QED
  BY <1>6

------------------------------------------------------------------------------
(* The inductive invariant                                                 *)

IInv == TypeOK /\ CountersMatchEntities /\ NoDanglingReferences

(* The invariant as the proofs use it: for every reference, also those no   *)
(* entity mentions.                                                         *)
Exact ==
  \A r : /\ IsFiniteSet(Referrers(r)) /\ IsFiniteSet(Satisfiers(r))
         /\ StateOf(r).referrer_count = Cardinality(Referrers(r))
         /\ StateOf(r).satisfying_count = Cardinality(Satisfiers(r))
         /\ r \in Tracked <=> Satisfiers(r) # {}
         /\ Referrers(r) # {} => Satisfiers(r) # {}

LEMMA NoDanglingMeansSatisfied ==
  NoDanglingReferences <=> \A r : Referrers(r) # {} => Satisfiers(r) # {}
<1>1. NoDanglingReferences <=>
        \A e \in InstalledEntities :
          NeededReferences(e) \subseteq UNION {SatisfiedReferences(d) : d \in InstalledEntities}
  BY DEF NoDanglingReferences, UnsatisfiedOutgoingReferences
<1>2. \A r : Satisfiers(r) # {} <=> r \in UNION {SatisfiedReferences(d) : d \in InstalledEntities}
  BY DEF Satisfiers, InstalledEntities
<1>3. \A r : Referrers(r) # {} <=> \E e \in InstalledEntities : r \in NeededReferences(e)
  BY DEF Referrers, InstalledEntities
<1> QED
  BY <1>1, <1>2, <1>3

LEMMA InvariantIsExact == IInv => Exact
<1> SUFFICES ASSUME IInv, NEW r
             PROVE  /\ IsFiniteSet(Referrers(r)) /\ IsFiniteSet(Satisfiers(r))
                    /\ StateOf(r).referrer_count = Cardinality(Referrers(r))
                    /\ StateOf(r).satisfying_count = Cardinality(Satisfiers(r))
                    /\ r \in Tracked <=> Satisfiers(r) # {}
                    /\ Referrers(r) # {} => Satisfiers(r) # {}
  BY DEF Exact
<1>1. Keys = DOMAIN installed /\ IsFiniteSet(Keys)
  BY DEF IInv, TypeOK, Keys
<1>2. IsFiniteSet(Referrers(r)) /\ IsFiniteSet(Satisfiers(r))
  BY <1>1, FS_Subset DEF Referrers, Satisfiers
<1>3. Referrers(r) # {} => Satisfiers(r) # {}
  BY NoDanglingMeansSatisfied DEF IInv
<1>4. Satisfiers(r) # {} => r \in Tracked
  BY DEF IInv, CountersMatchEntities, Satisfiers
<1>5. CASE r \in Tracked
  <2>1. /\ StateOf(r).referrer_count = Cardinality(Referrers(r))
        /\ StateOf(r).satisfying_count = Cardinality(Satisfiers(r))
    BY <1>5 DEF StateOf, IInv, CountersMatchEntities
  <2>2. concrete_reference_to_state_[r].satisfying_count # 0
    BY <1>5 DEF IInv, TypeOK
  <2>3. Satisfiers(r) # {}
    BY <1>5, <2>1, <2>2, FS_EmptySet DEF StateOf
  <2> QED
    BY <1>2, <1>3, <1>5, <2>1, <2>3
<1>6. CASE r \notin Tracked
  <2>1. Satisfiers(r) = {} /\ Referrers(r) = {}
    BY <1>3, <1>4, <1>6
  <2> QED
    BY <1>2, <1>6, <2>1, FS_EmptySet DEF StateOf
<1> QED
  BY <1>5, <1>6

(* What an operation re-establishes besides the counts.                     *)
Shape ==
  /\ response.status \in Statuses
  /\ IsFiniteSet(Keys)
  /\ entity_key_to_outgoing_references_ =
       [k \in DOMAIN installed |-> NeededReferences(installed[k])]
  /\ \A k \in DOMAIN installed :
       /\ installed[k] \in Entities
       /\ HasKey(installed[k]) /\ NeededOk(installed[k]) /\ SatisfiedOk(installed[k])
       /\ Key(installed[k]) = k
  /\ concrete_reference_to_state_ =
       [r \in Tracked |-> [referrer_count |-> StateOf(r).referrer_count,
                           satisfying_count |-> StateOf(r).satisfying_count]]

LEMMA ExactIsInvariant == Shape /\ Exact => IInv
<1> SUFFICES ASSUME Shape, Exact PROVE IInv
  OBVIOUS
<1>1. \A r \in Tracked :
        /\ StateOf(r).referrer_count \in Nat
        /\ StateOf(r).satisfying_count \in Nat \ {0}
  BY FS_CardinalityType, FS_EmptySet DEF Exact
<1>2. TypeOK
  <2>1. concrete_reference_to_state_ \in
          [Tracked -> [referrer_count : Nat, satisfying_count : Nat \ {0}]]
    BY <1>1 DEF Shape
  <2> QED
    BY <2>1 DEF Shape, TypeOK
<1>3. CountersMatchEntities
  <2>1. \A r \in Tracked :
          /\ concrete_reference_to_state_[r].referrer_count = Cardinality(Referrers(r))
          /\ concrete_reference_to_state_[r].satisfying_count = Cardinality(Satisfiers(r))
    BY DEF Exact, StateOf
  <2>2. \A k \in DOMAIN installed : SatisfiedReferences(installed[k]) \subseteq Tracked
    BY DEF Exact, Satisfiers
  <2> QED
    BY <2>1, <2>2 DEF CountersMatchEntities
<1>4. NoDanglingReferences
  BY NoDanglingMeansSatisfied DEF Exact
<1> QED
  BY <1>2, <1>3, <1>4 DEF IInv

------------------------------------------------------------------------------
LEMMA InitEstablishesInvariant == Init => IInv
<1> SUFFICES ASSUME Init PROVE IInv
  OBVIOUS
<1>1. /\ DOMAIN installed = {} /\ Keys = {} /\ Tracked = {}
      /\ concrete_reference_to_state_ = EmptyMap /\ installed = EmptyMap
      /\ entity_key_to_outgoing_references_ = EmptyMap
  BY DEF Init, EmptyMap, Keys, Tracked
<1>2. Shape
  <2>2. concrete_reference_to_state_ =
          [r \in Tracked |-> [referrer_count |-> StateOf(r).referrer_count,
                              satisfying_count |-> StateOf(r).satisfying_count]]
    BY <1>1 DEF EmptyMap
  <2>3. entity_key_to_outgoing_references_ =
          [k \in DOMAIN installed |-> NeededReferences(installed[k])]
    BY <1>1 DEF EmptyMap
  <2> QED
    BY <1>1, <2>2, <2>3, FS_EmptySet DEF Shape, Init, Statuses
<1>3. Exact
  BY <1>1, FS_EmptySet DEF Exact, Referrers, Satisfiers, StateOf
<1> QED
  BY <1>2, <1>3, ExactIsInvariant

LEMMA RejectPreservesInvariant ==
  ASSUME NEW operation, NEW e, NEW code \in Statuses, IInv, Reject(operation, e, code)
  PROVE  IInv'
BY DEF Reject, Respond, checkerVars, IInv, TypeOK, CountersMatchEntities, NoDanglingReferences,
       Referrers, Satisfiers, Keys, Tracked, InstalledEntities

LEMMA StutterPreservesInvariant == IInv /\ UNCHANGED vars => IInv'
BY DEF vars, checkerVars, IInv, TypeOK, CountersMatchEntities, NoDanglingReferences,
       Referrers, Satisfiers, Keys, Tracked, InstalledEntities

(* Adding a key to a count, or removing it, when it has reference r.        *)
LEMMA CountWithKey ==
  ASSUME NEW S, NEW T, NEW k, NEW r, NEW references, IsFiniteSet(S), k \notin S,
         T = IF r \in references THEN S \cup {k} ELSE S
  PROVE  IsFiniteSet(T) /\ Cardinality(T) = Cardinality(S) + One(r, references)
<1>1. CASE r \in references
  BY <1>1, FS_AddElement, FS_CardinalityType DEF One
<1>2. CASE r \notin references
  BY <1>2, FS_CardinalityType DEF One
<1> QED
  BY <1>1, <1>2

LEMMA CountWithoutKey ==
  ASSUME NEW S, NEW k, NEW r, NEW references, IsFiniteSet(S),
         k \in S <=> r \in references
  PROVE  /\ IsFiniteSet(S \ {k})
         /\ Cardinality(S \ {k}) = Cardinality(S) - One(r, references)
<1>1. CASE r \in references
  BY <1>1, FS_RemoveElement, FS_CardinalityType DEF One
<1>2. CASE r \notin references
  BY <1>2, FS_RemoveElement, FS_CardinalityType DEF One
<1> QED
  BY <1>1, <1>2

LEMMA CommitAddPreservesInvariant ==
  ASSUME IInv, NEW e \in Entities, HasKey(e), Key(e) \notin Keys,
         NeededOk(e), SatisfiedOk(e), MissingReferences(e) = {}, CommitAdd(e)
  PROVE  IInv'
<1> DEFINE k == Key(e)
           needed == NeededReferences(e)
           provided == SatisfiedReferences(e)
<1>1. Exact /\ needed \subseteq Tracked
  BY InvariantIsExact DEF MissingReferences
<1>2. Keys = DOMAIN installed
  BY DEF IInv, TypeOK, Keys
<1>3. /\ DOMAIN installed' = DOMAIN installed \cup {k}
      /\ k \notin DOMAIN installed
      /\ \A j \in DOMAIN installed : installed'[j] = installed[j]
      /\ installed'[k] = e
  BY <1>2 DEF CommitAdd
<1>4. Tracked' = Tracked \cup provided
  BY <1>1 DEF CommitAdd, Tracked
<1>5. ASSUME NEW r
      PROVE  /\ Referrers(r)' = IF r \in needed THEN Referrers(r) \cup {k} ELSE Referrers(r)
             /\ Satisfiers(r)' = IF r \in provided THEN Satisfiers(r) \cup {k} ELSE Satisfiers(r)
             /\ k \notin Referrers(r) /\ k \notin Satisfiers(r)
  BY <1>3 DEF Referrers, Satisfiers
<1>6. ASSUME NEW r
      PROVE  /\ StateOf(r)'.referrer_count = StateOf(r).referrer_count + One(r, needed)
             /\ StateOf(r)'.satisfying_count = StateOf(r).satisfying_count + One(r, provided)
  <2>1. CASE r \in Tracked'
    BY <2>1, <1>4 DEF CommitAdd, StateOf, Tracked
  <2>2. CASE r \notin Tracked'
    BY <2>2, <1>1, <1>4 DEF StateOf, One
  <2> QED
    BY <2>1, <2>2
<1>7. Exact'
  <2> SUFFICES ASSUME NEW r
               PROVE  /\ IsFiniteSet(Referrers(r)') /\ IsFiniteSet(Satisfiers(r)')
                      /\ StateOf(r)'.referrer_count = Cardinality(Referrers(r)')
                      /\ StateOf(r)'.satisfying_count = Cardinality(Satisfiers(r)')
                      /\ r \in Tracked' <=> Satisfiers(r)' # {}
                      /\ Referrers(r)' # {} => Satisfiers(r)' # {}
    BY DEF Exact
  <2>1. /\ IsFiniteSet(Referrers(r)')
        /\ Cardinality(Referrers(r)') = Cardinality(Referrers(r)) + One(r, needed)
    <3>1. /\ IsFiniteSet(Referrers(r)) /\ k \notin Referrers(r)
          /\ Referrers(r)' = IF r \in needed THEN Referrers(r) \cup {k} ELSE Referrers(r)
      BY <1>1, <1>5 DEF Exact
    <3> QED
      BY <3>1, CountWithKey
  <2>2. /\ IsFiniteSet(Satisfiers(r)')
        /\ Cardinality(Satisfiers(r)') = Cardinality(Satisfiers(r)) + One(r, provided)
    <3>1. /\ IsFiniteSet(Satisfiers(r)) /\ k \notin Satisfiers(r)
          /\ Satisfiers(r)' = IF r \in provided THEN Satisfiers(r) \cup {k} ELSE Satisfiers(r)
      BY <1>1, <1>5 DEF Exact
    <3> QED
      BY <3>1, CountWithKey
  <2>3. r \in Tracked' <=> Satisfiers(r)' # {}
    BY <1>1, <1>4, <1>5 DEF Exact
  <2>4. Referrers(r)' # {} => Satisfiers(r)' # {}
    BY <1>1, <1>5 DEF Exact
  <2> QED
    BY <1>1, <1>6, <2>1, <2>2, <2>3, <2>4 DEF Exact
<1>8. Shape'
  <2>1. response'.status \in Statuses
    BY DEF CommitAdd, Respond, Statuses
  <2>2. IsFiniteSet(Keys')
    BY FS_AddElement DEF IInv, TypeOK, CommitAdd, Keys
  <2>3. entity_key_to_outgoing_references_' =
          [j \in DOMAIN installed' |-> NeededReferences(installed'[j])]
    BY <1>2, <1>3 DEF IInv, TypeOK, CommitAdd
  <2>4. \A j \in DOMAIN installed' :
          /\ installed'[j] \in Entities
          /\ HasKey(installed'[j]) /\ NeededOk(installed'[j]) /\ SatisfiedOk(installed'[j])
          /\ Key(installed'[j]) = j
    BY <1>3 DEF IInv, TypeOK
  <2>5. concrete_reference_to_state_' =
          [r \in Tracked' |-> [referrer_count |-> StateOf(r)'.referrer_count,
                               satisfying_count |-> StateOf(r)'.satisfying_count]]
    BY <1>6 DEF CommitAdd, Tracked
  <2> QED
    BY <2>1, <2>2, <2>3, <2>4, <2>5 DEF Shape
<1> QED
  BY <1>7, <1>8, ExactIsInvariant, PTL

LEMMA CommitRemovePreservesInvariant ==
  ASSUME IInv, NEW e \in Entities, HasKey(e), Key(e) \in Keys, CanRemove(e), CommitRemove(e)
  PROVE  IInv'
<1> DEFINE k == Key(e)
           needed == CachedReferences(e)
           provided == SatisfiedReferences(e)
<1> USE DEF Erased
<1>1. Exact
  BY InvariantIsExact
<1>2. Keys = DOMAIN installed /\ k \in DOMAIN installed
  BY DEF IInv, TypeOK, Keys
<1>3. needed = NeededReferences(installed[k]) /\ provided = SatisfiedReferences(installed[k])
  <2>1. Key(installed[k]) = Key(e)
    BY <1>2 DEF IInv, TypeOK
  <2> QED
    BY <1>2, <2>1, SameKeySatisfiesSame DEF IInv, TypeOK, CachedReferences
<1>4. /\ DOMAIN installed' = DOMAIN installed \ {k}
      /\ \A j \in DOMAIN installed' : installed'[j] = installed[j]
  BY DEF CommitRemove
<1>5. ASSUME NEW r
      PROVE  /\ Referrers(r)' = Referrers(r) \ {k}
             /\ Satisfiers(r)' = Satisfiers(r) \ {k}
             /\ k \in Referrers(r) <=> r \in needed
             /\ k \in Satisfiers(r) <=> r \in provided
  BY <1>2, <1>3, <1>4 DEF Referrers, Satisfiers
<1>6. needed \subseteq Tracked /\ provided \subseteq Tracked
  BY <1>1, <1>5 DEF Exact
<1>7. Tracked' = Tracked \ Erased(e)
  BY <1>6 DEF CommitRemove, Tracked
<1>8. ASSUME NEW r
      PROVE  /\ StateOf(r).referrer_count \in Nat
             /\ StateOf(r).satisfying_count \in Nat
             /\ StateOf(r).referrer_count = 0 <=> Referrers(r) = {}
             /\ r \in Erased(e) => StateOf(r).referrer_count = 0 /\ r \notin needed
  <2>1. /\ StateOf(r).referrer_count \in Nat
        /\ StateOf(r).satisfying_count \in Nat
        /\ StateOf(r).referrer_count = 0 <=> Referrers(r) = {}
    BY <1>1, FS_CardinalityType, FS_EmptySet DEF Exact
  <2>2. r \in Erased(e) => StateOf(r).referrer_count = 0
    BY <2>1 DEF CanRemove, IsInUseWithExactlyOneSatisfier
  <2> QED
    BY <1>5, <2>1, <2>2
<1>9. ASSUME NEW r
      PROVE  /\ StateOf(r)'.referrer_count = StateOf(r).referrer_count - One(r, needed)
             /\ StateOf(r)'.satisfying_count = StateOf(r).satisfying_count - One(r, provided)
  <2>1. CASE r \in Tracked'
    BY <2>1, <1>6, <1>7 DEF CommitRemove, StateOf, Tracked
  <2>2. CASE r \in Erased(e)
    BY <2>2, <1>7, <1>8 DEF StateOf, One
  <2>3. CASE r \notin Tracked
    BY <2>3, <1>6, <1>7 DEF StateOf, One
  <2> QED
    BY <2>1, <2>2, <2>3, <1>7
<1>10. Exact'
  <2> SUFFICES ASSUME NEW r
               PROVE  /\ IsFiniteSet(Referrers(r)') /\ IsFiniteSet(Satisfiers(r)')
                      /\ StateOf(r)'.referrer_count = Cardinality(Referrers(r)')
                      /\ StateOf(r)'.satisfying_count = Cardinality(Satisfiers(r)')
                      /\ r \in Tracked' <=> Satisfiers(r)' # {}
                      /\ Referrers(r)' # {} => Satisfiers(r)' # {}
    BY DEF Exact
  <2>1. /\ IsFiniteSet(Referrers(r)')
        /\ Cardinality(Referrers(r)') = Cardinality(Referrers(r)) - One(r, needed)
    <3>1. IsFiniteSet(Referrers(r)) /\ Referrers(r)' = Referrers(r) \ {k} /\ (k \in Referrers(r) <=> r \in needed)
      BY <1>1, <1>5 DEF Exact
    <3>2. /\ IsFiniteSet(Referrers(r) \ {k})
          /\ Cardinality(Referrers(r) \ {k}) = Cardinality(Referrers(r)) - One(r, needed)
      BY <3>1, CountWithoutKey
    <3> QED
      BY <3>1, <3>2
  <2>2. /\ IsFiniteSet(Satisfiers(r)')
        /\ Cardinality(Satisfiers(r)') = Cardinality(Satisfiers(r)) - One(r, provided)
    <3>1. IsFiniteSet(Satisfiers(r)) /\ Satisfiers(r)' = Satisfiers(r) \ {k} /\ (k \in Satisfiers(r) <=> r \in provided)
      BY <1>1, <1>5 DEF Exact
    <3>2. /\ IsFiniteSet(Satisfiers(r) \ {k})
          /\ Cardinality(Satisfiers(r) \ {k}) = Cardinality(Satisfiers(r)) - One(r, provided)
      BY <3>1, CountWithoutKey
    <3> QED
      BY <3>1, <3>2
  <2>3. r \in Tracked' <=> Satisfiers(r)' # {}
    <3>1. CASE r \notin provided
      BY <3>1, <1>1, <1>5, <1>7 DEF Exact
    <3>2. CASE r \in provided
      <4>1. StateOf(r).satisfying_count = Cardinality(Satisfiers(r)')  + 1
        BY <3>2, <1>1, <1>8, <2>2 DEF Exact, One
      <4>2. Cardinality(Satisfiers(r)') = 0 <=> Satisfiers(r)' = {}
        BY <2>2, FS_EmptySet
      <4>3. Cardinality(Satisfiers(r)') \in Nat
        BY <2>2, FS_CardinalityType
      <4> QED
        BY <3>2, <1>6, <1>7, <4>1, <4>2, <4>3
    <3> QED
      BY <3>1, <3>2
  <2>4. Referrers(r)' # {} => Satisfiers(r)' # {}
    <3> SUFFICES ASSUME Referrers(r)' # {} PROVE r \in Tracked'
      BY <2>3
    <3>1. Referrers(r) # {} /\ r \in Tracked
      BY <1>1, <1>5 DEF Exact
    <3> QED
      BY <3>1, <1>7, <1>8
  <2> QED
    BY <1>1, <1>9, <2>1, <2>2, <2>3, <2>4 DEF Exact
<1>11. Shape'
  <2>1. response'.status \in Statuses
    BY DEF CommitRemove, Respond, Statuses
  <2>2. IsFiniteSet(Keys')
    BY FS_RemoveElement DEF IInv, TypeOK, CommitRemove, Keys
  <2>3. entity_key_to_outgoing_references_' =
          [j \in DOMAIN installed' |-> NeededReferences(installed'[j])]
    BY <1>2, <1>4 DEF IInv, TypeOK, CommitRemove
  <2>4. \A j \in DOMAIN installed' :
          /\ installed'[j] \in Entities
          /\ HasKey(installed'[j]) /\ NeededOk(installed'[j]) /\ SatisfiedOk(installed'[j])
          /\ Key(installed'[j]) = j
    BY <1>4 DEF IInv, TypeOK
  <2>5. concrete_reference_to_state_' =
          [r \in Tracked' |-> [referrer_count |-> StateOf(r)'.referrer_count,
                               satisfying_count |-> StateOf(r)'.satisfying_count]]
    BY <1>9 DEF CommitRemove, Tracked
  <2> QED
    BY <2>1, <2>2, <2>3, <2>4, <2>5 DEF Shape
<1> QED
  BY <1>10, <1>11, ExactIsInvariant, PTL

LEMMA CommitUpdatePreservesInvariant ==
  ASSUME IInv, NEW e \in Entities, HasKey(e), Key(e) \in Keys,
         NeededOk(e), MissingReferences(e) = {}, CommitUpdate(e)
  PROVE  IInv'
<1> DEFINE k == Key(e)
           old == CachedReferences(e)
           needed == NeededReferences(e)
<1>1. Exact /\ needed \subseteq Tracked
  BY InvariantIsExact DEF MissingReferences
<1>2. Keys = DOMAIN installed /\ k \in DOMAIN installed
  BY DEF IInv, TypeOK, Keys
<1>3. /\ old = NeededReferences(installed[k])
      /\ SatisfiedReferences(e) = SatisfiedReferences(installed[k])
      /\ SatisfiedOk(e)
  <2>1. Key(installed[k]) = Key(e) /\ SatisfiedOk(installed[k])
    BY <1>2 DEF IInv, TypeOK
  <2> QED
    BY <1>2, <2>1, SameKeySatisfiesSame DEF IInv, TypeOK, CachedReferences
<1>4. /\ DOMAIN installed' = DOMAIN installed
      /\ \A j \in DOMAIN installed : j # k => installed'[j] = installed[j]
      /\ installed'[k] = e
  BY <1>2 DEF CommitUpdate
<1>5. ASSUME NEW r
      PROVE  /\ Referrers(r)' = IF r \in needed THEN (Referrers(r) \ {k}) \cup {k}
                                ELSE Referrers(r) \ {k}
             /\ Satisfiers(r)' = Satisfiers(r)
             /\ k \in Referrers(r) <=> r \in old
  BY <1>2, <1>3, <1>4 DEF Referrers, Satisfiers
<1>6. old \subseteq Tracked
  BY <1>1, <1>5 DEF Exact
<1>7. Tracked' = Tracked
  BY <1>1, <1>6 DEF CommitUpdate, Tracked
<1>8. \A r \in Tracked : StateOf(r) \in [referrer_count : Nat, satisfying_count : Nat \ {0}]
  BY DEF StateOf, IInv, TypeOK
<1>9. ASSUME NEW r
      PROVE  /\ StateOf(r)'.referrer_count =
                   StateOf(r).referrer_count - One(r, old) + One(r, needed)
             /\ StateOf(r)'.satisfying_count = StateOf(r).satisfying_count
  <2>1. CASE r \in Tracked
    BY <2>1, <1>1, <1>6, <1>7, <1>8 DEF CommitUpdate, StateOf, Tracked
  <2>2. CASE r \notin Tracked
    BY <2>2, <1>1, <1>6, <1>7 DEF StateOf, One
  <2> QED
    BY <2>1, <2>2
<1>10. Exact'
  <2> SUFFICES ASSUME NEW r
               PROVE  /\ IsFiniteSet(Referrers(r)') /\ IsFiniteSet(Satisfiers(r)')
                      /\ StateOf(r)'.referrer_count = Cardinality(Referrers(r)')
                      /\ StateOf(r)'.satisfying_count = Cardinality(Satisfiers(r)')
                      /\ r \in Tracked' <=> Satisfiers(r)' # {}
                      /\ Referrers(r)' # {} => Satisfiers(r)' # {}
    BY DEF Exact
  <2>1. /\ IsFiniteSet(Referrers(r) \ {k})
        /\ Cardinality(Referrers(r) \ {k}) = Cardinality(Referrers(r)) - One(r, old)
    <3>1. IsFiniteSet(Referrers(r)) /\ (k \in Referrers(r) <=> r \in old)
      BY <1>1, <1>5 DEF Exact
    <3> QED
      BY <3>1, CountWithoutKey
  <2>2. /\ IsFiniteSet(Referrers(r)')
        /\ Cardinality(Referrers(r)') = Cardinality(Referrers(r) \ {k}) + One(r, needed)
    <3> DEFINE others == Referrers(r) \ {k}
    <3>1. /\ k \notin others /\ IsFiniteSet(others)
          /\ Referrers(r)' = IF r \in needed THEN others \cup {k} ELSE others
      BY <1>5, <2>1
    <3> HIDE DEF others
    <3>2. IsFiniteSet(Referrers(r)') /\ Cardinality(Referrers(r)') = Cardinality(others) + One(r, needed)
      BY <3>1, CountWithKey
    <3> QED
      BY <3>2 DEF others
  <2> QED
    BY <1>1, <1>5, <1>7, <1>9, <2>1, <2>2 DEF Exact
<1>11. Shape'
  <2>1. response'.status \in Statuses
    BY DEF CommitUpdate, Respond, Statuses
  <2>2. IsFiniteSet(Keys')
    BY DEF IInv, TypeOK, CommitUpdate, Keys
  <2>3. entity_key_to_outgoing_references_' =
          [j \in DOMAIN installed' |-> NeededReferences(installed'[j])]
    BY <1>2, <1>4 DEF IInv, TypeOK, CommitUpdate
  <2>4. \A j \in DOMAIN installed' :
          /\ installed'[j] \in Entities
          /\ HasKey(installed'[j]) /\ NeededOk(installed'[j]) /\ SatisfiedOk(installed'[j])
          /\ Key(installed'[j]) = j
    BY <1>3, <1>4 DEF IInv, TypeOK
  <2>5. concrete_reference_to_state_' =
          [r \in Tracked' |-> [referrer_count |-> StateOf(r)'.referrer_count,
                               satisfying_count |-> StateOf(r)'.satisfying_count]]
    BY <1>7, <1>8, <1>9, <1>1, <1>6 DEF CommitUpdate, Tracked
  <2> QED
    BY <2>1, <2>2, <2>3, <2>4, <2>5 DEF Shape
<1> QED
  BY <1>10, <1>11, ExactIsInvariant, PTL

------------------------------------------------------------------------------
(* Every step of the checker preserves the invariant.                       *)
LEMMA NextPreservesInvariant == IInv /\ [Next]_vars => IInv'
<1> SUFFICES ASSUME IInv, [Next]_vars PROVE IInv'
  OBVIOUS
<1>1. ASSUME NEW e \in Entities, AddEntity(e)
      PROVE  IInv'
  BY <1>1, RejectPreservesInvariant, CommitAddPreservesInvariant DEF AddEntity, Statuses
<1>2. ASSUME NEW e \in Entities, RemoveEntity(e)
      PROVE  IInv'
  BY <1>2, RejectPreservesInvariant, CommitRemovePreservesInvariant DEF RemoveEntity, Statuses
<1>3. ASSUME NEW e \in Entities, UpdateEntity(e)
      PROVE  IInv'
  BY <1>3, RejectPreservesInvariant, CommitUpdatePreservesInvariant DEF UpdateEntity, Statuses
<1>4. CASE UNCHANGED vars
  BY <1>4, StutterPreservesInvariant
<1> QED
  BY <1>1, <1>2, <1>3, <1>4 DEF Next

(* The counters are exact and nothing dangles after any history.            *)
THEOREM InvariantHolds == Spec => []IInv
<1>1. Init => IInv
  BY InitEstablishesInvariant
<1>2. IInv /\ [Next]_vars => IInv'
  BY NextPreservesInvariant
<1> QED
  BY <1>1, <1>2, PTL DEF Spec

(* Counters stay natural and positive for satisfied references, and the    *)
(* checker holds exactly the needs of well-formed entities.                *)
THEOREM TypeCorrect == Spec => []TypeOK
<1>1. IInv => TypeOK
  BY DEF IInv
<1> QED
  BY <1>1, InvariantHolds, PTL

(* CheckInvariantsForTesting and the exact satisfying counts, after every   *)
(* history of any number of entities.                                       *)
THEOREM CountersAreExact == Spec => []CountersMatchEntities
<1>1. IInv => CountersMatchEntities
  BY DEF IInv
<1> QED
  BY <1>1, InvariantHolds, PTL

(* No accepted operation leaves a dangling reference behind.                *)
THEOREM NothingEverDangles == Spec => []NoDanglingReferences
<1>1. IInv => NoDanglingReferences
  BY DEF IInv
<1> QED
  BY <1>1, InvariantHolds, PTL

(* The two enumerations of references meet exactly on agreeing values.      *)
THEOREM EnumerationsMeet == Spec => []ReferencesMeetWhenValuesAgree
<1>1. ReferencesMeetWhenValuesAgree
  BY SatisfiesWhenValuesAgree DEF ReferencesMeetWhenValuesAgree
<1> QED
  BY <1>1, PTL

------------------------------------------------------------------------------
(* The entity of lowest rank has no referrer.                               *)
THEOREM NeverWedged == Spec => []SomethingCanBeRemoved
<1>1. IInv => SomethingCanBeRemoved
  <2> SUFFICES ASSUME IInv, DOMAIN installed # {}
               PROVE  \E e \in InstalledEntities : CanRemove(e)
    BY DEF SomethingCanBeRemoved
  <2> DEFINE rank == [k \in DOMAIN installed |-> DependencyRank[installed[k].table]]
  <2>1. Exact
    BY InvariantIsExact
  <2>2. IsFiniteSet(DOMAIN installed)
    BY DEF IInv, TypeOK, Keys
  <2>4. rank \in [DOMAIN installed -> Int]
    BY RankAssumption DEF IInv, TypeOK, NeededOk, IsSupportedEntity
  <2> HIDE DEF rank
  <2>5. PICK k \in DOMAIN installed : \A j \in DOMAIN installed : ~ (rank[j] < rank[k])
    BY <2>2, <2>4, LowestRank
  <2>6. ASSUME NEW r \in SatisfiedReferences(installed[k])
        PROVE  Referrers(r) = {}
    BY <2>5, NeverSatisfiesItself DEF Referrers, rank
  <2>7. \A r \in SatisfiedReferences(installed[k]) : StateOf(r).referrer_count = 0
    BY <2>1, <2>6, FS_EmptySet DEF Exact
  <2> QED
    BY <2>7 DEF InstalledEntities, CanRemove, IsInUseWithExactlyOneSatisfier
<1> QED
  BY <1>1, InvariantHolds, PTL

------------------------------------------------------------------------------
(* StatefulReferenceChecker implements ReferenceIntegrity: every decision  *)
(* it takes from its counters is the one the abstract table takes by       *)
(* looking at all its entities.                                            *)

(* Both specifications read references in the same way.                    *)
LEMMA SameReferences ==
  ASSUME NEW e
  PROVE  /\ Abstract!NeededReferences(e) = NeededReferences(e)
         /\ Abstract!SatisfiedReferences(e) = SatisfiedReferences(e)
         /\ Abstract!NeededOk(e) <=> NeededOk(e)
         /\ Abstract!SatisfiedOk(e) <=> SatisfiedOk(e)
         /\ Abstract!HasKey(e) <=> HasKey(e)
         /\ Abstract!Key(e) = Key(e)
<1>1. Abstract!NeededReferences(e) = NeededReferences(e)
  BY DEF NeededReferences, Abstract!NeededReferences,
         OutgoingTableReferences, Abstract!OutgoingTableReferences,
         OutgoingConcreteTableReferences, Abstract!OutgoingConcreteTableReferences,
         PartialReferencesFromActions, Abstract!PartialReferencesFromActions,
         PartialReferenceFromAction, Abstract!PartialReferenceFromAction,
         PartialReferenceFromMatch, Abstract!PartialReferenceFromMatch,
         MatchReferences, Abstract!MatchReferences,
         ActionReferences, Abstract!ActionReferences,
         ConcreteField, Abstract!ConcreteField,
         ConcreteTable, Abstract!ConcreteTable
<1>2. Abstract!SatisfiedReferences(e) = SatisfiedReferences(e)
  BY DEF SatisfiedReferences, Abstract!SatisfiedReferences,
         IncomingTableReferences, Abstract!IncomingTableReferences,
         PossibleIncomingConcreteTableReferences, Abstract!PossibleIncomingConcreteTableReferences,
         PossibleMatchPartials, Abstract!PossibleMatchPartials,
         PossibleActionPartials, Abstract!PossibleActionPartials,
         FieldsReferredTo, Abstract!FieldsReferredTo,
         OptionalReferences, Abstract!OptionalReferences,
         SourceActions, Abstract!SourceActions,
         MatchReferences, Abstract!MatchReferences,
         ActionReferences, Abstract!ActionReferences,
         ConcreteField, Abstract!ConcreteField,
         ConcreteTable, Abstract!ConcreteTable
<1>3. Abstract!NeededOk(e) <=> NeededOk(e)
  BY DEF NeededOk, Abstract!NeededOk,
         IsSupportedEntity, Abstract!IsSupportedEntity,
         OutgoingTableReferences, Abstract!OutgoingTableReferences,
         OutgoingOk, Abstract!OutgoingOk,
         IsSupported, Abstract!IsSupported,
         HasReferableMatch, Abstract!HasReferableMatch,
         MatchReferences, Abstract!MatchReferences,
         ActionReferences, Abstract!ActionReferences
<1>4. Abstract!SatisfiedOk(e) <=> SatisfiedOk(e)
  BY DEF SatisfiedOk, Abstract!SatisfiedOk,
         IsSupportedEntity, Abstract!IsSupportedEntity,
         IncomingTableReferences, Abstract!IncomingTableReferences,
         IncomingOk, Abstract!IncomingOk,
         IsSupported, Abstract!IsSupported,
         HasReferableMatch, Abstract!HasReferableMatch
<1>5. (Abstract!HasKey(e) <=> HasKey(e)) /\ Abstract!Key(e) = Key(e)
  BY DEF HasKey, Abstract!HasKey,
         Key, Abstract!Key
<1> QED
  BY <1>1, <1>2, <1>3, <1>4, <1>5

LEMMA SameUnsatisfied ==
  ASSUME NEW entities
  PROVE  Abstract!UnsatisfiedOutgoingReferences(entities) = UnsatisfiedOutgoingReferences(entities)
BY SameReferences DEF UnsatisfiedOutgoingReferences, Abstract!UnsatisfiedOutgoingReferences

(* A table has no dangling reference exactly when all its needs are met.    *)
LEMMA NothingDanglesWhenSatisfied ==
  ASSUME NEW store
  PROVE  Abstract!NothingDangles(store) <=>
           \A j \in DOMAIN store : \A r \in NeededReferences(store[j]) :
             \E k \in DOMAIN store : r \in SatisfiedReferences(store[k])
<1> DEFINE entities == Abstract!Image(store)
<1>1. Abstract!NothingDangles(store) <=> UnsatisfiedOutgoingReferences(entities) = {}
  BY SameUnsatisfied DEF Abstract!NothingDangles
<1>2. UnsatisfiedOutgoingReferences(entities) = {} <=>
        \A e \in entities :
          NeededReferences(e) \subseteq UNION {SatisfiedReferences(d) : d \in entities}
  BY DEF UnsatisfiedOutgoingReferences
<1> QED
  BY <1>1, <1>2 DEF Abstract!Image

LEMMA SameInstalled ==
  ASSUME IInv, NEW e
  PROVE  Abstract!IsInstalled(e) <=> HasKey(e) /\ Key(e) \in Keys
BY SameReferences DEF Abstract!IsInstalled, IInv, TypeOK, Keys

(* A rejection of the checker is one of the abstract table.                 *)
LEMMA SameReject ==
  ASSUME NEW operation, NEW e, NEW code, Reject(operation, e, code)
  PROVE  Abstract!Reject(operation, e, code)
BY DEF Reject, Respond, Abstract!Reject, Abstract!Respond

(* The table a commit leads to has no dangling reference.                   *)
LEMMA InvariantAllowsTable == IInv => Abstract!NothingDangles(installed)
<1> SUFFICES ASSUME IInv PROVE Abstract!NothingDangles(installed)
  OBVIOUS
<1>1. \A r : Referrers(r) # {} => Satisfiers(r) # {}
  BY InvariantIsExact DEF Exact
<1> QED
  BY <1>1, NothingDanglesWhenSatisfied DEF Referrers, Satisfiers

LEMMA KeylessIsMalformed == \A e : ~HasKey(e) => ~NeededOk(e)
BY DEF HasKey, NeededOk, IsSupportedEntity

(* A reference no installed entity satisfies stays unsatisfied when an      *)
(* entity that needs it is added or updated.                                *)
LEMMA MissingReferenceDangles ==
  ASSUME IInv, NEW e, NeededOk(e), MissingReferences(e) # {},
         Key(e) \in Keys => SatisfiedReferences(e) = SatisfiedReferences(installed[Key(e)])
  PROVE  ~ Abstract!NothingDangles(Abstract!With(installed, e))
<1> DEFINE store == Abstract!With(installed, e)
<1>1. PICK r \in NeededReferences(e) : r \notin Tracked
  BY DEF MissingReferences
<1>2. Satisfiers(r) = {}
  BY <1>1, InvariantIsExact DEF Exact
<1>3. /\ DOMAIN store = DOMAIN installed \cup {Key(e)}
      /\ store[Key(e)] = e
      /\ \A k \in DOMAIN installed : k # Key(e) => store[k] = installed[k]
  BY SameReferences DEF Abstract!With
<1>4. r \notin SatisfiedReferences(e)
  BY <1>1, NeverSatisfiesItself, RankAssumption
<1> HIDE DEF store
<1>5. \A k \in DOMAIN store : r \notin SatisfiedReferences(store[k])
  BY <1>2, <1>3, <1>4 DEF Satisfiers
<1> QED
  BY <1>1, <1>3, <1>5, NothingDanglesWhenSatisfied DEF store

LEMMA AddImplements ==
  ASSUME IInv, IInv', NEW e \in Entities, AddEntity(e)
  PROVE  Abstract!Next
<1>1. CASE ~HasKey(e) /\ Reject("Add", e, "MALFORMED")
  BY <1>1, KeylessIsMalformed, SameInstalled, SameReferences, SameReject DEF Abstract!Next, Abstract!Add
<1>2. CASE HasKey(e) /\ Key(e) \in Keys /\ Reject("Add", e, "ALREADY_EXISTS")
  BY <1>2, SameInstalled, SameReject DEF Abstract!Next, Abstract!Add
<1>3. CASE HasKey(e) /\ Key(e) \notin Keys /\ ~NeededOk(e) /\ Reject("Add", e, "MALFORMED")
  BY <1>3, SameInstalled, SameReferences, SameReject DEF Abstract!Next, Abstract!Add
<1>4. CASE /\ HasKey(e) /\ Key(e) \notin Keys /\ NeededOk(e)
           /\ MissingReferences(e) # {} /\ Reject("Add", e, "FAILED_PRECONDITION")
  <2>1. CASE ~SatisfiedOk(e)
    BY <1>4, <2>1, SameInstalled, SameReferences, SameReject DEF Abstract!Next, Abstract!Add
  <2>2. CASE SatisfiedOk(e)
    <3>1. Abstract!Attempt("Add", e, Abstract!With(installed, e))
      BY <1>4, MissingReferenceDangles, SameReject DEF Abstract!Attempt
    <3> QED
      BY <1>4, <2>2, <3>1, SameInstalled, SameReferences DEF Abstract!Next, Abstract!Add
  <2> QED
    BY <2>1, <2>2
<1>5. CASE HasKey(e) /\ Key(e) \notin Keys /\ ~SatisfiedOk(e) /\ Reject("Add", e, "MALFORMED")
  BY <1>5, SameInstalled, SameReferences, SameReject DEF Abstract!Next, Abstract!Add
<1>6. CASE HasKey(e) /\ Key(e) \notin Keys /\ NeededOk(e) /\ SatisfiedOk(e) /\ CommitAdd(e)
  <2>1. installed' = Abstract!With(installed, e)
    BY <1>6, SameReferences DEF CommitAdd, Abstract!With
  <2>2. Abstract!NothingDangles(installed')
    <3>1. Abstract!NothingDangles(installed)'
      BY InvariantAllowsTable, PTL
    <3> QED
      BY <3>1
  <2>3. Abstract!Attempt("Add", e, Abstract!With(installed, e))
    BY <1>6, <2>1, <2>2 DEF Abstract!Attempt, Abstract!Respond, Respond, CommitAdd
  <2> QED
    BY <1>6, <2>3, SameInstalled, SameReferences DEF Abstract!Next, Abstract!Add
<1> QED
  BY <1>1, <1>2, <1>3, <1>4, <1>5, <1>6 DEF AddEntity

(* Removing the only entity that satisfies a reference in use leaves it     *)
(* dangling: the referrer is another entity.                                *)
LEMMA RefusedRemovalDangles ==
  ASSUME IInv, NEW e, Key(e) \in Keys, ~CanRemove(e)
  PROVE  ~ Abstract!NothingDangles(Abstract!Without(installed, e))
<1> DEFINE k == Key(e)
           store == Abstract!Without(installed, e)
<1>1. Keys = DOMAIN installed /\ Key(installed[k]) = Key(e)
  BY DEF IInv, TypeOK, Keys
<1>2. PICK r \in SatisfiedReferences(e) : IsInUseWithExactlyOneSatisfier(r)
  BY DEF CanRemove
<1>3. r \in SatisfiedReferences(installed[k])
  BY <1>1, <1>2, SameKeySatisfiesSame
<1>4. /\ IsFiniteSet(Referrers(r)) /\ IsFiniteSet(Satisfiers(r))
      /\ Cardinality(Referrers(r)) > 0 /\ Cardinality(Satisfiers(r)) = 1
  BY <1>2, InvariantIsExact DEF Exact, IsInUseWithExactlyOneSatisfier
<1>5. PICK j : j \in Referrers(r)
  BY <1>4, FS_EmptySet
<1>6. j \in DOMAIN installed /\ r \in NeededReferences(installed[j])
  BY <1>5 DEF Referrers
<1>7. j # k
  BY <1>3, <1>6, NeverSatisfiesItself, RankAssumption
<1>8. PICK x : Satisfiers(r) = {x}
  BY <1>4, FS_Singleton
<1>9. Satisfiers(r) = {k}
  BY <1>1, <1>3, <1>8 DEF Satisfiers
<1>10. /\ DOMAIN store = DOMAIN installed \ {k}
       /\ \A i \in DOMAIN store : store[i] = installed[i]
  BY SameReferences DEF Abstract!Without
<1> HIDE DEF store
<1>11. \A i \in DOMAIN store : r \notin SatisfiedReferences(store[i])
  BY <1>9, <1>10 DEF Satisfiers
<1>12. j \in DOMAIN store /\ r \in NeededReferences(store[j])
  BY <1>6, <1>7, <1>10
<1> QED
  BY <1>11, <1>12, NothingDanglesWhenSatisfied DEF store

LEMMA RemoveImplements ==
  ASSUME IInv, IInv', NEW e \in Entities, RemoveEntity(e)
  PROVE  Abstract!Next
<1>1. CASE ~HasKey(e) /\ Reject("Remove", e, "MALFORMED")
  BY <1>1, KeylessIsMalformed, SameInstalled, SameReferences, SameReject DEF Abstract!Next, Abstract!Remove
<1>2. CASE HasKey(e) /\ Key(e) \notin Keys /\ Reject("Remove", e, "NOT_FOUND")
  BY <1>2, SameInstalled, SameReferences, SameReject DEF Abstract!Next, Abstract!Remove
<1>3. CASE HasKey(e) /\ Key(e) \in Keys /\ ~CanRemove(e) /\ Reject("Remove", e, "FAILED_PRECONDITION")
  <2>1. Abstract!Attempt("Remove", e, Abstract!Without(installed, e))
    BY <1>3, RefusedRemovalDangles, SameReject DEF Abstract!Attempt
  <2> QED
    BY <1>3, <2>1, SameInstalled DEF Abstract!Next, Abstract!Remove
<1>4. CASE HasKey(e) /\ Key(e) \in Keys /\ CanRemove(e) /\ CommitRemove(e)
  <2>1. installed' = Abstract!Without(installed, e)
    BY <1>4, SameReferences DEF CommitRemove, Abstract!Without
  <2>2. Abstract!NothingDangles(installed')
    <3>1. Abstract!NothingDangles(installed)'
      BY InvariantAllowsTable, PTL
    <3> QED
      BY <3>1
  <2>3. Abstract!Attempt("Remove", e, Abstract!Without(installed, e))
    BY <1>4, <2>1, <2>2 DEF Abstract!Attempt, Abstract!Respond, Respond, CommitRemove
  <2> QED
    BY <1>4, <2>3, SameInstalled DEF Abstract!Next, Abstract!Remove
<1> QED
  BY <1>1, <1>2, <1>3, <1>4 DEF RemoveEntity

LEMMA UpdateImplements ==
  ASSUME IInv, IInv', NEW e \in Entities, UpdateEntity(e)
  PROVE  Abstract!Next
<1>1. CASE ~HasKey(e) /\ Reject("Update", e, "MALFORMED")
  BY <1>1, KeylessIsMalformed, SameInstalled, SameReferences, SameReject DEF Abstract!Next, Abstract!Update
<1>2. CASE HasKey(e) /\ Key(e) \notin Keys /\ Reject("Update", e, "NOT_FOUND")
  BY <1>2, SameInstalled, SameReferences, SameReject DEF Abstract!Next, Abstract!Update
<1>3. CASE HasKey(e) /\ Key(e) \in Keys /\ ~NeededOk(e) /\ Reject("Update", e, "MALFORMED")
  BY <1>3, SameInstalled, SameReferences, SameReject DEF Abstract!Next, Abstract!Update
<1>4. ASSUME HasKey(e), Key(e) \in Keys, NeededOk(e),
             Abstract!Attempt("Update", e, Abstract!With(installed, e))
      PROVE  Abstract!Next
  BY <1>4, SameInstalled, SameReferences DEF Abstract!Next, Abstract!Update
<1>5. CASE /\ HasKey(e) /\ Key(e) \in Keys /\ NeededOk(e)
           /\ MissingReferences(e) # {} /\ Reject("Update", e, "FAILED_PRECONDITION")
  <2>1. SatisfiedReferences(e) = SatisfiedReferences(installed[Key(e)])
    <3>1. Key(installed[Key(e)]) = Key(e)
      BY <1>5 DEF IInv, TypeOK, Keys
    <3> QED
      BY <3>1, SameKeySatisfiesSame
  <2>2. Abstract!Attempt("Update", e, Abstract!With(installed, e))
    BY <1>5, <2>1, MissingReferenceDangles, SameReject DEF Abstract!Attempt
  <2> QED
    BY <1>4, <1>5, <2>2
<1>6. CASE HasKey(e) /\ Key(e) \in Keys /\ NeededOk(e) /\ CommitUpdate(e)
  <2>1. installed' = Abstract!With(installed, e)
    <3>1. Key(e) \in DOMAIN installed
      BY <1>6 DEF IInv, TypeOK, Keys
    <3> QED
      BY <1>6, <3>1, SameReferences DEF CommitUpdate, Abstract!With
  <2>2. Abstract!NothingDangles(installed')
    <3>1. Abstract!NothingDangles(installed)'
      BY InvariantAllowsTable, PTL
    <3> QED
      BY <3>1
  <2>3. Abstract!Attempt("Update", e, Abstract!With(installed, e))
    BY <1>6, <2>1, <2>2 DEF Abstract!Attempt, Abstract!Respond, Respond, CommitUpdate
  <2> QED
    BY <1>4, <1>6, <2>3
<1> QED
  BY <1>1, <1>2, <1>3, <1>5, <1>6 DEF UpdateEntity

------------------------------------------------------------------------------
(* For every P4 program and every set of entities, the checker decides as   *)
(* the abstract table does.                                                 *)
THEOREM CheckerImplementsReferenceIntegrity == Spec => ImplementsReferenceIntegrity
<1>1. Init => Abstract!Init
  BY DEF Init, Abstract!Init, EmptyMap
<1>2. IInv /\ IInv' /\ [Next]_vars => [Abstract!Next]_Abstract!vars
  <2> SUFFICES ASSUME IInv, IInv', [Next]_vars PROVE [Abstract!Next]_Abstract!vars
    OBVIOUS
  <2>1. CASE UNCHANGED vars
    BY <2>1 DEF vars, Abstract!vars
  <2>2. CASE Next
    BY <2>2, AddImplements, RemoveImplements, UpdateImplements DEF Next
  <2> QED
    BY <2>1, <2>2
<1> QED
  BY <1>1, <1>2, InvariantHolds, PTL DEF Spec, ImplementsReferenceIntegrity, Abstract!Spec

=============================================================================
