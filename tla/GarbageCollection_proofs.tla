----------------------- MODULE GarbageCollection_proofs -----------------------
(***************************************************************************)
(* GetEntitiesUnreachableFromRoots returns what no root refers to, for     *)
(* every program and every list of entities.                               *)
(***************************************************************************)
EXTENDS GarbageCollection, TLAPS

Satisfied(j) == SatisfiedReferences(entities[j])

Found == frontier_indices \cup reached_indices

(* The search is sound (the first two parts), what it has not found yet is  *)
(* still recorded, and what the reached entities need is recorded no more.  *)
SearchInv ==
  /\ Found \subseteq Reachable
  /\ \A r \in Recorded : \A j \in potentially_reachable_entries[r] : r \in Satisfied(j)
  /\ \A i \in 1 .. scanned : is_root[i] = "yes" => i \in Found
  /\ \A j \in 1 .. scanned : \A r \in Satisfied(j) :
       j \in Found \/ (r \in Recorded /\ j \in potentially_reachable_entries[r])
  /\ \A i \in reached_indices : NeededReferences(entities[i]) \cap Recorded = {}
  /\ \A j \in 1 .. scanned : j \in unreachable_indices \/ j \in Found \/ Satisfied(j) # {}
  /\ \A j \in unreachable_indices : Satisfied(j) = {} /\ j \notin Found

IInv ==
  /\ Len(entities) \in Nat
  /\ TypeOK
  /\ pc # "returned" => SearchInv
  /\ pc = "scan" => reached_indices = {}
  /\ pc = "expand" => scanned = Len(entities)
  /\ ReturnsExactlyTheUnreachable

LEMMA SameInput ==
  ASSUME UNCHANGED inputVars
  PROVE  /\ entities' = entities /\ is_root' = is_root
         /\ Indices' = Indices /\ Reachable' = Reachable
         /\ \A j : Satisfied(j)' = Satisfied(j)
  <1>1. entities' = entities /\ is_root' = is_root
    BY DEF inputVars
  <1> QED
    BY <1>1 DEF Indices, Reachable, ClosedFromRoots, Roots, RefersTo, Satisfied

LEMMA RootsAreReachable ==
  ASSUME NEW i \in Indices, is_root[i] = "yes"
  PROVE  i \in Reachable
  BY DEF Reachable, ClosedFromRoots, Roots

LEMMA ReferencesReach ==
  ASSUME NEW i \in Reachable, NEW j \in Indices, RefersTo(i, j)
  PROVE  j \in Reachable
  BY DEF Reachable, ClosedFromRoots

LEMMA LeastClosed ==
  ASSUME NEW S \in SUBSET Indices, ClosedFromRoots(S)
  PROVE  Reachable \subseteq S
  BY DEF Reachable

(* An entity of a table that is referred to is recorded under a reference.  *)
LEMMA ReferencedIsRecorded ==
  ASSUME NEW e, IncomingTableReferences(e) # {}
  PROVE  SatisfiedReferences(e) # {}
  <1>1. PICK tr \in IncomingTableReferences(e) : tr \in TableReferences
    BY DEF IncomingTableReferences
  <1>2. PICK fr \in tr.fields : TRUE
    BY <1>1, NoEmptyReferences
  <1> DEFINE all == (MatchReferences(tr) \ OptionalReferences(tr)) \cup OptionalReferences(tr)
             m == FieldsReferredTo(all, e)
             Unions == {n \cup b : n \in PossibleMatchPartials(tr, e),
                                   b \in PossibleActionPartials(tr, e)}
  <1>3. m \in PossibleMatchPartials(tr, e)
    BY DEF PossibleMatchPartials
  <1>4. {} \in PossibleActionPartials(tr, e)
    BY DEF PossibleActionPartials
  <1>5. ASSUME NEW b \in PossibleActionPartials(tr, e), m \cup b # {}
        PROVE  SatisfiedReferences(e) # {}
    <2>0. PICK c : c = m \cup b /\ c # {}
      BY <1>5
    <2>1. c \in Unions \ {{}}
      BY <1>3, <2>0
    <2>2. ConcreteTable(tr, c) \in {ConcreteTable(tr, fields) : fields \in Unions \ {{}}}
      BY <2>1
    <2>3. ConcreteTable(tr, c) \in PossibleIncomingConcreteTableReferences(tr, e)
      BY <2>2 DEF PossibleIncomingConcreteTableReferences
    <2> QED
      BY <2>3 DEF SatisfiedReferences
  <1>6. CASE fr \in MatchReferences(tr)
    <2>1. fr \in all
      BY <1>6
    <2>2. m # {}
      BY <2>1 DEF FieldsReferredTo
    <2> QED
      BY <1>4, <1>5, <2>2
  <1>7. CASE fr \notin MatchReferences(tr)
    <2> DEFINE a == FieldsReferredTo(ActionReferences(tr, fr.source.action), e)
    <2>1. fr.source.action \in SourceActions(tr)
      BY <1>2, <1>7 DEF SourceActions
    <2>2. a \in PossibleActionPartials(tr, e)
      BY <2>1 DEF PossibleActionPartials
    <2>3. fr \in ActionReferences(tr, fr.source.action)
      BY <1>1, <1>2, <1>7, NoEmptyReferences DEF ActionReferences, MatchReferences
    <2>4. a # {}
      BY <2>3 DEF FieldsReferredTo
    <2> QED
      BY <1>5, <2>2, <2>4
  <1> QED
    BY <1>6, <1>7

------------------------------------------------------------------------------
LEMMA InitEstablishesInvariant == Init => IInv
  <1> SUFFICES ASSUME Init PROVE IInv
    OBVIOUS
  <1>1. Recorded = {} /\ scanned = 0 /\ Found = {} /\ pc = "scan" /\ status = "none"
    BY DEF Init, Recorded, Found
  <1>2. Len(entities) \in Nat
    BY InputsAreLists DEF Init
  <1>3. TypeOK
    BY <1>1, <1>2 DEF Init, TypeOK, Statuses
  <1>4. SearchInv
    BY <1>1 DEF Init, SearchInv
  <1> QED
    BY <1>1, <1>2, <1>3, <1>4 DEF Init, IInv, ReturnsExactlyTheUnreachable

LEMMA FailPreservesInvariant ==
  ASSUME IInv, NEW code \in Statuses \ {"none", "OK"}, Fail(code)
  PROVE  IInv'
  <1>1. status' = code /\ pc' = "returned" /\ UNCHANGED <<inputVars, searchVars>>
    BY DEF Fail
  <1>2. TypeOK'
    BY <1>1 DEF IInv, TypeOK, Recorded, inputVars, searchVars
  <1> QED
    BY <1>1, <1>2 DEF IInv, ReturnsExactlyTheUnreachable, inputVars

(* What the scan of one more entity has in common.                          *)
LEMMA ScanPreservesInvariant ==
  ASSUME IInv, pc = "scan", scanned < Len(entities), NextEntity(scanned + 1),
         SearchInv', TypeOK'
  PROVE  IInv'
  <1>1. pc' = "scan" /\ status' = status /\ reached_indices' = reached_indices /\ entities' = entities
    BY DEF NextEntity, inputVars
  <1>2. status = "none"
    BY DEF IInv, TypeOK
  <1> QED
    BY <1>1, <1>2 DEF IInv, ReturnsExactlyTheUnreachable

LEMMA ScanTypes ==
  ASSUME IInv, pc = "scan", scanned < Len(entities), NextEntity(scanned + 1)
  PROVE  /\ scanned \in Nat /\ scanned + 1 \in Indices
         /\ 1 .. scanned' = (1 .. scanned) \cup {scanned + 1}
         /\ scanned + 1 \notin 1 .. scanned
         /\ scanned' \in 0 .. Len(entities') /\ pc' = pc /\ status' = status
         /\ reached_indices = {} /\ reached_indices' = {}
         /\ UNCHANGED inputVars
  <1>1. scanned \in 0 .. Len(entities) /\ Len(entities) \in Nat
    BY DEF IInv, TypeOK
  <1> QED
    BY <1>1 DEF NextEntity, IInv, Indices, inputVars

LEMMA ScanRootPreservesInvariant ==
  ASSUME IInv, pc = "scan", scanned < Len(entities), ScanRoot(scanned + 1),
         is_root[scanned + 1] = "yes"
  PROVE  IInv'
  <1> DEFINE i == scanned + 1
  <1>1. /\ NextEntity(i)
        /\ frontier_indices' = frontier_indices \cup {i}
        /\ UNCHANGED <<potentially_reachable_entries, unreachable_indices>>
    BY DEF ScanRoot
  <1>2. SearchInv /\ TypeOK
    BY DEF IInv
  <1>3. /\ entities' = entities /\ is_root' = is_root /\ Reachable' = Reachable
        /\ \A j : Satisfied(j)' = Satisfied(j)
    BY <1>1, ScanTypes, SameInput
  <1>4. Found' = Found \cup {i} /\ Recorded' = Recorded
    BY <1>1, ScanTypes DEF Found, Recorded
  <1>5. i \in Reachable
    BY <1>1, ScanTypes, RootsAreReachable
  <1>6. i \notin unreachable_indices
    BY <1>1, <1>2, ScanTypes DEF TypeOK
  <1>7. 1 .. scanned' = (1 .. scanned) \cup {i} /\ reached_indices' = {}
    BY <1>1, ScanTypes
  <1> HIDE DEF i
  <1>8. SearchInv'
    BY <1>1, <1>2, <1>3, <1>4, <1>5, <1>6, <1>7 DEF SearchInv
  <1>9. TypeOK'
    BY <1>1, <1>2, <1>4, <1>7, ScanTypes DEF TypeOK, i
  <1> QED
    BY <1>1, <1>8, <1>9, ScanPreservesInvariant DEF i

LEMMA ScanUnreferencedPreservesInvariant ==
  ASSUME IInv, pc = "scan", scanned < Len(entities), ScanUnreferenced(scanned + 1),
         is_root[scanned + 1] = "no", IncomingTableReferences(entities[scanned + 1]) = {}
  PROVE  IInv'
  <1> DEFINE i == scanned + 1
  <1>1. /\ NextEntity(i)
        /\ unreachable_indices' = unreachable_indices \cup {i}
        /\ UNCHANGED <<potentially_reachable_entries, frontier_indices>>
    BY DEF ScanUnreferenced
  <1>2. SearchInv /\ TypeOK
    BY DEF IInv
  <1>3. /\ entities' = entities /\ is_root' = is_root /\ Reachable' = Reachable
        /\ \A j : Satisfied(j)' = Satisfied(j)
    BY <1>1, ScanTypes, SameInput
  <1>4. Found' = Found /\ Recorded' = Recorded
    BY <1>1, ScanTypes DEF Found, Recorded
  <1>5. Satisfied(i) = {}
    BY DEF Satisfied, SatisfiedReferences
  <1>6. i \notin Found
    BY <1>1, <1>2, ScanTypes DEF TypeOK, Found
  <1>7. 1 .. scanned' = (1 .. scanned) \cup {i} /\ reached_indices' = {}
    BY <1>1, ScanTypes
  <1>8. is_root[i] # "yes"
    OBVIOUS
  <1> HIDE DEF i
  <1>9. SearchInv'
    BY <1>1, <1>2, <1>3, <1>4, <1>5, <1>6, <1>7, <1>8 DEF SearchInv
  <1>10. TypeOK'
    BY <1>1, <1>2, <1>4, <1>7, ScanTypes DEF TypeOK, i
  <1> QED
    BY <1>1, <1>9, <1>10, ScanPreservesInvariant DEF i

LEMMA ScanReferencedPreservesInvariant ==
  ASSUME IInv, pc = "scan", scanned < Len(entities), ScanReferenced(scanned + 1),
         is_root[scanned + 1] = "no", IncomingTableReferences(entities[scanned + 1]) # {}
  PROVE  IInv'
  <1> DEFINE i == scanned + 1
             entries == potentially_reachable_entries
  <1>1. /\ NextEntity(i)
        /\ potentially_reachable_entries' =
             [r \in Recorded \cup Satisfied(i) |->
                (IF r \in Recorded THEN entries[r] ELSE {})
                  \cup (IF r \in Satisfied(i) THEN {i} ELSE {})]
        /\ UNCHANGED <<unreachable_indices, frontier_indices>>
    BY DEF ScanReferenced, Satisfied
  <1>2. SearchInv /\ TypeOK
    BY DEF IInv
  <1>3. /\ entities' = entities /\ is_root' = is_root /\ Reachable' = Reachable
        /\ \A j : Satisfied(j)' = Satisfied(j)
    BY <1>1, ScanTypes, SameInput
  <1>4. Found' = Found /\ Recorded' = Recorded \cup Satisfied(i)
    BY <1>1, ScanTypes DEF Found, Recorded
  <1>5. Satisfied(i) # {}
    BY ReferencedIsRecorded DEF Satisfied
  <1>6. i \notin unreachable_indices
    BY <1>1, <1>2, ScanTypes DEF TypeOK
  <1>7. 1 .. scanned' = (1 .. scanned) \cup {i} /\ reached_indices' = {} /\ i \notin 1 .. scanned
    BY <1>1, ScanTypes
  <1>8. is_root[i] # "yes"
    OBVIOUS
  <1>9. \A r \in Recorded' : \A j : j \in potentially_reachable_entries'[r] <=>
          (r \in Recorded /\ j \in entries[r]) \/ (r \in Satisfied(i) /\ j = i)
    BY <1>1, <1>4
  <1> HIDE DEF i
  <1>10. SearchInv'
    <2>1. \A r \in Recorded' : \A j \in potentially_reachable_entries'[r] : r \in Satisfied(j)
      BY <1>2, <1>9 DEF SearchInv
    <2>2. \A j \in 1 .. scanned' : \A r \in Satisfied(j) :
            j \in Found \/ (r \in Recorded' /\ j \in potentially_reachable_entries'[r])
      BY <1>2, <1>4, <1>7, <1>9 DEF SearchInv
    <2> QED
      BY <1>1, <1>2, <1>3, <1>4, <1>5, <1>6, <1>7, <1>8, <2>1, <2>2 DEF SearchInv
  <1>11. TypeOK'
    <2>1. \A r \in Recorded' :
            potentially_reachable_entries'[r] \in (SUBSET (1 .. scanned')) \ {{}}
      <3> SUFFICES ASSUME NEW r \in Recorded'
                   PROVE  /\ \A j \in potentially_reachable_entries'[r] : j \in 1 .. scanned'
                          /\ \E j : j \in potentially_reachable_entries'[r]
        OBVIOUS
      <3>1. \A q \in Recorded : entries[q] \subseteq 1 .. scanned /\ \E j : j \in entries[q]
        BY <1>2 DEF TypeOK
      <3> QED
        BY <1>4, <1>7, <1>9, <3>1
    <2> QED
      BY <1>1, <1>2, <1>7, <2>1, ScanTypes DEF TypeOK, i
  <1> QED
    BY <1>1, <1>10, <1>11, ScanPreservesInvariant DEF i

LEMMA ScanEntityPreservesInvariant == IInv /\ ScanEntity => IInv'
  <1> SUFFICES ASSUME IInv, ScanEntity PROVE IInv'
    OBVIOUS
  <1> DEFINE i == scanned + 1
             e == entities[i]
  <1>1. pc = "scan" /\ scanned < Len(entities)
    BY DEF ScanEntity
  <1>2. CASE \E code \in {"UNIMPLEMENTED", "CALLBACK_ERROR", "MALFORMED"} : Fail(code)
    BY <1>2, FailPreservesInvariant DEF Statuses
  <1>3. CASE is_root[i] = "yes" /\ ScanRoot(i)
    BY <1>1, <1>3, ScanRootPreservesInvariant
  <1>4. CASE is_root[i] = "no" /\ IncomingTableReferences(e) = {} /\ ScanUnreferenced(i)
    BY <1>1, <1>4, ScanUnreferencedPreservesInvariant
  <1>5. CASE is_root[i] = "no" /\ IncomingTableReferences(e) # {} /\ ScanReferenced(i)
    BY <1>1, <1>5, ScanReferencedPreservesInvariant
  <1> QED
    BY <1>2, <1>3, <1>4, <1>5 DEF ScanEntity

LEMMA StartExpansionPreservesInvariant == IInv /\ StartExpansion => IInv'
  <1> SUFFICES ASSUME IInv, StartExpansion PROVE IInv'
    OBVIOUS
  <1>1. /\ pc = "scan" /\ scanned = Len(entities) /\ pc' = "expand"
        /\ UNCHANGED <<inputVars, searchVars, status>>
    BY DEF StartExpansion
  <1>2. /\ entities' = entities /\ is_root' = is_root /\ Reachable' = Reachable
        /\ \A j : Satisfied(j)' = Satisfied(j)
    BY <1>1, SameInput
  <1>3. UNCHANGED <<scanned, potentially_reachable_entries, unreachable_indices,
                    frontier_indices, reached_indices>>
    BY <1>1 DEF searchVars
  <1>4. SearchInv'
    BY <1>1, <1>2, <1>3 DEF IInv, SearchInv, Found, Recorded
  <1>5. TypeOK' /\ status' = "none"
    BY <1>1, <1>2, <1>3 DEF IInv, TypeOK, Recorded
  <1> QED
    BY <1>1, <1>2, <1>3, <1>4, <1>5 DEF IInv, ReturnsExactlyTheUnreachable

LEMMA ExpandFrontierPreservesInvariant == IInv /\ ExpandFrontier => IInv'
  <1> SUFFICES ASSUME IInv, ExpandFrontier PROVE IInv'
    OBVIOUS
  <1>1. pc = "expand" /\ status = "none" /\ scanned = Len(entities) /\ SearchInv /\ TypeOK
    BY DEF ExpandFrontier, IInv, TypeOK
  <1>2. CASE Fail("MALFORMED")
    BY <1>2, FailPreservesInvariant DEF Statuses
  <1>3. ASSUME NEW i \in frontier_indices,
               reached_indices' = reached_indices \cup {i},
               frontier_indices' = (frontier_indices \ {i}) \cup (Reached(i) \ reached_indices'),
               potentially_reachable_entries' =
                 [r \in Recorded \ Followed(i) |-> potentially_reachable_entries[r]],
               UNCHANGED <<inputVars, pc, scanned, unreachable_indices, status>>
        PROVE  IInv'
    <2>1. /\ entities' = entities /\ is_root' = is_root /\ Reachable' = Reachable
          /\ \A j : Satisfied(j)' = Satisfied(j)
      BY <1>3, SameInput
    <2>2. Found' = Found \cup Reached(i) /\ i \in Found
      BY <1>3 DEF Found
    <2>3. Recorded' = Recorded \ Followed(i)
      BY <1>3 DEF Recorded
    <2>4. \A r \in Recorded' : potentially_reachable_entries'[r] = potentially_reachable_entries[r]
      BY <1>3, <2>3
    <2>5. \A j \in Reached(i) :
            /\ j \in 1 .. scanned
            /\ \E r \in Recorded : r \in NeededReferences(entities[i]) /\ r \in Satisfied(j)
      <3> SUFFICES ASSUME NEW j \in Reached(i)
                   PROVE  /\ j \in 1 .. scanned
                          /\ \E r \in Recorded : r \in NeededReferences(entities[i]) /\ r \in Satisfied(j)
        OBVIOUS
      <3>1. PICK r \in Followed(i) : j \in potentially_reachable_entries[r]
        BY DEF Reached
      <3>2. r \in Recorded /\ r \in NeededReferences(entities[i])
        BY DEF Followed
      <3>3. r \in Satisfied(j)
        BY <1>1, <3>1, <3>2 DEF SearchInv
      <3>4. j \in 1 .. scanned
        BY <1>1, <3>1, <3>2 DEF TypeOK
      <3> QED
        BY <3>2, <3>3, <3>4
    <2>6. \A j \in Reached(i) : j \in Reachable
      <3> SUFFICES ASSUME NEW j \in Reached(i) PROVE j \in Reachable
        OBVIOUS
      <3>1. i \in Reachable
        BY <1>1, <2>2 DEF SearchInv
      <3>2. RefersTo(i, j)
        BY <2>5 DEF RefersTo, Satisfied
      <3>3. j \in Indices
        BY <1>1, <2>5 DEF Indices
      <3> QED
        BY <3>1, <3>2, <3>3, ReferencesReach
    <2>7. SearchInv'
      <3>1. Found' \subseteq Reachable'
        BY <1>1, <2>1, <2>2, <2>6 DEF SearchInv
      <3>2. \A r \in Recorded' : \A j \in potentially_reachable_entries'[r] : r \in Satisfied(j)
        BY <1>1, <2>3, <2>4 DEF SearchInv
      <3>3. \A j \in 1 .. scanned : \A r \in Satisfied(j) :
              j \in Found' \/ (r \in Recorded' /\ j \in potentially_reachable_entries'[r])
        <4> SUFFICES ASSUME NEW j \in 1 .. scanned, NEW r \in Satisfied(j), j \notin Found'
                     PROVE  r \in Recorded' /\ j \in potentially_reachable_entries'[r]
          OBVIOUS
        <4>1. r \in Recorded /\ j \in potentially_reachable_entries[r]
          BY <1>1, <2>2 DEF SearchInv
        <4>2. r \notin Followed(i)
          BY <2>2, <4>1 DEF Reached
        <4> QED
          BY <2>3, <2>4, <4>1, <4>2
      <3>4. \A k \in reached_indices' : NeededReferences(entities[k]) \cap Recorded' = {}
        BY <1>1, <1>3, <2>3 DEF SearchInv, Followed
      <3>5. \A j \in unreachable_indices : Satisfied(j) = {} /\ j \notin Found'
        BY <1>1, <2>2, <2>5 DEF SearchInv
      <3>6. /\ \A k \in 1 .. scanned : is_root[k] = "yes" => k \in Found'
            /\ \A j \in 1 .. scanned : j \in unreachable_indices \/ j \in Found' \/ Satisfied(j) # {}
        BY <1>1, <2>2 DEF SearchInv
      <3> QED
        BY <1>3, <2>1, <3>1, <3>2, <3>3, <3>4, <3>5, <3>6 DEF SearchInv
    <2>8. TypeOK'
      <3>1. Reached(i) \subseteq 1 .. scanned /\ i \in 1 .. scanned
        BY <1>1, <2>5 DEF TypeOK
      <3> QED
        BY <1>1, <1>3, <2>1, <2>3, <2>4, <3>1 DEF TypeOK
    <2> QED
      BY <1>1, <1>3, <2>1, <2>7, <2>8 DEF IInv, ReturnsExactlyTheUnreachable
  <1> QED
    BY <1>2, <1>3 DEF ExpandFrontier

(* With an empty frontier the reached entities are closed: a reference from *)
(* one of them to an entity not reached would still be recorded.            *)
LEMMA NothingMoreIsReachable ==
  ASSUME IInv, pc = "expand", frontier_indices = {}
  PROVE  reached_indices = Reachable
  <1>1. SearchInv /\ TypeOK /\ scanned = Len(entities) /\ Found = reached_indices
    BY DEF IInv, Found
  <1>2. reached_indices \in SUBSET Indices
    BY <1>1 DEF TypeOK, Indices
  <1>3. ASSUME NEW i \in reached_indices, NEW j \in Indices, RefersTo(i, j)
        PROVE  j \in reached_indices
    <2>1. PICK r \in NeededReferences(entities[i]) : r \in Satisfied(j)
      BY <1>3 DEF RefersTo, Satisfied
    <2>2. r \notin Recorded
      BY <1>1, <2>1 DEF SearchInv
    <2> QED
      BY <1>1, <2>1, <2>2 DEF SearchInv, Indices
  <1>4. Roots \subseteq reached_indices
    BY <1>1 DEF SearchInv, Roots, Indices
  <1>5. ClosedFromRoots(reached_indices)
    BY <1>3, <1>4 DEF ClosedFromRoots
  <1> QED
    BY <1>1, <1>2, <1>5, LeastClosed DEF SearchInv

LEMMA ReturnPreservesInvariant == IInv /\ Return => IInv'
  <1> SUFFICES ASSUME IInv, Return PROVE IInv'
    OBVIOUS
  <1>1. /\ pc = "expand" /\ frontier_indices = {} /\ status' = "OK" /\ pc' = "returned"
        /\ unreachable_indices' = unreachable_indices \cup RemainingIndices
        /\ UNCHANGED <<inputVars, scanned, potentially_reachable_entries,
                       frontier_indices, reached_indices>>
    BY DEF Return
  <1>0. unreachable_indices' = unreachable_indices \cup RemainingIndices
    BY DEF Return
  <1>2. SearchInv /\ TypeOK /\ scanned = Len(entities) /\ Found = reached_indices
    BY <1>1 DEF IInv, Found
  <1>3. Indices' = Indices /\ Reachable' = Reachable /\ entities' = entities /\ Recorded' = Recorded
    BY <1>1, SameInput DEF Recorded
  <1>4. RemainingIndices \subseteq 1 .. scanned
    BY <1>2 DEF TypeOK, RemainingIndices
  <1>5. reached_indices = Reachable
    BY <1>1, NothingMoreIsReachable
  <1>6. unreachable_indices \cap reached_indices = {}
    BY <1>2 DEF SearchInv
  <1>7. ASSUME NEW j \in Indices, j \notin reached_indices
        PROVE  j \in unreachable_indices'
    <2>1. CASE j \in unreachable_indices
      BY <1>0, <2>1
    <2>2. CASE Satisfied(j) # {}
      <3>1. PICK r : r \in Satisfied(j)
        BY <2>2
      <3>2. r \in Recorded /\ j \in potentially_reachable_entries[r]
        BY <1>2, <1>7, <3>1 DEF SearchInv, Indices
      <3>3. j \in RemainingIndices
        BY <1>7, <3>2 DEF RemainingIndices
      <3> QED
        BY <1>0, <3>3
    <2> QED
      BY <1>2, <1>7, <2>1, <2>2 DEF SearchInv, Indices
  <1>8. unreachable_indices' \subseteq Indices
    BY <1>1, <1>2, <1>4 DEF TypeOK, Indices
  <1>9. unreachable_indices' = Indices \ Reachable
    BY <1>0, <1>5, <1>6, <1>7, <1>8 DEF RemainingIndices
  <1>10. TypeOK'
    BY <1>1, <1>2, <1>3, <1>4 DEF TypeOK, Statuses
  <1> QED
    BY <1>1, <1>3, <1>9, <1>10 DEF IInv, ReturnsExactlyTheUnreachable

LEMMA StutterPreservesInvariant == IInv /\ UNCHANGED vars => IInv'
  <1> SUFFICES ASSUME IInv, UNCHANGED vars PROVE IInv'
    OBVIOUS
  <1>1. UNCHANGED <<inputVars, pc, status, scanned, potentially_reachable_entries,
                    unreachable_indices, frontier_indices, reached_indices>>
    BY DEF vars, searchVars
  <1>2. /\ entities' = entities /\ is_root' = is_root
        /\ Indices' = Indices /\ Reachable' = Reachable
        /\ \A j : Satisfied(j)' = Satisfied(j)
    BY <1>1, SameInput
  <1>3. SearchInv' = SearchInv
    BY <1>1, <1>2 DEF SearchInv, Found, Recorded
  <1>4. TypeOK' = TypeOK
    BY <1>1, <1>2 DEF TypeOK, Recorded
  <1> QED
    BY <1>1, <1>2, <1>3, <1>4 DEF IInv, ReturnsExactlyTheUnreachable

------------------------------------------------------------------------------
(* The invariant the properties below follow from.                          *)
THEOREM InvariantHolds == Spec => []IInv
  <1>1. Init => IInv
    BY InitEstablishesInvariant
  <1>2. IInv /\ [Next]_vars => IInv'
    BY ScanEntityPreservesInvariant, StartExpansionPreservesInvariant,
       ExpandFrontierPreservesInvariant, ReturnPreservesInvariant, StutterPreservesInvariant
       DEF Next
  <1> QED
    BY <1>1, <1>2, PTL DEF Spec

(* Every index in use is that of an entity that was looked at.              *)
THEOREM TypeCorrect == Spec => []TypeOK
  <1>1. IInv => TypeOK
    BY DEF IInv
  <1> QED
    BY <1>1, InvariantHolds, PTL

(* For every program and list of entities, what is returned is what no root *)
(* refers to directly or through others.                                    *)
THEOREM CollectsTheUnreachable == Spec => []ReturnsExactlyTheUnreachable
  <1>1. IInv => ReturnsExactlyTheUnreachable
    BY DEF IInv
  <1> QED
    BY <1>1, InvariantHolds, PTL

(* For every program and list of entities, collecting what is returned      *)
(* leaves no reference unsatisfied that was satisfied.                      *)
THEOREM CollectionIsSafe == Spec => []NothingKeptDangles
  <1>1. IInv => NothingKeptDangles
    <2> SUFFICES ASSUME IInv, status = "OK"
                 PROVE  UnsatisfiedOutgoingReferences({entities[i] : i \in Indices \ unreachable_indices})
                          \subseteq UnsatisfiedOutgoingReferences({entities[i] : i \in Indices})
      BY DEF NothingKeptDangles
    <2> DEFINE kept == {entities[i] : i \in Indices \ unreachable_indices}
               all == {entities[i] : i \in Indices}
               By(S) == UNION {SatisfiedReferences(e) : e \in S}
    <2>1. unreachable_indices = Indices \ Reachable /\ Reachable \subseteq Indices
      BY DEF IInv, ReturnsExactlyTheUnreachable, Reachable
    <2>2. kept \subseteq all /\ By(kept) \subseteq By(all)
      OBVIOUS
    <2>3. ASSUME NEW e \in kept, NEW r \in NeededReferences(e), r \in By(all)
          PROVE  r \in By(kept)
      <3>1. PICK i \in Reachable : e = entities[i]
        BY <2>1
      <3>2. PICK j \in Indices : r \in SatisfiedReferences(entities[j])
        BY <2>3
      <3>3. j \in Reachable
        BY <3>1, <3>2, ReferencesReach DEF RefersTo
      <3>4. entities[j] \in kept
        BY <2>1, <3>3
      <3> QED
        BY <3>2, <3>4
    <2>4. \A e \in kept : NeededReferences(e) \ By(kept) = NeededReferences(e) \ By(all)
      BY <2>2, <2>3
    <2> HIDE DEF kept, all, By
    <2>5. \A e \in kept : ~(NeededReferences(e) \subseteq By(kept)) => ~(NeededReferences(e) \subseteq By(all))
      BY <2>4
    <2>6. \A S : UnsatisfiedOutgoingReferences(S) =
            {[entity |-> e, unsatisfied_references |-> NeededReferences(e) \ By(S)] :
               e \in {d \in S : ~ NeededReferences(d) \subseteq By(S)}}
      BY DEF UnsatisfiedOutgoingReferences, By
    <2>7. UnsatisfiedOutgoingReferences(kept) \subseteq UnsatisfiedOutgoingReferences(all)
      BY <2>2, <2>4, <2>5, <2>6
    <2> QED
      BY <2>7 DEF kept, all
  <1> QED
    BY <1>1, InvariantHolds, PTL
=============================================================================
