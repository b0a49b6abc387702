--------------------------- MODULE GarbageCollection ---------------------------
(***************************************************************************)
(* GetEntitiesUnreachableFromRoots (p4_pdpi/sequencing.cc): which entities *)
(* no root refers to, directly or through others.  One pass over the       *)
(* entities records the references each could be the target of; then the   *)
(* frontier of reached entities is expanded, and a recorded reference is   *)
(* erased when it is followed.                                             *)
(***************************************************************************)
EXTENDS References, Sequences

CONSTANT Inputs  \* the calls considered, of [entities, is_root]: a list of
                 \* entities and what the callback says of each, "yes", "no"
                 \* or "error"

VARIABLES
  entities, is_root,
  pc,                             \* "scan", "expand" or "returned"
  scanned,                        \* number of entities looked at
  potentially_reachable_entries,  \* reference -> indices of the entities it reaches
  unreachable_indices,
  frontier_indices,               \* a queue whose order has no effect: a set
  reached_indices,
  status                          \* code of the absl::Status returned

inputVars == <<entities, is_root>>
searchVars == <<scanned, potentially_reachable_entries, unreachable_indices,
                frontier_indices, reached_indices>>
vars == <<inputVars, searchVars, pc, status>>

Statuses == {"none", "OK", "UNIMPLEMENTED", "MALFORMED", "CALLBACK_ERROR"}

ASSUME InputsAreLists == \A input \in Inputs : Len(input.entities) \in Nat

(* A table reference has at least one pair of fields.                       *)
ASSUME NoEmptyReferences ==
  \A tr \in TableReferences :
    tr.fields # {} /\ \A fr \in tr.fields : fr.source.kind \in {"match", "action"}

Indices == 1 .. Len(entities)

Recorded == DOMAIN potentially_reachable_entries

Fail(code) ==
  /\ status' = code
  /\ pc' = "returned"
  /\ UNCHANGED <<inputVars, searchVars>>

------------------------------------------------------------------------------
(* The pass over the entities                                              *)

NextEntity(i) ==
  scanned' = i /\ UNCHANGED <<inputVars, pc, reached_indices, status>>

ScanRoot(i) ==
  /\ NextEntity(i)
  /\ frontier_indices' = frontier_indices \cup {i}
  /\ UNCHANGED <<potentially_reachable_entries, unreachable_indices>>

ScanUnreferenced(i) ==
  /\ NextEntity(i)
  /\ unreachable_indices' = unreachable_indices \cup {i}
  /\ UNCHANGED <<potentially_reachable_entries, frontier_indices>>

ScanReferenced(i) ==
  LET references == SatisfiedReferences(entities[i])
  IN  /\ NextEntity(i)
      /\ potentially_reachable_entries' =
           [r \in Recorded \cup references |->
              (IF r \in Recorded THEN potentially_reachable_entries[r] ELSE {})
                \cup (IF r \in references THEN {i} ELSE {})]
      /\ UNCHANGED <<unreachable_indices, frontier_indices>>

ScanEntity ==
  /\ pc = "scan" /\ scanned < Len(entities)
  /\ LET i == scanned + 1
         e == entities[i]
     IN  \/ /\ e.kind \notin {"table_entry", "multicast_group_entry"}
            /\ Fail("UNIMPLEMENTED")
         \/ /\ e.kind \in {"table_entry", "multicast_group_entry"}
            /\ \/ is_root[i] = "error" /\ Fail("CALLBACK_ERROR")
               \/ is_root[i] = "yes" /\ ScanRoot(i)
               \/ is_root[i] = "no" /\ e.kind # "table_entry" /\ Fail("UNIMPLEMENTED")
               \/ /\ is_root[i] = "no" /\ e.kind = "table_entry"
                  /\ \/ e.table \notin Tables /\ Fail("MALFORMED")
                     \/ /\ e.table \in Tables /\ IncomingTableReferences(e) = {}
                        /\ ScanUnreferenced(i)
                     \/ /\ e.table \in Tables /\ IncomingTableReferences(e) # {}
                        /\ \/ ~SatisfiedOk(e) /\ Fail("MALFORMED")
                           \/ SatisfiedOk(e) /\ ScanReferenced(i)

StartExpansion ==
  /\ pc = "scan" /\ scanned = Len(entities)
  /\ pc' = "expand"
  /\ UNCHANGED <<inputVars, searchVars, status>>

------------------------------------------------------------------------------
(* The expansion of the frontier                                           *)

Followed(i) == NeededReferences(entities[i]) \cap Recorded

(* Mutant of the next definition: only the first entity a reference reaches *)
(* is kept.                                                                 *)
FirstReached(i) ==
  {CHOOSE j \in potentially_reachable_entries[r] : \A k \in potentially_reachable_entries[r] : j <= k :
     r \in Followed(i)}

Reached(i) == UNION {potentially_reachable_entries[r] : r \in Followed(i)}

ExpandFrontier ==
  /\ pc = "expand"
  /\ \E i \in frontier_indices :
       \/ ~NeededOk(entities[i]) /\ Fail("MALFORMED")
       \/ /\ NeededOk(entities[i])
          /\ reached_indices' = reached_indices \cup {i}
          /\ frontier_indices' =
               (frontier_indices \ {i}) \cup (Reached(i) \ reached_indices')
          /\ potentially_reachable_entries' =
               [r \in Recorded \ Followed(i) |-> potentially_reachable_entries[r]]
          /\ UNCHANGED <<inputVars, pc, scanned, unreachable_indices, status>>

(* Mutant of the next definition: an entity with a reference nobody followed *)
(* is returned though it was reached through another one.                   *)
EveryRemaining == UNION {potentially_reachable_entries[r] : r \in Recorded}

RemainingIndices ==
  (UNION {potentially_reachable_entries[r] : r \in Recorded}) \ reached_indices

Return ==
  /\ pc = "expand" /\ frontier_indices = {}
  /\ unreachable_indices' = unreachable_indices \cup RemainingIndices
  /\ status' = "OK"
  /\ pc' = "returned"
  /\ UNCHANGED <<inputVars, scanned, potentially_reachable_entries,
                 frontier_indices, reached_indices>>

------------------------------------------------------------------------------
Init ==
  /\ \E input \in Inputs : entities = input.entities /\ is_root = input.is_root
  /\ pc = "scan" /\ scanned = 0
  /\ potentially_reachable_entries = [r \in {} |-> {}]
  /\ unreachable_indices = {} /\ frontier_indices = {} /\ reached_indices = {}
  /\ status = "none"

Next == ScanEntity \/ StartExpansion \/ ExpandFrontier \/ Return

Spec == Init /\ [][Next]_vars

------------------------------------------------------------------------------
(* Properties                                                              *)

TypeOK ==
  /\ pc \in {"scan", "expand", "returned"} /\ status \in Statuses
  /\ scanned \in 0 .. Len(entities)
  /\ unreachable_indices \subseteq 1 .. scanned
  /\ frontier_indices \subseteq 1 .. scanned
  /\ reached_indices \subseteq 1 .. scanned
  /\ pc = "returned" <=> status # "none"
  /\ \A r \in Recorded : potentially_reachable_entries[r] \in (SUBSET (1 .. scanned)) \ {{}}

Roots == {i \in Indices : is_root[i] = "yes"}

RefersTo(i, j) ==
  NeededReferences(entities[i]) \cap SatisfiedReferences(entities[j]) # {}

ClosedFromRoots(S) ==
  Roots \subseteq S /\ \A i \in S, j \in Indices : RefersTo(i, j) => j \in S

(* Reached from a root directly or transitively: in every set that contains *)
(* the roots and whatever its members refer to.                             *)
Reachable == {i \in Indices : \A S \in SUBSET Indices : ClosedFromRoots(S) => i \in S}

(* The entities returned are those no root refers to, directly or           *)
(* transitively; erasing a reference when it is first followed, and the     *)
(* order in which the frontier is expanded, lose nothing.                   *)
ReturnsExactlyTheUnreachable ==
  status = "OK" => unreachable_indices = Indices \ Reachable

(* Collecting what is returned breaks nothing that is kept: a kept entity    *)
(* whose references were satisfied is satisfied by kept entities.           *)
NothingKeptDangles ==
  status = "OK" =>
    UnsatisfiedOutgoingReferences({entities[i] : i \in Indices \ unreachable_indices})
      \subseteq UnsatisfiedOutgoingReferences({entities[i] : i \in Indices})
=============================================================================
