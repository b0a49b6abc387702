----------------------- MODULE StatefulReferenceChecker -----------------------
(***************************************************************************)
(* pdpi::StatefulReferenceChecker (p4_pdpi/references.{h,cc}): reference   *)
(* integrity decided from two counters per concrete reference instead of   *)
(* from the entities, which the checker does not keep.                     *)
(*                                                                         *)
(* `installed' is a history variable: the entities of the caller's table,  *)
(* to which the caller applies an operation when the checker returns OK.   *)
(* No guard reads it.                                                      *)
(***************************************************************************)
EXTENDS References

CONSTANT Entities   \* every entity a caller may pass, malformed ones included

VARIABLES
  concrete_reference_to_state_,         \* reference -> ReferenceState
  entity_key_to_outgoing_references_,   \* key -> references the entity needs
  response,                             \* the last request and its absl::Status code
  installed                             \* history: key -> entity

checkerVars == <<concrete_reference_to_state_, entity_key_to_outgoing_references_>>
vars == <<checkerVars, response, installed>>

(* MALFORMED stands for the INVALID_ARGUMENT and UNIMPLEMENTED errors of an *)
(* entity the IrP4Info does not allow.                                      *)
Statuses ==
  {"OK", "ALREADY_EXISTS", "NOT_FOUND", "FAILED_PRECONDITION", "MALFORMED"}

EmptyMap == [x \in {} |-> {}]

Tracked == DOMAIN concrete_reference_to_state_

Keys == DOMAIN entity_key_to_outgoing_references_

(* operator[] of a flat_hash_map: an absent reference has zero counts.      *)
StateOf(r) ==
  IF r \in Tracked THEN concrete_reference_to_state_[r]
  ELSE [referrer_count |-> 0, satisfying_count |-> 0]

One(r, references) == IF r \in references THEN 1 ELSE 0

MissingReferences(e) == NeededReferences(e) \ Tracked

(* Mutants of the next definition: an off-by-one, and the other satisfiers  *)
(* forgotten.                                                               *)
IsInUseTwice(r) == StateOf(r).referrer_count > 1 /\ StateOf(r).satisfying_count = 1
IsInUse(r) == StateOf(r).referrer_count > 0

IsInUseWithExactlyOneSatisfier(r) ==
  StateOf(r).referrer_count > 0 /\ StateOf(r).satisfying_count = 1

CanRemove(e) == \A r \in SatisfiedReferences(e) : ~IsInUseWithExactlyOneSatisfier(r)

(* Mutant: what an entity needs is derived again when it is removed.        *)
RederivedReferences(e) == IF NeededOk(e) THEN NeededReferences(e) ELSE {}

CachedReferences(e) == entity_key_to_outgoing_references_[Key(e)]

(* Mutant: counts of zero stay in the map.                                  *)
NothingErased(e) == {}

Erased(e) == {r \in SatisfiedReferences(e) : StateOf(r).satisfying_count = 1}

Respond(operation, e, code) ==
  response' = [operation |-> operation, entity |-> e, status |-> code]

Reject(operation, e, code) ==
  Respond(operation, e, code) /\ UNCHANGED <<checkerVars, installed>>

------------------------------------------------------------------------------
(* AddEntity                                                               *)

CommitAdd(e) ==
  LET needed == NeededReferences(e)
      provided == SatisfiedReferences(e)
  IN  /\ concrete_reference_to_state_' =
           [r \in Tracked \cup needed \cup provided |->
              [referrer_count |-> StateOf(r).referrer_count + One(r, needed),
               satisfying_count |-> StateOf(r).satisfying_count + One(r, provided)]]
      /\ entity_key_to_outgoing_references_' =
           [k \in Keys \cup {Key(e)} |->
              IF k = Key(e) THEN needed ELSE entity_key_to_outgoing_references_[k]]
      /\ installed' = [k \in DOMAIN installed \cup {Key(e)} |->
                         IF k = Key(e) THEN e ELSE installed[k]]
      /\ Respond("Add", e, "OK")

AddEntity(e) ==
  \/ ~HasKey(e) /\ Reject("Add", e, "MALFORMED")
  \/ HasKey(e) /\ Key(e) \in Keys /\ Reject("Add", e, "ALREADY_EXISTS")
  \/ /\ HasKey(e) /\ Key(e) \notin Keys
     /\ \/ ~NeededOk(e) /\ Reject("Add", e, "MALFORMED")
        \/ NeededOk(e) /\ MissingReferences(e) # {} /\ Reject("Add", e, "FAILED_PRECONDITION")
        \/ NeededOk(e) /\ MissingReferences(e) = {} /\ ~SatisfiedOk(e) /\ Reject("Add", e, "MALFORMED")
        \/ NeededOk(e) /\ MissingReferences(e) = {} /\ SatisfiedOk(e) /\ CommitAdd(e)

------------------------------------------------------------------------------
(* RemoveEntity.  The entity may be a key without its action: what it       *)
(* satisfies depends on the key alone, what it needs was cached.            *)

CommitRemove(e) ==
  LET needed == CachedReferences(e)
      provided == SatisfiedReferences(e)
  IN  /\ concrete_reference_to_state_' =
           [r \in (Tracked \cup needed) \ Erased(e) |->
              [referrer_count |-> StateOf(r).referrer_count - One(r, needed),
               satisfying_count |-> StateOf(r).satisfying_count - One(r, provided)]]
      /\ entity_key_to_outgoing_references_' =
           [k \in Keys \ {Key(e)} |-> entity_key_to_outgoing_references_[k]]
      /\ installed' = [k \in DOMAIN installed \ {Key(e)} |-> installed[k]]
      /\ Respond("Remove", e, "OK")

RemoveEntity(e) ==
  \/ ~HasKey(e) /\ Reject("Remove", e, "MALFORMED")
  \/ HasKey(e) /\ Key(e) \notin Keys /\ Reject("Remove", e, "NOT_FOUND")
  \/ /\ HasKey(e) /\ Key(e) \in Keys
     /\ \/ ~CanRemove(e) /\ Reject("Remove", e, "FAILED_PRECONDITION")
        \/ CanRemove(e) /\ CommitRemove(e)

------------------------------------------------------------------------------
(* UpdateEntity.  What the entity satisfies is left alone: an update keeps  *)
(* the key.                                                                 *)

CommitUpdate(e) ==
  LET old == CachedReferences(e)
      needed == NeededReferences(e)
  IN  /\ concrete_reference_to_state_' =
           [r \in Tracked \cup old \cup needed |->
              [StateOf(r) EXCEPT !.referrer_count = @ - One(r, old) + One(r, needed)]]
      /\ entity_key_to_outgoing_references_' =
           [entity_key_to_outgoing_references_ EXCEPT ![Key(e)] = needed]
      /\ installed' = [installed EXCEPT ![Key(e)] = e]
      /\ Respond("Update", e, "OK")

UpdateEntity(e) ==
  \/ ~HasKey(e) /\ Reject("Update", e, "MALFORMED")
  \/ HasKey(e) /\ Key(e) \notin Keys /\ Reject("Update", e, "NOT_FOUND")
  \/ /\ HasKey(e) /\ Key(e) \in Keys
     /\ \/ ~NeededOk(e) /\ Reject("Update", e, "MALFORMED")
        \/ NeededOk(e) /\ MissingReferences(e) # {} /\ Reject("Update", e, "FAILED_PRECONDITION")
        \/ NeededOk(e) /\ MissingReferences(e) = {} /\ CommitUpdate(e)

------------------------------------------------------------------------------
Init ==
  /\ concrete_reference_to_state_ = EmptyMap
  /\ entity_key_to_outgoing_references_ = EmptyMap
  /\ response = [operation |-> "none", entity |-> << >>, status |-> "OK"]
  /\ installed = EmptyMap

Next == \E e \in Entities : AddEntity(e) \/ RemoveEntity(e) \/ UpdateEntity(e)

Spec == Init /\ [][Next]_vars

------------------------------------------------------------------------------
(* Properties                                                              *)

InstalledEntities == {installed[k] : k \in DOMAIN installed}

(* The checker knows exactly the keys of the caller's entities, which are  *)
(* all well formed; a reference is tracked only while somebody satisfies   *)
(* it, and no counter ever goes below zero.                                *)
TypeOK ==
  /\ response.status \in Statuses
  /\ IsFiniteSet(Keys)
  /\ entity_key_to_outgoing_references_ = [k \in DOMAIN installed |-> NeededReferences(installed[k])]
  /\ \A k \in DOMAIN installed :
       /\ installed[k] \in Entities
       /\ HasKey(installed[k]) /\ NeededOk(installed[k]) /\ SatisfiedOk(installed[k])
       /\ Key(installed[k]) = k
  /\ concrete_reference_to_state_ \in
       [Tracked -> [referrer_count : Nat, satisfying_count : Nat \ {0}]]

Referrers(r) == {k \in DOMAIN installed : r \in NeededReferences(installed[k])}

Satisfiers(r) == {k \in DOMAIN installed : r \in SatisfiedReferences(installed[k])}

(* After any history of additions, removals and updates the counters are   *)
(* those of the entities installed now: CheckInvariantsForTesting, and the *)
(* exact satisfying counts, which it cannot recompute.                     *)
CountersMatchEntities ==
  /\ \A r \in Tracked :
       /\ concrete_reference_to_state_[r].referrer_count = Cardinality(Referrers(r))
       /\ concrete_reference_to_state_[r].satisfying_count = Cardinality(Satisfiers(r))
  /\ \A k \in DOMAIN installed : SatisfiedReferences(installed[k]) \subseteq Tracked

(* No sequence of accepted operations leaves an entity whose reference no  *)
(* installed entity satisfies, although the checker never sees the         *)
(* entities together.                                                      *)
NoDanglingReferences == UnsatisfiedOutgoingReferences(InstalledEntities) = {}

(* A well-formed entity's reference is one an installed entity is found to *)
(* satisfy exactly when the two agree on every field of the reference: the *)
(* references are enumerated from both ends and must meet.                 *)
ReferencesMeetWhenValuesAgree ==
  \A s \in {e \in Entities : NeededOk(e)}, d \in InstalledEntities :
    \A r \in NeededReferences(s) :
      r \in SatisfiedReferences(d) <=>
        /\ d.table = r.destination_table
        /\ \A f \in r.fields : d.match[f.destination_field.name] = f.value

(* The checker never wedges its caller: as long as entities are installed, *)
(* one of them can be removed.                                             *)
SomethingCanBeRemoved ==
  DOMAIN installed # {} => \E e \in InstalledEntities : CanRemove(e)

(* Decisions taken from the counters are those of the abstract table,      *)
(* which inspects all entities at every operation.                         *)
Abstract == INSTANCE ReferenceIntegrity WITH
  Entities <- Entities, installed <- installed, response <- response

ImplementsReferenceIntegrity == Abstract!Spec
=============================================================================
