-------------------------- MODULE ReferenceIntegrity --------------------------
(***************************************************************************)
(* What p4_pdpi/references.h promises of a StatefulReferenceChecker: a     *)
(* table of entities in which no reference ever dangles.  An operation is  *)
(* carried out exactly when the table it leads to has no unsatisfied       *)
(* outgoing reference, as the stateless UnsatisfiedOutgoingReferences      *)
(* judges the whole table; otherwise it changes nothing.                   *)
(*                                                                         *)
(* There are no counters here: every decision looks at all entities.       *)
(***************************************************************************)
EXTENDS References

CONSTANT Entities   \* every entity a caller may pass, malformed ones included

VARIABLES
  installed,  \* function from keys to the entities in the table
  response    \* the last request and the code of the absl::Status it returned

vars == <<installed, response>>

Image(store) == {store[k] : k \in DOMAIN store}

With(store, e) ==
  [k \in DOMAIN store \cup {Key(e)} |-> IF k = Key(e) THEN e ELSE store[k]]

Without(store, e) == [k \in DOMAIN store \ {Key(e)} |-> store[k]]

NothingDangles(store) == UnsatisfiedOutgoingReferences(Image(store)) = {}

Respond(operation, e, code) ==
  response' = [operation |-> operation, entity |-> e, status |-> code]

Reject(operation, e, code) == Respond(operation, e, code) /\ UNCHANGED installed

(* The operation leads to table `store' if nothing dangles there.           *)
Attempt(operation, e, store) ==
  IF NothingDangles(store)
  THEN installed' = store /\ Respond(operation, e, "OK")
  ELSE Reject(operation, e, "FAILED_PRECONDITION")

IsInstalled(e) == HasKey(e) /\ Key(e) \in DOMAIN installed

Add(e) ==
  \/ IsInstalled(e) /\ Reject("Add", e, "ALREADY_EXISTS")
  \/ /\ ~IsInstalled(e)
     /\ \/ NeededOk(e) /\ SatisfiedOk(e) /\ Attempt("Add", e, With(installed, e))
        \/ ~(NeededOk(e) /\ SatisfiedOk(e)) /\ Reject("Add", e, "MALFORMED")
        \/ NeededOk(e) /\ ~SatisfiedOk(e) /\ Reject("Add", e, "FAILED_PRECONDITION")

Remove(e) ==
  \/ ~HasKey(e) /\ Reject("Remove", e, "MALFORMED")
  \/ HasKey(e) /\ ~IsInstalled(e) /\ Reject("Remove", e, "NOT_FOUND")
  \/ IsInstalled(e) /\ Attempt("Remove", e, Without(installed, e))

Update(e) ==
  \/ ~HasKey(e) /\ Reject("Update", e, "MALFORMED")
  \/ HasKey(e) /\ ~IsInstalled(e) /\ Reject("Update", e, "NOT_FOUND")
  \/ /\ IsInstalled(e)
     /\ \/ ~NeededOk(e) /\ Reject("Update", e, "MALFORMED")
        \/ NeededOk(e) /\ Attempt("Update", e, With(installed, e))

Init ==
  /\ installed = [x \in {} |-> {}]
  /\ response = [operation |-> "none", entity |-> << >>, status |-> "OK"]

Next == \E e \in Entities : Add(e) \/ Remove(e) \/ Update(e)

Spec == Init /\ [][Next]_vars
=============================================================================
