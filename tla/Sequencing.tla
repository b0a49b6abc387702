------------------------------ MODULE Sequencing ------------------------------
(***************************************************************************)
(* SequencePiUpdatesInPlace (p4_pdpi/sequencing.cc): updates are put into  *)
(* batches to be sent one after the other.  A dependency graph between the *)
(* updates is built first; then every batch is the set of updates nothing  *)
(* left in the graph has to precede.                                       *)
(*                                                                         *)
(* The sequencer reads the deprecated list of @refers_to references, which *)
(* pairs single fields and leaves the built-in tables out.                 *)
(***************************************************************************)
EXTENDS References, Sequences

CONSTANTS
  BuiltInTables,  \* tables of the packet replication engine
  UpdateLists     \* the lists of updates a caller may pass, of [type, entity]

ASSUME UpdateListsAreFinite ==
  \A list \in UpdateLists : Len(list) \in Nat /\ DOMAIN list = 1 .. Len(list)

VARIABLES
  updates,    \* the list being sequenced
  pc,         \* "build", "batch", "clear" or "returned"
  graph,      \* the dependencies left; <<u, v>> says that v depends on u
  roots,      \* the updates of the next batch
  expanding,  \* roots of the last batch whose edges are still in the graph
  new_roots,  \* roots found while the edges of the last batch are removed
  batches,
  pushed,     \* history: how often an update was pushed onto a vector of roots
  status      \* code of the absl::Status returned

sequencerVars ==
  <<updates, pc, graph, roots, expanding, new_roots, batches, pushed, status>>

------------------------------------------------------------------------------
(* BuildDependencyGraph                                                    *)

(* The field references in use: @refers_to of one P4 table to another.      *)
RefersTo ==
  UNION {{[source |-> tr.source, field |-> fr.source,
           table |-> tr.destination, match_field |-> fr.destination.name] : fr \in tr.fields} :
           tr \in {t \in TableReferences : {t.source, t.destination} \cap BuiltInTables = {}}}

HasMatchValue(e, name) == name \in DOMAIN e.match /\ e.match[name] # NotReferable

(* The values by which others can refer to an update.                       *)
IndexedValues(e) ==
  {<<ref.table, ref.match_field, e.match[ref.match_field]>> :
     ref \in {r \in RefersTo : r.table = e.table /\ HasMatchValue(e, r.match_field)}}

MatchReferredValues(e) ==
  {<<ref.table, ref.match_field, e.match[ref.field.name]>> :
     ref \in {r \in RefersTo : /\ r.source = e.table
                               /\ r.field.kind = "match"
                               /\ HasMatchValue(e, r.field.name)}}

InvocationReferredValues(e, i) ==
  {<<ref.table, ref.match_field, i.params[ref.field.name]>> :
     ref \in {r \in RefersTo : /\ r.source = e.table
                               /\ r.field.kind = "action"
                               /\ r.field.action = i.action
                               /\ r.field.name \in DOMAIN i.params}}

ReferredValues(e) ==
  MatchReferredValues(e) \cup UNION {InvocationReferredValues(e, i) : i \in e.actions}

Refers(e, d) == ReferredValues(e) \cap IndexedValues(d) # {}

(* Only table entries with an action or an action set can be sequenced.  A   *)
(* match field with @refers_to is declared exact or optional; an entity that *)
(* gives it another kind of value refers to nothing.                         *)
CanBeSequenced(e) ==
  /\ e.kind = "table_entry"
  /\ e.table \in Tables \ BuiltInTables
  /\ e.action_type \in {"action", "action_set"}

Indices == 1 .. Len(updates)

(* Mutant of the next definition: modifications are not looked at.          *)
WithoutModifications(first, second) ==
  /\ first.type = second.type
  /\ \/ first.type = "INSERT" /\ Refers(second.entity, first.entity)
     \/ first.type = "DELETE" /\ Refers(first.entity, second.entity)

(* RecordDependenciesForReferencedValue, of the two updates: what is         *)
(* inserted precedes what refers to it, and is deleted after it.            *)
Precedes(first, second) ==
  \/ /\ first.type = "INSERT" /\ second.type \in {"INSERT", "MODIFY"}
     /\ Refers(second.entity, first.entity)
  \/ /\ first.type = "DELETE" /\ second.type = "DELETE"
     /\ Refers(first.entity, second.entity)

Dependencies ==
  {edge \in Indices \X Indices : Precedes(updates[edge[1]], updates[edge[2]])}

InDegree(v, edges) == Cardinality({u \in Indices : <<u, v>> \in edges})

Push(vertices) ==
  pushed' = [v \in Indices |-> pushed[v] + IF v \in vertices THEN 1 ELSE 0]

BuildDependencyGraph ==
  /\ pc = "build"
  /\ IF \A u \in Indices : CanBeSequenced(updates[u].entity)
     THEN LET sources == {v \in Indices : InDegree(v, Dependencies) = 0}
          IN  /\ graph' = Dependencies
              /\ roots' = sources
              /\ Push(sources)
              /\ pc' = "batch"
              /\ UNCHANGED status
     ELSE /\ pc' = "returned"
          /\ status' = "MALFORMED"
          /\ UNCHANGED <<graph, roots, pushed>>
  /\ UNCHANGED <<updates, expanding, new_roots, batches>>

------------------------------------------------------------------------------
(* The loop over the roots.  A batch is sorted, so it is a set here.        *)

StartBatch ==
  /\ pc = "batch" /\ roots # {}
  /\ batches' = Append(batches, roots)
  /\ expanding' = roots
  /\ new_roots' = {}
  /\ pc' = "clear"
  /\ UNCHANGED <<updates, graph, roots, pushed, status>>

(* Mutants of Released: every update a root precedes is released; the edge   *)
(* from the root is no longer counted.                                      *)
Successors(root) == {v \in Indices : <<root, v>> \in graph}
OtherwiseFree(root) == {v \in Successors(root) : InDegree(v, graph) = 0}

(* The targets for which the edge from `root' is the last one.              *)
Released(root) == {v \in Indices : <<root, v>> \in graph /\ InDegree(v, graph) = 1}

ClearRoot ==
  /\ pc = "clear"
  /\ \E root \in expanding :
       /\ \A other \in expanding : root <= other
       /\ new_roots' = new_roots \cup Released(root)
       /\ Push(Released(root))
       /\ graph' = {edge \in graph : edge[1] # root}
       /\ expanding' = expanding \ {root}
  /\ UNCHANGED <<updates, pc, roots, batches, status>>

(* Mutant of the next definition: the old roots are kept.                    *)
RootsKept ==
  /\ pc = "clear" /\ expanding = {}
  /\ roots' = roots \cup new_roots
  /\ pc' = "batch"
  /\ UNCHANGED <<updates, graph, expanding, new_roots, batches, pushed, status>>

SwapRoots ==
  /\ pc = "clear" /\ expanding = {}
  /\ roots' = new_roots
  /\ pc' = "batch"
  /\ UNCHANGED <<updates, graph, expanding, new_roots, batches, pushed, status>>

Return ==
  /\ pc = "batch" /\ roots = {}
  /\ status' = IF graph = {} THEN "OK" ELSE "CYCLIC"
  /\ pc' = "returned"
  /\ UNCHANGED <<updates, graph, roots, expanding, new_roots, batches, pushed>>

------------------------------------------------------------------------------
Init ==
  /\ updates \in UpdateLists
  /\ pc = "build"
  /\ graph = {} /\ roots = {} /\ expanding = {} /\ new_roots = {}
  /\ batches = << >>
  /\ pushed = [v \in Indices |-> 0]
  /\ status = "none"

Next == BuildDependencyGraph \/ StartBatch \/ ClearRoot \/ SwapRoots \/ Return

Spec == Init /\ [][Next]_sequencerVars

------------------------------------------------------------------------------
(* Properties                                                              *)

Batched == UNION {batches[n] : n \in DOMAIN batches}

TypeOK ==
  /\ pc \in {"build", "batch", "clear", "returned"}
  /\ status \in {"none", "OK", "MALFORMED", "CYCLIC"}
  /\ graph \subseteq Dependencies
  /\ roots \subseteq Indices /\ expanding \subseteq roots /\ new_roots \subseteq Indices
  /\ \A n \in DOMAIN batches : batches[n] \in (SUBSET Indices) \ {{}}
  /\ pushed \in [Indices -> Nat]
  /\ pc = "returned" <=> status # "none"

(* An update is pushed onto the roots once, although its last edge is found *)
(* while other edges are removed: it is in one batch, never in two, and     *)
(* when the batches are returned none is missing.                           *)
EveryUpdateSentOnce ==
  /\ \A v \in Indices : pushed[v] <= 1
  /\ \A m, n \in DOMAIN batches : m # n => batches[m] \cap batches[n] = {}
  /\ status = "OK" => Batched = Indices

(* What a batch depends on is in an earlier batch, not in the same one.     *)
DependenciesComeFirst ==
  \A n \in DOMAIN batches : \A edge \in Dependencies :
    edge[2] \in batches[n] => \E m \in 1 .. n - 1 : edge[1] \in batches[m]

(* No update waits longer than it has to: it depends on an update of the    *)
(* batch before its own.                                                    *)
NoBatchIsLate ==
  \A n \in DOMAIN batches : n > 1 =>
    \A v \in batches[n] : \E u \in batches[n - 1] : <<u, v>> \in Dependencies

(* The tables of an IrP4Info are ranked, so no list of updates is refused   *)
(* as cyclic, and no update is left out for being on a cycle.               *)
NeverCyclic == status # "CYCLIC"
=============================================================================
