--------------------------- MODULE MCSequencedWrites ---------------------------
(***************************************************************************)
(* Every way from one consistent table of the program MCSequencingProgram  *)
(* to another one by at most MaxUpdates updates.  The sequencer's batches  *)
(* do not depend on the order of the list, so one order is enough.         *)
(***************************************************************************)
EXTENDS SequencedWrites, MCSequencingProgram

CONSTANT MaxUpdates

Table(entities) == [k \in {Key(e) : e \in entities} |-> CHOOSE e \in entities : Key(e) = k]

ConsistentTables ==
  {Table(S) : S \in {T \in SUBSET Entries :
      /\ \A d, e \in T : Key(d) = Key(e) => d = e
      /\ UnsatisfiedOutgoingReferences(T) = {}}}

Difference(from, to) ==
  {[type |-> "INSERT", entity |-> to[k]] : k \in DOMAIN to \ DOMAIN from}
  \cup {[type |-> "DELETE", entity |-> from[k]] : k \in DOMAIN from \ DOMAIN to}
  \cup {[type |-> "MODIFY", entity |-> to[k]] :
          k \in {j \in DOMAIN from \cap DOMAIN to : from[j] # to[j]}}

Single(type, e) == << [type |-> type, entity |-> e] >>

(* Updates the server has to refuse whatever their order.                   *)
Illegal ==
  {[before |-> Table({}), updates |-> Single(type, Rif(v1))] : type \in {"MODIFY", "DELETE"}}
  \cup {[before |-> Table({Rif(v1)}), updates |-> Single("INSERT", Rif(v1))]}
  \cup {[before |-> Table({Rif(v1), Neighbor(v1, v1), Nexthop(v1, v1, v1)}), updates |-> Single(type,
           [Nexthop(v1, v1, v1) EXCEPT !.actions = {Invocation("set_nexthop", << >>)}])] :
           type \in {"INSERT", "MODIFY"}}

Differences ==
  {[before |-> p[1], updates |-> SetToSeq(Difference(p[1], p[2]))] :
     p \in {q \in ConsistentTables \X ConsistentTables :
              Cardinality(Difference(q[1], q[2])) <= MaxUpdates}}

------------------------------------------------------------------------------
(* Lists for the sequencer: every one of at most two updates, and some      *)
(* longer ones, of up to four batches; those of four updates in all orders; *)
(* and the empty list with every kind of maximum.                           *)

Pairs == UNION {Of(type, Entries \cup Unexpected) : type \in {"INSERT", "MODIFY", "DELETE"}}

Chain == {Rif(v1), Neighbor(v1, v1), Nexthop(v1, v1, v1), Route({Forward(v1)})}

Longer == {
  Of("INSERT", Chain),
  Of("DELETE", Chain),
  Of("INSERT", {Rif(v1), Rif(v2), Neighbor(v1, v1), Neighbor(v2, v1), Nexthop(v1, v2, v1)}),
  Of("INSERT", {Rif(v2), Neighbor(v2, v1), Nexthop(v2, v2, v1)})
    \cup Of("MODIFY", {Nexthop(v1, v2, v1), Route({Forward(v1), Forward(v2)})}),
  Of("DELETE", {Route({Forward(v1), Forward(v2)}), Nexthop(v1, v1, v1), Nexthop(v2, v2, v1),
                Rif(v1), Rif(v2)}),
  Of("DELETE", {Rif(v1), Neighbor(v1, v1)}) \cup Of("MODIFY", {Nexthop(v1, v2, v1)})
    \cup Of("INSERT", {Rif(v2), Neighbor(v2, v1)})}

Orders(S) ==
  {l \in [1 .. Cardinality(S) -> S] : \A i, j \in DOMAIN l : i # j => l[i] # l[j]}

Lists == {<< >>} \cup [1 .. 1 -> Pairs] \cup [1 .. 2 -> Pairs] \cup UNION {Orders(S) : S \in {T \in Longer : Cardinality(T) = 4}}

WithMaximum(problem, n) ==
  [before |-> problem.before, updates |-> problem.updates, maximum |-> n]

(* Of the largest differences, those that only build up or tear down.       *)
OneWay(p) ==
  \/ Len(p.updates) < MaxUpdates
  \/ \A i \in DOMAIN p.updates : p.updates[i].type # "DELETE"
  \/ \A i \in DOMAIN p.updates : p.updates[i].type = "DELETE"

MCProblems ==
  {WithMaximum(p, n) : p \in Illegal, n \in {0, 1}}
  \cup {WithMaximum(p, Unlimited) : p \in {q \in Differences : OneWay(q)}}
  \cup {WithMaximum(p, 2) : p \in {q \in Differences : Len(q.updates) < MaxUpdates}}
  \cup {[before |-> Table({}), updates |-> SetToSeq(S), maximum |-> n] : S \in Longer, n \in {2, 3}}
  \cup {[before |-> Table({}), updates |-> << >>, maximum |-> n] : n \in -1 .. 2}
  \cup {[before |-> Table({}), updates |-> l, maximum |-> Unlimited] : l \in Lists}

MCMixedProblems == {WithMaximum(p, Unlimited) : p \in Differences}

MCUpdateLists == {p.updates : p \in MCProblems}
=============================================================================
