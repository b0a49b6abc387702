------------------------- MODULE MCSequencingProgram --------------------------
(***************************************************************************)
(* A P4 program whose references make a diamond, and entities of its       *)
(* tables:                                                                 *)
(*                                                                         *)
(*   route    --(forward.nexthop)-->                   nexthop             *)
(*   nexthop  --(set_nexthop.rif, set_nexthop.peer)--> neighbor            *)
(*   nexthop  --(set_nexthop.rif)-->                   rif                 *)
(*   neighbor --(match rif)-->                         rif                 *)
(*   route    --(replicate.group)-->                   multicast, built in *)
(*   multicast --(replica.port)-->                     rif                 *)
(***************************************************************************)
EXTENDS Integers

CONSTANTS v1, v2, ternary

MCTables == {"route", "nexthop", "neighbor", "rif", "multicast"}

MCBuiltInTables == {"multicast"}

MCDependencyRank == [t \in MCTables |->
  CASE t = "rif" -> 0 [] t \in {"neighbor", "multicast"} -> -1
    [] t = "nexthop" -> -2 [] t = "route" -> -3]

Match(name) == [kind |-> "match", action |-> "", name |-> name, optional |-> FALSE]

Param(action, name) ==
  [kind |-> "action", action |-> action, name |-> name, optional |-> FALSE]

RefersToMatch(source, name) == [source |-> source, destination |-> Match(name)]

MCTableReferences == {
  [source |-> "route", destination |-> "nexthop", fields |-> {
     RefersToMatch(Param("forward", "nexthop"), "id")}],
  [source |-> "route", destination |-> "multicast", fields |-> {
     RefersToMatch(Param("replicate", "group"), "group_id")}],
  [source |-> "multicast", destination |-> "rif", fields |-> {
     RefersToMatch(Param("replica", "port"), "rif")}],
  [source |-> "nexthop", destination |-> "neighbor", fields |-> {
     RefersToMatch(Param("set_nexthop", "rif"), "rif"),
     RefersToMatch(Param("set_nexthop", "peer"), "peer")}],
  [source |-> "nexthop", destination |-> "rif", fields |-> {
     RefersToMatch(Param("set_nexthop", "rif"), "rif")}],
  [source |-> "neighbor", destination |-> "rif", fields |-> {
     RefersToMatch(Match("rif"), "rif")}]}

------------------------------------------------------------------------------
TableEntry(table, match, action_type, actions) ==
  [kind |-> "table_entry", table |-> table, priority |-> 0, match |-> match,
   action_type |-> action_type, actions |-> actions]

Invocation(action, params) == [action |-> action, params |-> params]

Rif(rif) == TableEntry("rif", [rif |-> rif], "action", {Invocation("set_port", << >>)})

Neighbor(rif, peer) ==
  TableEntry("neighbor", [rif |-> rif, peer |-> peer], "action", {Invocation("set_mac", << >>)})

Nexthop(id, rif, peer) ==
  TableEntry("nexthop", [id |-> id], "action",
             {Invocation("set_nexthop", [rif |-> rif, peer |-> peer])})

Forward(nexthop) == Invocation("forward", [nexthop |-> nexthop])

Route(actions) == TableEntry("route", [prefix |-> v1], "action_set", actions)

Multicast(port) ==
  [TableEntry("multicast", [group_id |-> v1], "replicas",
              {Invocation("replica", [port |-> port])}) EXCEPT !.kind = "multicast_group_entry"]

(* A table may have fields nobody refers to: a second rif satisfies the same *)
(* references.                                                              *)
SecondRif(rif) == [Rif(rif) EXCEPT !.match = [rif |-> rif, port |-> v2]]

Entries == {
  Rif(v1), Rif(v2), Neighbor(v1, v1), Neighbor(v2, v1),
  Nexthop(v1, v1, v1), Nexthop(v1, v2, v1), Nexthop(v2, v2, v1),
  Route({}), Route({Forward(v1)}), Route({Forward(v1), Forward(v2)})}

(* Entities the code does not expect: a key without its action, a table and *)
(* a kind of entity the sequencer does not know, a field whose value cannot *)
(* refer.                                                                   *)
Unexpected == {
  TableEntry("rif", [rif |-> v1], "unset", {}),
  TableEntry("unknown", [rif |-> v1], "action", {}),
  Multicast(v1),
  TableEntry("neighbor", [rif |-> ternary, peer |-> v1], "action", {})}

Of(type, entities) == {[type |-> type, entity |-> e] : e \in entities}
=============================================================================
