----------------------------- MODULE MCReferences -----------------------------
(***************************************************************************)
(* A small P4 program and entities of its tables, for model checking.      *)
(*                                                                         *)
(*   route     --(match rif, optional match peer, forward.peer)--> neighbor  *)
(*   route     --(replicate.group)--> multicast                            *)
(*   multicast --(replica port, replica instance)--> neighbor              *)
(*                                                                         *)
(* It has every kind of reference the code supports: exact and optional    *)
(* match fields and parameters of several actions that meet in one         *)
(* destination, action sets, and replicas of the built-in multicast table. *)
(***************************************************************************)
EXTENDS Integers

CONSTANTS v1, v2, ternary

MCTables == {"route", "multicast", "neighbor"}

MCDependencyRank == [t \in MCTables |->
  CASE t = "neighbor" -> 0 [] t = "multicast" -> -1 [] t = "route" -> -2]

Match(name, optional) ==
  [kind |-> "match", action |-> "", name |-> name, optional |-> optional]

Param(action, name) ==
  [kind |-> "action", action |-> action, name |-> name, optional |-> FALSE]

RefersTo(source, name) == [source |-> source, destination |-> Match(name, FALSE)]

MCTableReferences == {
  [source |-> "route", destination |-> "neighbor", fields |-> {
     RefersTo(Match("rif", FALSE), "rif"),
     RefersTo(Match("peer", TRUE), "peer"),
     RefersTo(Param("forward", "peer"), "peer")}],
  [source |-> "route", destination |-> "multicast", fields |-> {
     RefersTo(Param("replicate", "group"), "group_id")}],
  [source |-> "multicast", destination |-> "neighbor", fields |-> {
     RefersTo(Param("replica", "port"), "rif"),
     RefersTo(Param("replica", "instance"), "peer")}]}

------------------------------------------------------------------------------
Entity(kind, table, match, action_type, actions) ==
  [kind |-> kind, table |-> table, priority |-> 0, match |-> match,
   action_type |-> action_type, actions |-> actions]

Neighbor(rif, peer) ==
  Entity("table_entry", "neighbor", [rif |-> rif, peer |-> peer], "action",
         {[action |-> "set_mac", params |-> << >>]})

Multicast(group, replicas) ==
  Entity("multicast_group_entry", "multicast", [group_id |-> group], "replicas",
         {[action |-> "replica", params |-> [port |-> r[1], instance |-> r[2]]] : r \in replicas})

Route(match, action_type, actions) ==
  Entity("table_entry", "route", match, action_type, actions)

Forward(peer) == [action |-> "forward", params |-> [peer |-> peer]]
Replicate(group) == [action |-> "replicate", params |-> [group |-> group]]
Drop == [action |-> "drop", params |-> << >>]

(* The table also has a ternary field nobody refers to, so two entries can  *)
(* satisfy the same references.                                            *)
SecondNeighbor(rif, peer) ==
  [Neighbor(rif, peer) EXCEPT !.match = [rif |-> rif, peer |-> peer, port |-> ternary]]

Neighbors ==
  {Neighbor(v1, v1), Neighbor(v1, v2), Neighbor(v2, v1), SecondNeighbor(v1, v1)}

Groups == {Multicast(v1, {}), Multicast(v1, {<<v1, v1>>}),
           Multicast(v1, {<<v1, v2>>, <<v2, v1>>})}

Routes == {
  Route([rif |-> v1], "action", {Drop}),
  Route([rif |-> v1], "action", {Forward(v2)}),
  Route([rif |-> v1], "action_set", {Forward(v1), Forward(v2), Drop}),
  Route([rif |-> v1, peer |-> v1], "action", {Forward(v2)}),
  Route([rif |-> v1, peer |-> v1], "action", {Replicate(v1)}),
  Route([rif |-> v1, peer |-> v2], "action_set", {}),
  Route([rif |-> v1, peer |-> v2], "action", {Forward(v2)})}

(* Entities the program does not allow, and a key without its action.      *)
Malformed == {
  Route([rif |-> v1], "unset", {}),
  Route([rif |-> v1], "action", {[action |-> "forward", params |-> << >>]}),
  Route([rif |-> v1, peer |-> ternary], "action", {Drop}),
  Route(<< >>, "action", {Drop}),
  Entity("table_entry", "neighbor", [rif |-> v1], "action", {}),
  Entity("table_entry", "unknown", [rif |-> v1], "action", {}),
  Entity("clone_session_entry", "clone_session", [session |-> v1], "replicas", {}),
  Entity("other", "none", << >>, "unset", {})}

MCEntities == Neighbors \cup Groups \cup Routes \cup Malformed
=============================================================================
