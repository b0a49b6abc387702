-------------------------- MODULE MCGarbageCollection --------------------------
(***************************************************************************)
(* Lists of entities of the program MCSequencingProgram with every choice  *)
(* of roots: all lists of up to MaxEntities entities, and lists with one   *)
(* entity that cannot be handled.                                          *)
(***************************************************************************)
EXTENDS GarbageCollection, MCSequencingProgram, SequencesExt

CONSTANT MaxEntities

ReplicatingRoute ==
  TableEntry("route", [prefix |-> v2], "action", {Invocation("replicate", [group |-> v1])})

CloneSession ==
  [kind |-> "clone_session_entry", table |-> "clone_session", priority |-> 0,
   match |-> [session |-> v1], action_type |-> "replicas", actions |-> {}]

Collected == {
  Rif(v1), SecondRif(v1), Rif(v2), Neighbor(v1, v1), Neighbor(v2, v1),
  Nexthop(v1, v1, v1), Nexthop(v2, v2, v1),
  Route({}), Route({Forward(v1), Forward(v2)}), ReplicatingRoute}

WithRoots(S, answers) ==
  LET list == SetToSeq(S)
  IN  {[entities |-> list, is_root |-> f] : f \in [DOMAIN list -> answers]}

MCInputs ==
  UNION {WithRoots(S, {"yes", "no"}) :
           S \in UNION {kSubset(n, Collected) : n \in 0 .. MaxEntities}}
  \cup UNION {WithRoots({Rif(v1), Nexthop(v1, v1, v1), e}, {"yes", "no", "error"}) :
                e \in Unexpected \cup {CloneSession}}
=============================================================================
