---------------------------- MODULE DependencyRank ----------------------------
(***************************************************************************)
(* ConstructDependencyRankByTableName (p4_pdpi/ir.cc), the end of          *)
(* CreateIrP4Info: every table gets a rank below the ranks of all tables   *)
(* it refers to, and a program whose table references have a cycle is      *)
(* refused.  The recursion of SetAndReturnTableDependencyRank is a stack   *)
(* of calls.                                                               *)
(***************************************************************************)
EXTENDS Integers, Sequences

CONSTANTS
  Tables,  \* names of the P4 tables and the built-in tables
  Graphs   \* the table references considered: sets of <<source, destination>>

ASSUME GraphsAssumption == Graphs \subseteq SUBSET (Tables \X Tables)

VARIABLES
  references,
  dependency_rank_by_table_name,  \* 1 is the mark of a table being processed
  calls,   \* stack, innermost call last, of [table, pending, rank]
  status

vars == <<references, dependency_rank_by_table_name, calls, status>>

Rank(t) == dependency_rank_by_table_name[t]

Processed == DOMAIN dependency_rank_by_table_name

Outgoing(t) == {d \in Tables : <<t, d>> \in references}

SetRank(t, rank) ==
  dependency_rank_by_table_name' =
    [s \in Processed \cup {t} |-> IF s = t THEN rank ELSE Rank(s)]

(* Mutant of the next definition: the reference visited last decides.       *)
Latest(a, b) == b

Lower(a, b) == IF a < b THEN a ELSE b

(* Mutant of the next definition: ranks start one too low.                  *)
CallBelowZero(t) == [table |-> t, pending |-> Outgoing(t), rank |-> -1]

Call(t) == [table |-> t, pending |-> Outgoing(t), rank |-> 0]

Innermost == calls[Len(calls)]

(* The caller of a call takes the rank of the table it asked for.           *)
Take(call, t, rank) ==
  [table |-> call.table, pending |-> call.pending \ {t}, rank |-> Lower(call.rank, rank - 1)]

------------------------------------------------------------------------------
(* Mutant of the next definition: the loop returns after its first table.   *)
StartFirstTable ==
  /\ status = "none" /\ calls = << >> /\ Processed = {}
  /\ \E t \in Tables :
       /\ SetRank(t, 1)
       /\ calls' = <<Call(t)>>
  /\ UNCHANGED <<references, status>>

(* The loops over all tables; a table with a rank is passed over.           *)
StartTable ==
  /\ status = "none" /\ calls = << >>
  /\ \E t \in Tables \ Processed :
       /\ SetRank(t, 1)
       /\ calls' = <<Call(t)>>
  /\ UNCHANGED <<references, status>>

(* A reference to a table without a rank: a recursive call.                 *)
VisitNewTable ==
  /\ status = "none" /\ calls # << >>
  /\ \E t \in Innermost.pending \ Processed :
       /\ SetRank(t, 1)
       /\ calls' = Append(calls, Call(t))
  /\ UNCHANGED <<references, status>>

(* Mutant of the next definition: a rank of zero is taken for the mark.     *)
RankZeroRefused ==
  /\ status = "none" /\ calls # << >>
  /\ \E t \in Innermost.pending \cap Processed :
       \/ /\ Rank(t) < 0
          /\ calls' = [calls EXCEPT ![Len(calls)] = Take(@, t, Rank(t))]
          /\ UNCHANGED status
       \/ /\ Rank(t) >= 0
          /\ status' = "CYCLIC"
          /\ UNCHANGED calls
  /\ UNCHANGED <<references, dependency_rank_by_table_name>>

VisitKnownTable ==
  /\ status = "none" /\ calls # << >>
  /\ \E t \in Innermost.pending \cap Processed :
       \/ /\ Rank(t) <= 0
          /\ calls' = [calls EXCEPT ![Len(calls)] = Take(@, t, Rank(t))]
          /\ UNCHANGED status
       \/ /\ Rank(t) > 0
          /\ status' = "CYCLIC"
          /\ UNCHANGED calls
  /\ UNCHANGED <<references, dependency_rank_by_table_name>>

ReturnRank ==
  /\ status = "none" /\ calls # << >>
  /\ Innermost.pending = {}
  /\ LET n == Len(calls)
         callers == SubSeq(calls, 1, n - 1)
     IN  /\ SetRank(Innermost.table, Innermost.rank)
         /\ calls' = IF n = 1 THEN << >>
                     ELSE [callers EXCEPT ![n - 1] = Take(@, Innermost.table, Innermost.rank)]
  /\ UNCHANGED <<references, status>>

Return ==
  /\ status = "none" /\ calls = << >> /\ Processed = Tables
  /\ status' = "OK"
  /\ UNCHANGED <<references, dependency_rank_by_table_name, calls>>

Init ==
  /\ references \in Graphs
  /\ dependency_rank_by_table_name = [t \in {} |-> 0]
  /\ calls = << >>
  /\ status = "none"

Next == StartTable \/ VisitNewTable \/ VisitKnownTable \/ ReturnRank \/ Return

(* The construction is one sequential computation.                          *)
Spec == Init /\ [][Next]_vars /\ WF_vars(Next)

------------------------------------------------------------------------------
(* Properties                                                              *)

Ranked == {t \in Processed : Rank(t) <= 0}

TypeOK ==
  /\ status \in {"none", "OK", "CYCLIC"}
  /\ references \subseteq Tables \X Tables
  /\ Processed \subseteq Tables
  /\ \A t \in Processed : Rank(t) \in Int /\ Rank(t) <= 1
  /\ \A n \in DOMAIN calls :
       /\ calls[n].table \in Processed /\ Rank(calls[n].table) = 1
       /\ calls[n].pending \subseteq Outgoing(calls[n].table)
       /\ calls[n].rank \in Int /\ calls[n].rank <= 0

(* The rank of a table is final: whatever it refers to already has a higher *)
(* one, which no later call changes.                                        *)
ReferencedTablesRankHigher ==
  \A t \in Ranked : \A d \in Outgoing(t) : d \in Ranked /\ Rank(t) < Rank(d)

(* Ranks are as high as they can be: a table refers to one just above it,   *)
(* or to none.                                                              *)
RanksAreTight ==
  \A t \in Ranked :
    \/ Rank(t) = 0 /\ Outgoing(t) = {}
    \/ \E d \in Outgoing(t) : Rank(t) = Rank(d) - 1

(* A program is refused only if its table references have a cycle: tables   *)
(* each of which refers to another one of them, or to itself.               *)
RefusedOnlyIfCyclic ==
  status = "CYCLIC" =>
    \E S \in SUBSET Tables : S # {} /\ \A t \in S : Outgoing(t) \cap S # {}

(* Construction ends: with a rank for every table, or with the error.       *)
EveryTableIsRanked == <>(status = "CYCLIC" \/ Ranked = Tables)
=============================================================================
