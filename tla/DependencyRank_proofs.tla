------------------------- MODULE DependencyRank_proofs -------------------------
(***************************************************************************)
(* Proofs about the ranks of tables, for every set of tables and every     *)
(* graph of references between them, infinite ones included.               *)
(***************************************************************************)
EXTENDS DependencyRank, SequenceTheorems, TLAPS

Calls == [table : Tables, pending : SUBSET Tables, rank : Int]

(* The tables that carry the mark are those on the stack, each once; each   *)
(* waits for the next one; what a call has seen so far is ranked above it.  *)
StackInv ==
  /\ calls \in Seq(Calls)
  /\ \A t \in Processed : Rank(t) = 1 => \E n \in DOMAIN calls : calls[n].table = t
  /\ \A m, n \in DOMAIN calls : calls[m].table = calls[n].table => m = n
  /\ \A n \in 1 .. Len(calls) - 1 : calls[n + 1].table \in calls[n].pending

Seen(call) == Outgoing(call.table) \ call.pending

SeenRankHigher ==
  \A n \in DOMAIN calls : \A d \in Seen(calls[n]) : d \in Ranked /\ calls[n].rank < Rank(d)

CallsAreTight ==
  \A n \in DOMAIN calls :
    \/ calls[n].rank = 0 /\ Seen(calls[n]) = {}
    \/ \E d \in Seen(calls[n]) : calls[n].rank = Rank(d) - 1

IInv ==
  /\ TypeOK /\ StackInv /\ SeenRankHigher /\ CallsAreTight
  /\ ReferencedTablesRankHigher /\ RanksAreTight

LEMMA InitEstablishesInvariant == Init => IInv
  <1> SUFFICES ASSUME Init PROVE IInv
    OBVIOUS
  <1>1. Processed = {} /\ DOMAIN calls = {} /\ calls \in Seq(Calls) /\ Len(calls) = 0
    BY DEF Init, Processed
  <1>2. references \subseteq Tables \X Tables
    BY GraphsAssumption DEF Init
  <1> QED
    BY <1>1, <1>2 DEF Init, IInv, TypeOK, StackInv, SeenRankHigher, CallsAreTight,
       ReferencedTablesRankHigher, RanksAreTight, Ranked

(* A call is pushed for a table without a rank: the table gets the mark.     *)
LEMMA PushPreservesInvariant ==
  ASSUME IInv, NEW t \in Tables \ Processed,
         SetRank(t, 1), calls' = Append(calls, Call(t)), UNCHANGED <<references, status>>,
         calls # << >> => t \in Innermost.pending
  PROVE  IInv'
  <1> DEFINE N == Len(calls)
  <1>0. N \in Nat /\ DOMAIN calls = 1 .. N /\ calls \in Seq(Calls)
    BY DEF IInv, StackInv
  <1>1. Call(t) \in Calls
    BY DEF Call, Calls, Outgoing
  <1>2. /\ calls' \in Seq(Calls) /\ Len(calls') = N + 1 /\ DOMAIN calls' = 1 .. N + 1
        /\ \A n \in 1 .. N : calls'[n] = calls[n]
        /\ calls'[N + 1] = Call(t)
    BY <1>0, <1>1
  <1>3. /\ Processed' = Processed \cup {t}
        /\ Rank(t)' = 1
        /\ \A s \in Processed : Rank(s)' = Rank(s)
    BY DEF SetRank, Processed, Rank
  <1>4. Ranked' = Ranked /\ \A d \in Ranked : d \in Processed /\ d # t /\ Rank(d)' = Rank(d)
    BY <1>3 DEF Ranked
  <1>5. \A s : Outgoing(s)' = Outgoing(s)
    BY DEF Outgoing
  <1>6. \A call : Seen(call)' = Seen(call)
    BY <1>5 DEF Seen
  <1> HIDE DEF N
  <1>7. TypeOK'
    BY <1>0, <1>2, <1>3, <1>5 DEF IInv, TypeOK, Call
  <1>8. \A n \in 1 .. N : calls[n].table \in Processed /\ calls[n].table # t
    BY <1>0 DEF IInv, TypeOK
  <1>9. StackInv'
    <2>1. \A s \in Processed' : Rank(s)' = 1 => \E n \in DOMAIN calls' : calls'[n].table = s
      <3> SUFFICES ASSUME NEW s \in Processed', Rank(s)' = 1
                   PROVE  \E n \in DOMAIN calls' : calls'[n].table = s
        OBVIOUS
      <3>1. CASE s = t
        BY <3>1, <1>0, <1>2 DEF Call
      <3>2. CASE s # t
        <4>1. PICK n \in 1 .. N : calls[n].table = s
          BY <3>2, <1>0, <1>3 DEF IInv, StackInv
        <4> QED
          BY <4>1, <1>0, <1>2
      <3> QED
        BY <3>1, <3>2
    <2>2. \A m, n \in DOMAIN calls' : calls'[m].table = calls'[n].table => m = n
      BY <1>0, <1>2, <1>8 DEF IInv, StackInv, Call
    <2>3. \A n \in 1 .. Len(calls') - 1 : calls'[n + 1].table \in calls'[n].pending
      <3> SUFFICES ASSUME NEW n \in 1 .. N PROVE calls'[n + 1].table \in calls'[n].pending
        BY <1>0, <1>2
      <3>1. CASE n = N
        BY <3>1, <1>0, <1>2 DEF Call, Innermost, N
      <3>2. CASE n # N
        <4>1. n \in 1 .. N /\ n + 1 \in 1 .. N /\ n \in 1 .. Len(calls) - 1
          BY <3>2, <1>0 DEF N
        <4>2. calls[n + 1].table \in calls[n].pending
          BY <4>1 DEF IInv, StackInv
        <4> QED
          BY <4>1, <4>2, <1>2
      <3> QED
        BY <3>1, <3>2
    <2> QED
      BY <2>1, <2>2, <2>3, <1>2 DEF StackInv
  <1>10. Seen(Call(t)) = {}
    BY DEF Seen, Call
  <1>11. SeenRankHigher'
    BY <1>0, <1>2, <1>4, <1>6, <1>10 DEF IInv, SeenRankHigher
  <1>12. CallsAreTight'
    <2> SUFFICES ASSUME NEW n \in 1 .. N + 1
                 PROVE  \/ calls'[n].rank = 0 /\ Seen(calls'[n]) = {}
                        \/ \E d \in Seen(calls'[n]) : calls'[n].rank = Rank(d)' - 1
      BY <1>2, <1>6 DEF CallsAreTight
    <2>1. CASE n = N + 1
      BY <2>1, <1>2, <1>10 DEF Call
    <2>2. CASE n # N + 1
      BY <2>2, <1>0, <1>2, <1>4 DEF IInv, CallsAreTight, SeenRankHigher
    <2> QED
      BY <2>1, <2>2
  <1>13. ReferencedTablesRankHigher' /\ RanksAreTight'
    BY <1>4, <1>5 DEF IInv, ReferencedTablesRankHigher, RanksAreTight
  <1> QED
    BY <1>7, <1>9, <1>11, <1>12, <1>13 DEF IInv

(* A call that takes the rank r of a table t it waits for.                   *)
LEMMA TakeKeepsCall ==
  ASSUME NEW call \in Calls, call.rank <= 0,
         call.pending \subseteq Outgoing(call.table),
         NEW t \in call.pending, NEW r \in Int, r <= 0,
         \A d \in Seen(call) : Rank(d) \in Int /\ call.rank < Rank(d),
         \/ call.rank = 0 /\ Seen(call) = {}
         \/ \E d \in Seen(call) : call.rank = Rank(d) - 1
  PROVE  LET taken == Take(call, t, r)
         IN  /\ taken \in Calls /\ taken.rank <= 0
             /\ taken.table = call.table
             /\ taken.pending = call.pending \ {t}
             /\ Seen(taken) = Seen(call) \cup {t}
             /\ taken.rank < r
             /\ \A d \in Seen(call) : taken.rank < Rank(d)
             /\ \/ taken.rank = r - 1
                \/ \E d \in Seen(call) : taken.rank = Rank(d) - 1
  <1> DEFINE taken == Take(call, t, r)
  <1>1. /\ taken.table = call.table
        /\ taken.pending = call.pending \ {t}
        /\ taken.rank = IF call.rank < r - 1 THEN call.rank ELSE r - 1
        /\ taken = [table |-> taken.table, pending |-> taken.pending, rank |-> taken.rank]
    BY DEF Take, Lower
  <1>2. call.rank \in Int
    BY DEF Calls
  <1>3. taken \in Calls
    BY <1>1, <1>2 DEF Calls
  <1> HIDE DEF taken
  <1>4. taken.rank <= 0 /\ taken.rank < r /\ taken.rank <= call.rank /\ taken.rank \in Int
    BY <1>1, <1>2
  <1>5. Seen(taken) = Seen(call) \cup {t}
    BY <1>1 DEF Seen
  <1>6. \A d \in Seen(call) : taken.rank < Rank(d)
    BY <1>2, <1>4
  <1>7. taken.rank = r - 1 \/ \E d \in Seen(call) : taken.rank = Rank(d) - 1
    BY <1>1, <1>2
  <1> QED
    BY <1>1, <1>3, <1>4, <1>5, <1>6, <1>7 DEF taken

LEMMA VisitPreservesInvariant ==
  ASSUME IInv, calls # << >>, NEW t \in Innermost.pending \cap Processed, Rank(t) <= 0,
         calls' = [calls EXCEPT ![Len(calls)] = Take(@, t, Rank(t))],
         status' \in {"none", "OK", "CYCLIC"},
         UNCHANGED <<references, dependency_rank_by_table_name>>
  PROVE  IInv'
  <1> DEFINE N == Len(calls)
  <1>1. N \in Nat \ {0} /\ DOMAIN calls = 1 .. N /\ calls \in Seq(Calls)
    BY DEF IInv, StackInv
  <1> HIDE DEF N
  <1> DEFINE call == calls[N]
             taken == Take(call, t, Rank(t))
  <1>3. /\ Ranked' = Ranked /\ Processed' = Processed
        /\ \A s : Rank(s)' = Rank(s) /\ Outgoing(s)' = Outgoing(s)
    BY DEF Ranked, Processed, Rank, Outgoing
  <1>4. \A c : Seen(c)' = Seen(c)
    BY <1>3 DEF Seen
  <1>5. call \in Calls /\ call.rank <= 0 /\ call.pending \subseteq Outgoing(call.table)
    BY <1>1 DEF IInv, TypeOK
  <1>6. t \in call.pending /\ t \in Ranked /\ Rank(t) \in Int
    BY <1>1 DEF Innermost, N, Ranked, IInv, TypeOK
  <1>7. \A d \in Seen(call) : d \in Ranked /\ Rank(d) \in Int /\ call.rank < Rank(d)
    BY <1>1 DEF IInv, SeenRankHigher, Ranked, TypeOK
  <1>8. (call.rank = 0 /\ Seen(call) = {}) \/ \E d \in Seen(call) : call.rank = Rank(d) - 1
    BY <1>1 DEF IInv, CallsAreTight
  <1> HIDE DEF call
  <1>9. /\ taken \in Calls /\ taken.rank <= 0
        /\ taken.table = call.table
        /\ taken.pending = call.pending \ {t}
        /\ Seen(taken) = Seen(call) \cup {t}
        /\ taken.rank < Rank(t)
        /\ \A d \in Seen(call) : taken.rank < Rank(d)
        /\ \/ taken.rank = Rank(t) - 1
           \/ \E d \in Seen(call) : taken.rank = Rank(d) - 1
    BY <1>5, <1>6, <1>7, <1>8, TakeKeepsCall
  <1>2. /\ calls' \in Seq(Calls) /\ DOMAIN calls' = 1 .. N /\ Len(calls') = N
        /\ \A n \in 1 .. N : n # N => calls'[n] = calls[n]
        /\ calls'[N] = taken
    <2>1. calls' = [calls EXCEPT ![N] = taken]
      BY DEF N, call
    <2>2. N \in 1 .. Len(calls) /\ taken \in Calls /\ Len(calls) = N /\ calls \in Seq(Calls)
      BY <1>1, <1>9 DEF N
    <2> HIDE DEF taken
    <2> QED
      BY <2>1, <2>2, ExceptSeq
  <1> HIDE DEF taken
  <1>11. \A n \in 1 .. N : calls'[n].table = calls[n].table
    BY <1>2, <1>9 DEF call
  <1>12. TypeOK'
    <2>1. \A n \in 1 .. N : /\ calls'[n].table \in Processed /\ Rank(calls'[n].table) = 1
                            /\ calls'[n].pending \subseteq Outgoing(calls'[n].table)
                            /\ calls'[n].rank \in Int /\ calls'[n].rank <= 0
      <3> TAKE n \in 1 .. N
      <3>1. CASE n = N
        BY <3>1, <1>1, <1>2, <1>5, <1>9 DEF IInv, TypeOK, call, Calls
      <3>2. CASE n # N
        BY <3>2, <1>1, <1>2 DEF IInv, TypeOK
      <3> QED
        BY <3>1, <3>2
    <2> QED
      BY <2>1, <1>2, <1>3 DEF IInv, TypeOK
  <1>13. StackInv'
    <2>1. \A s \in Processed' : Rank(s)' = 1 => \E n \in DOMAIN calls' : calls'[n].table = s
      BY <1>1, <1>2, <1>3, <1>11 DEF IInv, StackInv
    <2>2. \A m, n \in DOMAIN calls' : calls'[m].table = calls'[n].table => m = n
      BY <1>1, <1>2, <1>11 DEF IInv, StackInv
    <2>3. \A n \in 1 .. Len(calls') - 1 : calls'[n + 1].table \in calls'[n].pending
      <3> SUFFICES ASSUME NEW n \in 1 .. N - 1 PROVE calls'[n + 1].table \in calls'[n].pending
        BY <1>2
      <3>0. N \in Nat \ {0}
        BY <1>1
      <3>1. n \in 1 .. N /\ n # N /\ n + 1 \in 1 .. N
        BY <3>0
      <3>2. calls[n + 1].table \in calls[n].pending
        BY DEF N, IInv, StackInv
      <3> QED
        BY <3>1, <3>2, <1>2, <1>11
    <2> QED
      BY <2>1, <2>2, <2>3, <1>2 DEF StackInv
  <1>14. SeenRankHigher'
    <2> SUFFICES ASSUME NEW n \in 1 .. N, NEW d \in Seen(calls'[n])
                 PROVE  d \in Ranked /\ calls'[n].rank < Rank(d)
      BY <1>2, <1>3, <1>4 DEF SeenRankHigher
    <2>1. CASE n = N
      BY <2>1, <1>2, <1>6, <1>7, <1>9
    <2>2. CASE n # N
      BY <2>2, <1>1, <1>2 DEF IInv, SeenRankHigher
    <2> QED
      BY <2>1, <2>2
  <1>15. CallsAreTight'
    <2> SUFFICES ASSUME NEW n \in 1 .. N
                 PROVE  \/ calls'[n].rank = 0 /\ Seen(calls'[n]) = {}
                        \/ \E d \in Seen(calls'[n]) : calls'[n].rank = Rank(d) - 1
      BY <1>2, <1>3, <1>4 DEF CallsAreTight
    <2>1. CASE n = N
      BY <2>1, <1>2, <1>9
    <2>2. CASE n # N
      BY <2>2, <1>1, <1>2 DEF IInv, CallsAreTight
    <2> QED
      BY <2>1, <2>2
  <1>16. ReferencedTablesRankHigher' /\ RanksAreTight'
    BY <1>3 DEF IInv, ReferencedTablesRankHigher, RanksAreTight
  <1> QED
    BY <1>12, <1>13, <1>14, <1>15, <1>16 DEF IInv

LEMMA ReturnPreservesInvariant ==
  ASSUME IInv, ReturnRank
  PROVE  IInv'
  <1>0. PICK N, T, R, M, callers, taken :
            /\ N = Len(calls) /\ T = calls[N].table /\ R = calls[N].rank
            /\ M = N - 1 /\ callers = SubSeq(calls, 1, M) /\ taken = Take(calls[M], T, R)
    OBVIOUS
  <1>1. N \in Nat \ {0} /\ DOMAIN calls = 1 .. N /\ calls \in Seq(Calls)
    BY <1>0 DEF IInv, StackInv, ReturnRank
  <1>2. /\ calls[N] \in Calls /\ T \in Processed /\ Rank(T) = 1
        /\ R \in Int /\ R <= 0 /\ calls[N].pending = {}
    BY <1>0, <1>1 DEF IInv, TypeOK, ReturnRank, Innermost
  <1>3. Seen(calls[N]) = Outgoing(T)
    BY <1>0, <1>2 DEF Seen
  <1>4. SetRank(T, R) /\ UNCHANGED <<references, status>>
        /\ calls' = IF N = 1 THEN << >> ELSE [callers EXCEPT ![M] = Take(callers[M], T, R)]
    BY <1>0 DEF ReturnRank, Innermost
  <1>5. /\ M \in Nat /\ callers \in Seq(Calls) /\ Len(callers) = M
        /\ \A n \in 1 .. M : callers[n] = calls[n] /\ n \in 1 .. N /\ calls[n] \in Calls
    BY <1>0, <1>1, SubSeqProperties
  <1>6. \A n \in 1 .. M : n \in 1 .. N /\ n # N /\ calls[n].table # T
    BY <1>0, <1>1 DEF IInv, StackInv
  <1>7. M > 0 => T \in calls[M].pending
    <2> SUFFICES ASSUME M > 0 PROVE T \in calls[M].pending
      OBVIOUS
    <2>1. M \in 1 .. Len(calls) - 1 /\ M + 1 = N
      BY <1>0, <1>1
    <2> QED
      BY <1>0, <2>1 DEF IInv, StackInv
  <1>8. \A n \in 1 .. M : /\ calls[n].table \in Processed /\ Rank(calls[n].table) = 1
                          /\ calls[n].pending \subseteq Outgoing(calls[n].table)
                          /\ calls[n].rank \in Int /\ calls[n].rank <= 0
    BY <1>1, <1>6 DEF IInv, TypeOK
  <1>9. \A n \in 1 .. M :
          /\ \A d \in Seen(calls[n]) : d \in Ranked /\ Rank(d) \in Int /\ calls[n].rank < Rank(d)
          /\ \/ calls[n].rank = 0 /\ Seen(calls[n]) = {}
             \/ \E d \in Seen(calls[n]) : calls[n].rank = Rank(d) - 1
    BY <1>1, <1>6 DEF IInv, SeenRankHigher, CallsAreTight, Ranked, TypeOK
  <1>10. M > 0 => /\ taken \in Calls /\ taken.rank <= 0
                  /\ taken.table = calls[M].table
                  /\ taken.pending = calls[M].pending \ {T}
                  /\ Seen(taken) = Seen(calls[M]) \cup {T}
                  /\ taken.rank < R
                  /\ \A d \in Seen(calls[M]) : taken.rank < Rank(d)
                  /\ \/ taken.rank = R - 1
                     \/ \E d \in Seen(calls[M]) : taken.rank = Rank(d) - 1
    <2> HAVE M > 0
    <2>1. M \in 1 .. M
      BY <1>5
    <2> DEFINE call == calls[M]
    <2>2. call \in Calls /\ call.rank <= 0 /\ call.pending \subseteq Outgoing(call.table)
          /\ T \in call.pending
      BY <2>1, <1>5, <1>7, <1>8
    <2>3. /\ \A d \in Seen(call) : Rank(d) \in Int /\ call.rank < Rank(d)
          /\ \/ call.rank = 0 /\ Seen(call) = {}
             \/ \E d \in Seen(call) : call.rank = Rank(d) - 1
      BY <2>1, <1>9
    <2>4. taken = Take(call, T, R)
      BY <1>0
    <2> HIDE DEF call
    <2>5. /\ taken \in Calls /\ taken.rank <= 0
          /\ taken.table = call.table
          /\ taken.pending = call.pending \ {T}
          /\ Seen(taken) = Seen(call) \cup {T}
          /\ taken.rank < R
          /\ \A d \in Seen(call) : taken.rank < Rank(d)
          /\ \/ taken.rank = R - 1
             \/ \E d \in Seen(call) : taken.rank = Rank(d) - 1
      BY <2>2, <2>3, <2>4, <1>2, TakeKeepsCall
    <2> QED
      BY <2>5 DEF call
  <1>11. /\ calls' \in Seq(Calls) /\ Len(calls') = M /\ DOMAIN calls' = 1 .. M
         /\ \A n \in 1 .. M : calls'[n] = IF n = M THEN taken ELSE calls[n]
    <2>1. CASE N = 1
      <3>1. calls' = << >> /\ M = 0
        BY <2>1, <1>0, <1>4
      <3> QED
        BY <3>1
    <2>2. CASE N # 1
      <3>1. M \in 1 .. Len(callers) /\ callers[M] = calls[M] /\ taken \in Calls
        BY <2>2, <1>0, <1>1, <1>5, <1>10
      <3>2. calls' = [callers EXCEPT ![M] = taken]
        BY <2>2, <1>0, <1>4, <3>1
      <3> QED
        BY <3>1, <3>2, <1>5, ExceptSeq
    <2> QED
      BY <2>1, <2>2
  <1>12. /\ Processed' = Processed
         /\ Rank(T)' = R
         /\ \A s \in Processed : s # T => Rank(s)' = Rank(s)
         /\ \A s : Outgoing(s)' = Outgoing(s)
    BY <1>2, <1>4 DEF SetRank, Processed, Rank, Outgoing
  <1>13. /\ Ranked' = Ranked \cup {T} /\ T \notin Ranked
         /\ \A d \in Ranked : Rank(d)' = Rank(d)
    BY <1>2, <1>12 DEF Ranked
  <1>14. \A c : Seen(c)' = Seen(c)
    BY <1>12 DEF Seen
  <1>15. TypeOK'
    <2>1. \A n \in 1 .. M : /\ calls'[n].table \in Processed'
                            /\ dependency_rank_by_table_name'[calls'[n].table] = 1
                            /\ calls'[n].pending \subseteq Outgoing(calls'[n].table)
                            /\ calls'[n].rank \in Int /\ calls'[n].rank <= 0
      <3> TAKE n \in 1 .. M
      <3>1. M > 0 /\ calls[n].table \in Processed
                   /\ dependency_rank_by_table_name'[calls[n].table] = 1
        BY <1>5, <1>6, <1>8, <1>12 DEF Rank
      <3>2. CASE n = M
        BY <3>1, <3>2, <1>8, <1>10, <1>11, <1>12 DEF Calls
      <3>3. CASE n # M
        BY <3>1, <3>3, <1>8, <1>11, <1>12
      <3> QED
        BY <3>2, <3>3
    <2>2. \A s \in Processed' : Rank(s)' \in Int /\ Rank(s)' <= 1
      BY <1>2, <1>12 DEF IInv, TypeOK
    <2> QED
      BY <2>1, <2>2, <1>4, <1>11, <1>12 DEF IInv, TypeOK, Rank
  <1>16. \A n \in 1 .. M : calls'[n].table = calls[n].table
    BY <1>5, <1>10, <1>11
  <1>17. StackInv'
    <2>1. \A s \in Processed' : Rank(s)' = 1 => \E n \in DOMAIN calls' : calls'[n].table = s
      <3> SUFFICES ASSUME NEW s \in Processed, s # T, Rank(s) = 1
                   PROVE  \E n \in 1 .. M : calls'[n].table = s
        BY <1>2, <1>11, <1>12
      <3>1. PICK n \in 1 .. N : calls[n].table = s
        BY <1>1 DEF IInv, StackInv
      <3>2. n \in 1 .. M
        BY <3>1, <1>0, <1>1
      <3> QED
        BY <3>1, <3>2, <1>16
    <2>2. \A m, n \in DOMAIN calls' : calls'[m].table = calls'[n].table => m = n
      BY <1>1, <1>6, <1>11, <1>16 DEF IInv, StackInv
    <2>3. \A n \in 1 .. Len(calls') - 1 : calls'[n + 1].table \in calls'[n].pending
      <3> SUFFICES ASSUME NEW n \in 1 .. M - 1 PROVE calls'[n + 1].table \in calls'[n].pending
        BY <1>11
      <3>1. n \in 1 .. M /\ n # M /\ n + 1 \in 1 .. M /\ n \in 1 .. Len(calls) - 1
        BY <1>0, <1>1, <1>5
      <3>2. calls[n + 1].table \in calls[n].pending
        BY <3>1 DEF IInv, StackInv
      <3> QED
        BY <3>1, <3>2, <1>11, <1>16
    <2> QED
      BY <2>1, <2>2, <2>3, <1>11 DEF StackInv
  <1>18. SeenRankHigher'
    <2> SUFFICES ASSUME NEW n \in 1 .. M, NEW d \in Seen(calls'[n])
                 PROVE  d \in Ranked' /\ calls'[n].rank < Rank(d)'
      BY <1>11, <1>14 DEF SeenRankHigher
    <2>1. CASE n = M
      BY <2>1, <1>5, <1>9, <1>10, <1>11, <1>12, <1>13
    <2>2. CASE n # M
      BY <2>2, <1>9, <1>11, <1>13
    <2> QED
      BY <2>1, <2>2
  <1>19. CallsAreTight'
    <2> SUFFICES ASSUME NEW n \in 1 .. M
                 PROVE  \/ calls'[n].rank = 0 /\ Seen(calls'[n]) = {}
                        \/ \E d \in Seen(calls'[n]) : calls'[n].rank = Rank(d)' - 1
      BY <1>11, <1>14 DEF CallsAreTight
    <2>1. CASE n = M
      BY <2>1, <1>5, <1>9, <1>10, <1>11, <1>12, <1>13
    <2>2. CASE n # M
      BY <2>2, <1>9, <1>11, <1>13
    <2> QED
      BY <2>1, <2>2
  <1>20. /\ \A d \in Outgoing(T) : d \in Ranked /\ R < Rank(d)
         /\ (R = 0 /\ Outgoing(T) = {}) \/ \E d \in Outgoing(T) : R = Rank(d) - 1
    <2>1. N \in DOMAIN calls /\ R = calls[N].rank /\ Seen(calls[N]) = Outgoing(T)
      BY <1>0, <1>1, <1>3
    <2> QED
      BY <2>1 DEF IInv, SeenRankHigher, CallsAreTight
  <1>21. ReferencedTablesRankHigher'
    BY <1>12, <1>13, <1>20 DEF IInv, ReferencedTablesRankHigher
  <1>22. RanksAreTight'
    BY <1>12, <1>13, <1>20 DEF IInv, RanksAreTight, ReferencedTablesRankHigher
  <1> QED
    BY <1>15, <1>17, <1>18, <1>19, <1>21, <1>22 DEF IInv

(* The status and the references do not matter to the invariant.            *)
LEMMA StatusPreservesInvariant ==
  ASSUME IInv, status' \in {"none", "OK", "CYCLIC"},
         UNCHANGED <<references, dependency_rank_by_table_name, calls>>
  PROVE  IInv'
  <1>1. /\ Ranked' = Ranked /\ Processed' = Processed /\ calls' = calls
        /\ \A s : Rank(s)' = Rank(s) /\ Outgoing(s)' = Outgoing(s)
    BY DEF Ranked, Processed, Rank, Outgoing
  <1>2. \A c : Seen(c)' = Seen(c)
    BY <1>1 DEF Seen
  <1>3. TypeOK' /\ StackInv'
    BY <1>1 DEF IInv, TypeOK, StackInv, Rank
  <1>4. SeenRankHigher' /\ CallsAreTight'
    BY <1>1, <1>2 DEF IInv, SeenRankHigher, CallsAreTight
  <1>5. ReferencedTablesRankHigher' /\ RanksAreTight'
    BY <1>1 DEF IInv, ReferencedTablesRankHigher, RanksAreTight
  <1> QED
    BY <1>3, <1>4, <1>5 DEF IInv

LEMMA NextPreservesInvariant == IInv /\ [Next]_vars => IInv'
  <1> SUFFICES ASSUME IInv, [Next]_vars PROVE IInv'
    OBVIOUS
  <1>1. CASE StartTable
    <2>1. PICK t \in Tables \ Processed : SetRank(t, 1) /\ calls' = << Call(t) >>
      BY <1>1 DEF StartTable
    <2>2. calls = << >> /\ calls' = Append(calls, Call(t))
      BY <1>1, <2>1 DEF StartTable
    <2> QED
      BY <1>1, <2>1, <2>2, PushPreservesInvariant DEF StartTable
  <1>2. CASE VisitNewTable
    <2>1. PICK t \in Innermost.pending \ Processed : SetRank(t, 1) /\ calls' = Append(calls, Call(t))
      BY <1>2 DEF VisitNewTable
    <2>2. Len(calls) \in DOMAIN calls /\ calls[Len(calls)] \in Calls
      BY <1>2 DEF VisitNewTable, IInv, StackInv
    <2>3. t \in Tables \ Processed
      BY <2>1, <2>2 DEF Innermost, Calls
    <2> QED
      BY <1>2, <2>1, <2>3, PushPreservesInvariant DEF VisitNewTable
  <1>3. CASE VisitKnownTable
    <2>1. PICK t \in Innermost.pending \cap Processed :
            \/ /\ Rank(t) <= 0
               /\ calls' = [calls EXCEPT ![Len(calls)] = Take(@, t, Rank(t))]
               /\ UNCHANGED status
            \/ status' = "CYCLIC" /\ UNCHANGED calls
      BY <1>3 DEF VisitKnownTable
    <2>2. calls # << >> /\ status = "none" /\ UNCHANGED <<references, dependency_rank_by_table_name>>
      BY <1>3 DEF VisitKnownTable
    <2>3. CASE Rank(t) <= 0 /\ UNCHANGED status
               /\ calls' = [calls EXCEPT ![Len(calls)] = Take(@, t, Rank(t))]
      BY <2>2, <2>3, VisitPreservesInvariant
    <2>4. CASE status' = "CYCLIC" /\ UNCHANGED calls
      BY <2>2, <2>4, StatusPreservesInvariant
    <2> QED
      BY <2>1, <2>3, <2>4
  <1>4. CASE ReturnRank
    BY <1>4, ReturnPreservesInvariant
  <1>5. CASE Return
    BY <1>5, StatusPreservesInvariant DEF Return
  <1>6. CASE UNCHANGED vars
    BY <1>6, StatusPreservesInvariant DEF vars, IInv, TypeOK
  <1> QED
    BY <1>1, <1>2, <1>3, <1>4, <1>5, <1>6 DEF Next

THEOREM InvariantHolds == Spec => []IInv
  BY InitEstablishesInvariant, NextPreservesInvariant, PTL DEF Spec

(* SetAndReturnTableDependencyRank keeps the map and its recursion in step:  *)
(* the tables with the mark are those of the calls under way.               *)
THEOREM TypeCorrect == Spec => []TypeOK
  <1>1. IInv => TypeOK
    BY DEF IInv
  <1> QED
    BY <1>1, InvariantHolds, PTL

(* A rank SetAndReturnTableDependencyRank has given to a table is lower than *)
(* the final ranks of all tables it refers to, whatever is visited later.   *)
THEOREM RanksAreFinal == Spec => []ReferencedTablesRankHigher
  <1>1. IInv => ReferencedTablesRankHigher
    BY DEF IInv
  <1> QED
    BY <1>1, InvariantHolds, PTL

(* The rank of a table is the length of the longest chain of references     *)
(* that starts there.                                                       *)
THEOREM RanksAreLongestChains == Spec => []RanksAreTight
  <1>1. IInv => RanksAreTight
    BY DEF IInv
  <1> QED
    BY <1>1, InvariantHolds, PTL

(* A table found with its mark is on the stack: the calls from there on are *)
(* a cycle of references.                                                   *)
LEMMA MarkMeansCycle ==
  ASSUME IInv, calls # << >>, NEW t \in Innermost.pending \cap Processed, ~(Rank(t) <= 0)
  PROVE  \E S \in SUBSET Tables : S # {} /\ \A s \in S : Outgoing(s) \cap S # {}
  <1>1. PICK N : N = Len(calls)
    OBVIOUS
  <1>2. N \in Nat \ {0} /\ DOMAIN calls = 1 .. N /\ calls \in Seq(Calls)
    BY <1>1 DEF IInv, StackInv
  <1>3. Rank(t) = 1
    BY DEF IInv, TypeOK
  <1>4. PICK m \in 1 .. N : calls[m].table = t
    BY <1>2, <1>3 DEF IInv, StackInv
  <1> DEFINE S == {calls[k].table : k \in m .. N}
  <1>5. ASSUME NEW k \in m .. N PROVE calls[k].table \in Tables
    <2>1. k \in 1 .. N /\ calls[k] \in Calls
      BY <1>2
    <2> QED
      BY <2>1 DEF Calls
  <1>6. S \in SUBSET Tables /\ t \in S
    BY <1>2, <1>4, <1>5
  <1>7. ASSUME NEW k \in m .. N PROVE Outgoing(calls[k].table) \cap S # {}
    <2>1. k \in 1 .. N /\ calls[k].pending \subseteq Outgoing(calls[k].table)
      BY <1>2 DEF IInv, TypeOK
    <2>2. CASE k = N
      BY <2>1, <2>2, <1>1, <1>6 DEF Innermost
    <2>3. CASE k # N
      <3>1. k \in 1 .. Len(calls) - 1 /\ k + 1 \in m .. N
        BY <2>3, <1>1, <1>2
      <3>2. calls[k + 1].table \in calls[k].pending
        BY <3>1 DEF IInv, StackInv
      <3> QED
        BY <3>1, <3>2, <2>1
    <2> QED
      BY <2>2, <2>3
  <1>8. \A s \in S : Outgoing(s) \cap S # {}
    <2> SUFFICES ASSUME NEW k \in m .. N PROVE Outgoing(calls[k].table) \cap S # {}
      OBVIOUS
    <2> QED
      BY <1>7
  <1> HIDE DEF S
  <1> QED
    BY <1>6, <1>8

(* CreateIrP4Info refuses a program as cyclic only if tables refer to each  *)
(* other in a cycle, or one to itself.                                      *)
THEOREM OnlyCyclesAreRefused == Spec => []RefusedOnlyIfCyclic
  <1>1. Init => RefusedOnlyIfCyclic
    BY DEF Init, RefusedOnlyIfCyclic
  <1>2. IInv /\ RefusedOnlyIfCyclic /\ [Next]_vars => RefusedOnlyIfCyclic'
    <2> SUFFICES ASSUME IInv, RefusedOnlyIfCyclic, [Next]_vars, status' = "CYCLIC"
                 PROVE  \E S \in SUBSET Tables : S # {} /\ \A s \in S : Outgoing(s)' \cap S # {}
      BY DEF RefusedOnlyIfCyclic
    <2>1. references' = references
      BY DEF Next, vars, StartTable, VisitNewTable, VisitKnownTable, ReturnRank, Return
    <2>2. \A s : Outgoing(s)' = Outgoing(s)
      BY <2>1 DEF Outgoing
    <2>3. CASE status = "CYCLIC"
      BY <2>2, <2>3 DEF RefusedOnlyIfCyclic
    <2>4. CASE status # "CYCLIC"
      <3>1. VisitKnownTable
        BY <2>4 DEF Next, vars, StartTable, VisitNewTable, ReturnRank, Return
      <3>2. PICK t \in Innermost.pending \cap Processed : ~(Rank(t) <= 0)
        <4>1. PICK t \in Innermost.pending \cap Processed : Rank(t) > 0
          BY <2>4, <3>1 DEF VisitKnownTable
        <4>2. Rank(t) \in Int
          BY DEF IInv, TypeOK
        <4> QED
          BY <4>1, <4>2
      <3>3. \E S \in SUBSET Tables : S # {} /\ \A s \in S : Outgoing(s) \cap S # {}
        BY <3>1, <3>2, MarkMeansCycle DEF VisitKnownTable
      <3> QED
        BY <2>2, <3>3
    <2> QED
      BY <2>3, <2>4
  <1> QED
    BY <1>1, <1>2, InvariantHolds, PTL DEF Spec

RankedTables ==
  /\ Ranked = Tables
  /\ \A r \in references : Rank(r[1]) < Rank(r[2])

(* A program that is accepted has its tables ranked as the module References *)
(* assumes.                                                                 *)
THEOREM AcceptedProgramsAreRanked == Spec => [](status = "OK" => RankedTables)
  <1>1. Init => (status = "OK" => RankedTables)
    BY DEF Init
  <1>2. IInv /\ (status = "OK" => RankedTables) /\ [Next]_vars => (status = "OK" => RankedTables)'
    <2> SUFFICES ASSUME IInv, status = "OK" => RankedTables, [Next]_vars, status' = "OK"
                 PROVE  RankedTables'
      OBVIOUS
    <2>1. CASE status = "OK"
      <3>1. UNCHANGED vars
        BY <2>1 DEF Next, StartTable, VisitNewTable, VisitKnownTable, ReturnRank, Return
      <3> QED
        BY <2>1, <3>1 DEF RankedTables, Ranked, Processed, Rank, vars
    <2>2. CASE status # "OK"
      <3>1. Return
        BY <2>2 DEF Next, vars, StartTable, VisitNewTable, VisitKnownTable, ReturnRank
      <3>2. /\ Processed = Tables /\ DOMAIN calls = {}
            /\ UNCHANGED <<references, dependency_rank_by_table_name>>
        BY <3>1 DEF Return
      <3>3. \A t \in Tables : Rank(t) \in Int /\ Rank(t) <= 1 /\ Rank(t) # 1
        BY <3>2 DEF IInv, TypeOK, StackInv
      <3>4. Ranked = Tables
        BY <3>2, <3>3 DEF Ranked
      <3>5. ASSUME NEW r \in references PROVE Rank(r[1]) < Rank(r[2])
        <4>1. r \in Tables \X Tables /\ r = <<r[1], r[2]>>
          BY DEF IInv, TypeOK
        <4>2. r[1] \in Ranked /\ r[2] \in Outgoing(r[1])
          BY <3>4, <4>1 DEF Outgoing
        <4> QED
          BY <4>2 DEF IInv, ReferencedTablesRankHigher
      <3> QED
        BY <3>2, <3>4, <3>5 DEF RankedTables, Ranked, Processed, Rank
    <2> QED
      BY <2>1, <2>2
  <1> QED
    BY <1>1, <1>2, InvariantHolds, PTL DEF Spec
=============================================================================
