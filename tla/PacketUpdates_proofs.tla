------------------------- MODULE PacketUpdates_proofs -------------------------
(***************************************************************************)
(* Proofs about the loop that computes the fields of a packet in place:    *)
(* one pass over the headers, from the innermost to the outermost, changes *)
(* what it should, reports it, and leaves no computed field stale.         *)
(***************************************************************************)
EXTENDS PacketUpdates, SequenceTheorems, WellFoundedInduction, TLAPS

------------------------------------------------------------------------------
(* Recursive functions over an interval                                    *)

LEMMA LeastNatural ==
  ASSUME NEW T \in SUBSET Nat, T # {}
  PROVE  \E n \in T : \A m \in T : n <= m
<1> DEFINE less == {pair \in Nat \X Nat : pair[1] < pair[2]}
<1>1. IsWellFoundedOn(less, Nat)
  BY NatLessThanWellFounded DEF OpToRel
<1>2. PICK n \in T : \A m \in T : ~ (<<m, n>> \in less)
  BY <1>1, WFMin
<1>3. \A m \in T : ~(m < n)
  BY <1>2
<1> QED
  BY <1>3

(* What is true of the first value and stays true from each value to the    *)
(* next is true of all of them; S is the set of what it is true of.         *)
LEMMA IntervalInduction ==
  ASSUME NEW n \in Nat, NEW f, NEW S, f[0] \in S, \A i \in 1 .. n : f[i - 1] \in S => f[i] \in S
  PROVE  \A i \in 0 .. n : f[i] \in S
<1> DEFINE T == {i \in 0 .. n : f[i] \notin S}
<1> SUFFICES ASSUME T # {} PROVE FALSE
  OBVIOUS
<1>1. T \in SUBSET Nat
  OBVIOUS
<1>2. PICK m \in T : \A i \in T : m <= i
  BY <1>1, LeastNatural
<1>3. m \in 1 .. n /\ m - 1 \in 0 .. n /\ ~(m <= m - 1)
  BY <1>1, <1>2
<1> QED
  BY <1>2, <1>3

Iterates(g, n, base, F) == g[0] = base /\ \A i \in 1 .. n : g[i] = F[i][g[i - 1]]

LEMMA Recursion ==
  ASSUME NEW n \in Nat, NEW S, NEW base \in S, NEW F \in [1 .. n -> [S -> S]]
  PROVE  \E g \in [0 .. n -> S] : Iterates(g, n, base, F)
<1> DEFINE Found(m) == \E g \in [0 .. m -> S] : Iterates(g, m, base, F)
           T == {m \in 0 .. n : ~Found(m)}
<1> HIDE DEF Found
<1>a. ASSUME T = {} PROVE Found(n)
  <2>1. n \in 0 .. n
    OBVIOUS
  <2> QED
    BY <1>a, <2>1
<1> USE DEF Found
<1> SUFFICES ASSUME T # {} PROVE FALSE
  <2> HIDE DEF T
  <2> QED
    BY <1>a
<1>1. PICK m \in T : \A i \in T : m <= i
  <2>1. T \in SUBSET Nat
    OBVIOUS
  <2> QED
    BY <2>1, LeastNatural
<1>2. m # 0
  <2>1. Found(0)
    <3> DEFINE g == [i \in 0 .. 0 |-> base]
    <3>1. g \in [0 .. 0 -> S] /\ g[0] = base
      OBVIOUS
    <3>2. \A i \in 1 .. 0 : g[i] = F[i][g[i - 1]]
      OBVIOUS
    <3> HIDE DEF g
    <3> QED
      BY <3>1, <3>2 DEF Iterates
  <2> QED
    BY <1>1, <2>1
<1>3. m \in 1 .. n /\ m - 1 \in 0 .. n /\ ~(m <= m - 1)
  BY <1>1, <1>2
<1>4. PICK g \in [0 .. m - 1 -> S] : g[0] = base /\ \A i \in 1 .. m - 1 : g[i] = F[i][g[i - 1]]
  <2>1. Found(m - 1)
    <3> HIDE DEF Found
    <3> QED
      BY <1>1, <1>3
  <2> QED
    BY <2>1 DEF Iterates
<1> DEFINE h == [i \in 0 .. m |-> IF i = m THEN F[m][g[m - 1]] ELSE g[i]]
<1>5. h \in [0 .. m -> S]
  <2>1. F[m] \in [S -> S] /\ g[m - 1] \in S
    BY <1>3, <1>4
  <2>2. F[m][g[m - 1]] \in S
    BY <2>1
  <2>3. \A i \in 0 .. m : i # m => i \in 0 .. m - 1
    BY <1>3
  <2> QED
    BY <1>4, <2>2, <2>3
<1>6. h[0] = base
  BY <1>2, <1>3, <1>4
<1>7. \A i \in 1 .. m : h[i] = F[i][h[i - 1]]
  <2>1. h[m] = F[m][h[m - 1]]
    BY <1>3
  <2>2. \A i \in 1 .. m : i = m \/ (i \in 1 .. m - 1 /\ i - 1 # m /\ i - 1 \in 0 .. m /\ i # m /\ i \in 0 .. m)
    BY <1>3
  <2> QED
    BY <1>4, <2>1, <2>2
<1> HIDE DEF h
<1>8. Found(m)
  BY <1>5, <1>6, <1>7 DEF Iterates
<1> QED
  BY <1>1, <1>8

LEMMA TotalIsANumber ==
  ASSUME NEW s \in Seq(Nat)
  PROVE  Total(s) \in Nat
<1> DEFINE n == Len(s)
           IsTotal(f) == f = [k \in 0 .. n |-> IF k = 0 THEN 0 ELSE f[k - 1] + s[k]]
           F == [i \in 1 .. n |-> [x \in Nat |-> x + s[i]]]
           total == CHOOSE f : IsTotal(f)
<1>1. n \in Nat /\ \A k \in 1 .. n : s[k] \in Nat
  OBVIOUS
<1>2. Total(s) = total[n]
  BY DEF Total
<1> HIDE DEF n
<1>3. IsTotal(total)
  <2>1. F \in [1 .. n -> [Nat -> Nat]]
    BY <1>1
  <2> HIDE DEF F
  <2>2. PICK g \in [0 .. n -> Nat] : g[0] = 0 /\ \A i \in 1 .. n : g[i] = F[i][g[i - 1]]
    <3>1. 0 \in Nat
      OBVIOUS
    <3>2. \E g \in [0 .. n -> Nat] : Iterates(g, n, 0, F)
      BY <1>1, <2>1, <3>1, Recursion
    <3> QED
      BY <3>2 DEF Iterates
  <2>3. \A k \in 1 .. n : g[k] = g[k - 1] + s[k]
    <3>1. \A k \in 1 .. n : k - 1 \in 0 .. n
      BY <1>1
    <3>2. \A k \in 1 .. n : \A x \in Nat : F[k][x] = x + s[k]
      BY DEF F
    <3> QED
      BY <2>2, <3>1, <3>2
  <2>4. IsTotal(g)
    BY <1>1, <2>2, <2>3
  <2> QED
    BY <2>4
<1> HIDE DEF total
<1>4. \A k \in 0 .. n : total[k] = IF k = 0 THEN 0 ELSE total[k - 1] + s[k]
  BY <1>3
<1>5. total[0] \in Nat /\ \A k \in 1 .. n : total[k - 1] \in Nat => total[k] \in Nat
  <2>1. 0 \in 0 .. n /\ \A k \in 1 .. n : k \in 0 .. n /\ k # 0
    BY <1>1
  <2>2. total[0] = 0 /\ \A k \in 1 .. n : total[k] = total[k - 1] + s[k]
    BY <1>4, <2>1
  <2> QED
    BY <1>1, <2>2
<1>6. \A k \in 0 .. n : total[k] \in Nat
  BY <1>1, <1>5, IntervalInduction
<1> QED
  BY <1>1, <1>2, <1>6

LEMMA FlatSequence ==
  ASSUME NEW S, NEW s \in Seq(Seq(S))
  PROVE  FlattenSeq(s) \in Seq(S)
<1> DEFINE n == Len(s)
           IsFlat(f) == f = [i \in 1 .. n |-> IF i = 1 THEN s[i] ELSE f[i - 1] \o s[i]]
           F == [i \in 1 .. n |-> [x \in Seq(S) |-> x \o s[i]]]
           flat == CHOOSE f : IsFlat(f)
<1>1. n \in Nat /\ \A k \in 1 .. n : s[k] \in Seq(S)
  OBVIOUS
<1>2. FlattenSeq(s) = IF n = 0 THEN s ELSE flat[n]
  BY DEF FlattenSeq
<1>3. CASE n = 0
  <2>1. s = << >>
    BY <1>3
  <2> QED
    BY <1>2, <1>3, <2>1
<1>4. CASE n # 0
  <2> HIDE DEF n
  <2>1. IsFlat(flat)
    <3>1. F \in [1 .. n -> [Seq(S) -> Seq(S)]]
      BY <1>1
    <3> HIDE DEF F
    <3>2. PICK g \in [0 .. n -> Seq(S)] : g[0] = << >> /\ \A i \in 1 .. n : g[i] = F[i][g[i - 1]]
      <4>1. << >> \in Seq(S)
        OBVIOUS
      <4>2. \E g \in [0 .. n -> Seq(S)] : Iterates(g, n, << >>, F)
        BY <1>1, <3>1, <4>1, Recursion
      <4> QED
        BY <4>2 DEF Iterates
    <3>3. \A k \in 1 .. n : g[k] = g[k - 1] \o s[k]
      <4>1. \A k \in 1 .. n : k - 1 \in 0 .. n
        BY <1>1
      <4>2. \A k \in 1 .. n : \A x \in Seq(S) : F[k][x] = x \o s[k]
        BY DEF F
      <4> QED
        BY <3>2, <4>1, <4>2
    <3> DEFINE f == [i \in 1 .. n |-> g[i]]
    <3>4. f = [i \in 1 .. n |-> IF i = 1 THEN s[i] ELSE f[i - 1] \o s[i]]
      <4>1. g[1] = s[1]
        <5>1. 1 \in 1 .. n /\ 1 - 1 = 0
          BY <1>1, <1>4
        <5>2. g[1] = g[1 - 1] \o s[1]
          BY <3>3, <5>1
        <5>3. g[1] = << >> \o s[1]
          BY <3>2, <5>1, <5>2
        <5>4. s[1] \in Seq(S)
          BY <1>1, <5>1
        <5> QED
          BY <5>3, <5>4, ConcatEmptySeq
      <4>2. \A i \in 1 .. n : i # 1 => f[i - 1] = g[i - 1]
        BY <1>1
      <4> QED
        BY <1>1, <3>3, <4>1, <4>2
    <3> QED
      BY <3>4
  <2> HIDE DEF flat
  <2>2. \A k \in 1 .. n : flat[k] = IF k = 1 THEN s[k] ELSE flat[k - 1] \o s[k]
    BY <2>1
  <2> DEFINE g == [k \in 0 .. n |-> IF k = 0 THEN << >> ELSE flat[k]]
  <2>3. g[0] = << >> /\ \A k \in 1 .. n : g[k] = flat[k]
    <3>1. 0 \in 0 .. n /\ \A k \in 1 .. n : k \in 0 .. n /\ k # 0
      BY <1>1
    <3> QED
      BY <3>1
  <2>3a. n \in 0 .. n /\ g[n] = flat[n]
    <3>1. n \in 0 .. n /\ n \in 1 .. n
      BY <1>1, <1>4
    <3> QED
      BY <2>3, <3>1
  <2> HIDE DEF g
  <2>4. \A k \in 0 .. n : g[k] \in Seq(S)
    <3>1. ASSUME NEW k \in 1 .. n, g[k - 1] \in Seq(S) PROVE g[k] \in Seq(S)
      <4>1. CASE k = 1
        BY <1>1, <2>2, <2>3, <4>1
      <4>2. CASE k # 1
        <5>1. k - 1 \in 1 .. n
          BY <1>1, <4>2
        <5>2. g[k - 1] = flat[k - 1]
          BY <2>3, <5>1
        <5>3. g[k] = g[k - 1] \o s[k]
          BY <2>2, <2>3, <4>2, <5>2
        <5> QED
          BY <1>1, <3>1, <5>3
      <4> QED
        BY <4>1, <4>2
    <3>2. g[0] \in Seq(S)
      BY <2>3
    <3> DEFINE Q == Seq(S)
    <3>3. g[0] \in Q /\ \A k \in 1 .. n : g[k - 1] \in Q => g[k] \in Q
      BY <3>1, <3>2
    <3> HIDE DEF Q
    <3>4. \A k \in 0 .. n : g[k] \in Q
      BY <1>1, <3>3, IntervalInduction
    <3> QED
      BY <3>4 DEF Q
  <2> QED
    BY <1>2, <1>4, <2>3a, <2>4
<1> QED
  BY <1>3, <1>4

------------------------------------------------------------------------------
(* Computed fields are fields, and no field is computed twice              *)

LEMMA ComputedFieldsAreDistinct ==
  ASSUME NEW c \in DOMAIN ComputedFields
  PROVE  /\ c \in HeaderCases
         /\ Len(ComputedFields[c]) \in Nat
         /\ DOMAIN ComputedFields[c] = 1 .. Len(ComputedFields[c])
         /\ \A j, k \in 1 .. Len(ComputedFields[c]) : ComputedFields[c][j] = ComputedFields[c][k] => j = k
         /\ \A k \in 1 .. Len(ComputedFields[c]) : ComputedFields[c][k] \in FieldsOf(c)
<1>1. c \in {"ethernet", "ipv4", "ipv6", "hop_by_hop", "udp", "arp", "icmp", "tcp", "gre",
             "packet_in", "ipfix", "psamp", "ptp"}
  BY DEF ComputedFields
<1>2. c \in HeaderCases
  BY <1>1 DEF HeaderCases, Fields
<1>3. CASE c = "ethernet"
  BY <1>2, <1>3 DEF ComputedFields, FieldsOf, Fields
<1>4. CASE c = "ipv4"
  BY <1>2, <1>4 DEF ComputedFields, FieldsOf, Fields
<1>5. CASE c = "ipv6"
  BY <1>2, <1>5 DEF ComputedFields, FieldsOf, Fields
<1>6. CASE c = "hop_by_hop"
  BY <1>2, <1>6 DEF ComputedFields, FieldsOf, Fields
<1>7. CASE c = "udp"
  BY <1>2, <1>7 DEF ComputedFields, FieldsOf, Fields
<1>8. CASE c = "arp"
  BY <1>2, <1>8 DEF ComputedFields, FieldsOf, Fields
<1>9. CASE c = "icmp"
  BY <1>2, <1>9 DEF ComputedFields, FieldsOf, Fields
<1>10. CASE c = "tcp"
  BY <1>2, <1>10 DEF ComputedFields, FieldsOf, Fields
<1>11. CASE c = "gre"
  BY <1>2, <1>11 DEF ComputedFields, FieldsOf, Fields
<1>12. CASE c = "packet_in"
  BY <1>2, <1>12 DEF ComputedFields, FieldsOf, Fields
<1>13. CASE c = "ipfix"
  BY <1>2, <1>13 DEF ComputedFields, FieldsOf, Fields
<1>14. CASE c = "psamp"
  BY <1>2, <1>14 DEF ComputedFields, FieldsOf, Fields
<1>15. CASE c = "ptp"
  BY <1>2, <1>15 DEF ComputedFields, FieldsOf, Fields
<1> QED
  BY <1>1, <1>3, <1>4, <1>5, <1>6, <1>7, <1>8, <1>9, <1>10, <1>11, <1>12, <1>13, <1>14, <1>15

------------------------------------------------------------------------------
(* The shape of packets, and changes of one field                          *)

HasFields(h) ==
  /\ h = [case |-> h.case, field |-> h.field, options |-> h.options]
  /\ h.case \in HeaderCases
  /\ h.field = [f \in FieldsOf(h.case) |-> h.field[f]]

IsList(s) == \E S : s \in Seq(S)

IsStack(p) ==
  /\ p = [headers |-> p.headers, payload |-> p.payload]
  /\ IsList(p.headers)
  /\ \A i \in DOMAIN p.headers : HasFields(p.headers[i])

WithValue(p, i, f, v) == [p EXCEPT !.headers[i] = WithField(@, f, v)]

LEMMA ListsHaveLengths ==
  ASSUME NEW s, IsList(s)
  PROVE  /\ Len(s) \in Nat /\ DOMAIN s = 1 .. Len(s)
         /\ s = [i \in 1 .. Len(s) |-> s[i]]
BY DEF IsList

LEMMA ReplacedInAList ==
  ASSUME NEW s, IsList(s), NEW i, NEW x
  PROVE  IsList([s EXCEPT ![i] = x]) /\ Len([s EXCEPT ![i] = x]) = Len(s)
<1>1. PICK S : s \in Seq(S)
  BY DEF IsList
<1>2. Len(s) \in Nat /\ s \in [1 .. Len(s) -> S]
  BY <1>1
<1>3. [s EXCEPT ![i] = x] \in [1 .. Len(s) -> S \cup {x}]
  BY <1>2
<1>4. \A U : (\E k \in Nat : [s EXCEPT ![i] = x] \in [1 .. k -> U]) => [s EXCEPT ![i] = x] \in Seq(U)
  BY SeqDef
<1>5. [s EXCEPT ![i] = x] \in Seq(S \cup {x})
  BY <1>2, <1>3, <1>4
<1>6. DOMAIN [s EXCEPT ![i] = x] = 1 .. Len(s)
  BY <1>2
<1> HIDE DEF IsList
<1>7. Len([s EXCEPT ![i] = x]) = Len(s)
  BY <1>2, <1>5, <1>6, LenProperties
<1> QED
  BY <1>5, <1>7 DEF IsList

LEMMA PayloadIsReplaced ==
  ASSUME NEW p, p = [headers |-> p.headers, payload |-> p.payload], NEW y
  PROVE  [p EXCEPT !.payload = y] = [headers |-> p.headers, payload |-> y]
  OBVIOUS

LEMMA FieldIsReplaced ==
  ASSUME NEW h, HasFields(h), NEW f \in FieldsOf(h.case), NEW v
  PROVE  /\ HasFields(WithField(h, f, v))
         /\ WithField(h, f, v).case = h.case
         /\ WithField(h, f, v).options = h.options
         /\ WithField(h, f, v).field[f] = v
         /\ \A g \in FieldsOf(h.case) : g # f => WithField(h, f, v).field[g] = h.field[g]
BY DEF HasFields, WithField

LEMMA ValueIsReplaced ==
  ASSUME NEW p, IsStack(p), NEW i \in DOMAIN p.headers, NEW f \in FieldsOf(p.headers[i].case), NEW v
  PROVE  LET q == WithValue(p, i, f, v)
         IN  /\ IsStack(q)
             /\ q.payload = p.payload
             /\ DOMAIN q.headers = DOMAIN p.headers /\ Len(q.headers) = Len(p.headers)
             /\ q.headers[i] = WithField(p.headers[i], f, v)
             /\ \A j \in DOMAIN p.headers : j # i => q.headers[j] = p.headers[j]
<1> DEFINE q == WithValue(p, i, f, v)
           h == WithField(p.headers[i], f, v)
<1>1. HasFields(h)
  BY FieldIsReplaced DEF IsStack
<1> HIDE DEF h
<1>2. q = [headers |-> [p.headers EXCEPT ![i] = h], payload |-> p.payload]
  BY DEF WithValue, IsStack, h
<1>3. IsList([p.headers EXCEPT ![i] = h]) /\ Len([p.headers EXCEPT ![i] = h]) = Len(p.headers)
  BY ReplacedInAList DEF IsStack
<1> HIDE DEF q
<1>4. DOMAIN q.headers = DOMAIN p.headers /\ q.headers[i] = h
      /\ \A j \in DOMAIN p.headers : j # i => q.headers[j] = p.headers[j]
  BY <1>2
<1>5. IsStack(q)
  <2>1. \A j \in DOMAIN q.headers : HasFields(q.headers[j])
    BY <1>1, <1>4 DEF IsStack
  <2> QED
    BY <1>2, <1>3, <2>1 DEF IsStack
<1> QED
  BY <1>2, <1>3, <1>4, <1>5 DEF h, q

LEMMA SamePackets ==
  ASSUME NEW p, NEW q, IsStack(p), IsStack(q), p.payload = q.payload,
         DOMAIN p.headers = DOMAIN q.headers,
         \A i \in DOMAIN p.headers :
           LET h == p.headers[i]  g == q.headers[i]
           IN  h.case = g.case /\ h.options = g.options /\ \A f \in FieldsOf(h.case) : h.field[f] = g.field[f]
  PROVE  p = q
<1>1. ASSUME NEW i \in DOMAIN p.headers PROVE p.headers[i] = q.headers[i]
  <2>1. HasFields(p.headers[i]) /\ HasFields(q.headers[i])
    BY DEF IsStack
  <2> QED
    BY <2>1 DEF HasFields
<1>2. p.headers = q.headers
  BY <1>1, ListsHaveLengths DEF IsStack
<1> QED
  BY <1>2 DEF IsStack

------------------------------------------------------------------------------
(* What computing a field does to its header                               *)

LEMMA ComputedFieldsOfAHeader ==
  ASSUME NEW h, h.case \in HeaderCases
  PROVE  /\ Len(ComputedFieldsOf(h)) \in Nat
         /\ DOMAIN ComputedFieldsOf(h) = 1 .. Len(ComputedFieldsOf(h))
         /\ \A j, k \in 1 .. Len(ComputedFieldsOf(h)) :
              ComputedFieldsOf(h)[j] = ComputedFieldsOf(h)[k] => j = k
         /\ \A k \in 1 .. Len(ComputedFieldsOf(h)) :
              ComputedFieldsOf(h)[k] \in FieldsOf(h.case) /\ IsComputed(h, ComputedFieldsOf(h)[k])
<1>1. CASE h.case \in DOMAIN ComputedFields /\ ~(h.case = "gre" /\ ~HasOptionals(h))
  <2>1. ComputedFieldsOf(h) = ComputedFields[h.case]
    BY <1>1 DEF ComputedFieldsOf
  <2> QED
    BY <1>1, <2>1, ComputedFieldsAreDistinct DEF IsComputed
<1>2. CASE ~ (h.case \in DOMAIN ComputedFields /\ ~(h.case = "gre" /\ ~HasOptionals(h)))
  <2>1. ComputedFieldsOf(h) = << >>
    BY <1>2 DEF ComputedFieldsOf
  <2> QED
    BY <2>1
<1> QED
  BY <1>1, <1>2

(* The flag that decides about the optional fields of GRE is not computed.  *)
LEMMA ChecksumPresentIsNotComputed ==
  ASSUME NEW h
  PROVE  ~ IsComputed(h, "checksum_present")
<1>1. \A c \in DOMAIN ComputedFields : \A k \in DOMAIN ComputedFields[c] :
        ComputedFields[c][k] # "checksum_present"
  BY DEF ComputedFields, Fields
<1> QED
  BY <1>1 DEF IsComputed, ComputedFieldsOf

LEMMA ComputingKeepsTheList ==
  ASSUME NEW h, NEW old, HasFields(h), HasFields(old), h.case = old.case,
         \A g \in FieldsOf(h.case) : h.field[g] = old.field[g] \/ IsComputed(old, g)
  PROVE  /\ ComputedFieldsOf(h) = ComputedFieldsOf(old)
         /\ HasOptionals(h) <=> HasOptionals(old)
<1>1. h.case = "gre" => "checksum_present" \in FieldsOf(h.case)
  BY DEF FieldsOf, Fields
<1>2. h.case = "gre" => h.field.checksum_present = old.field.checksum_present
  BY <1>1, ChecksumPresentIsNotComputed
<1>3. HasOptionals(h) <=> HasOptionals(old)
  BY <1>2 DEF HasOptionals
<1> QED
  BY <1>3 DEF ComputedFieldsOf

LEMMA OnlyMissingValuesAreFilled ==
  ASSUME NEW p, NEW i, NEW f, NEW overwrite, ~overwrite,
         NewValue(p, i, f, overwrite) \notin {p.headers[i].field[f], Undefined}
  PROVE  p.headers[i].field[f] = Missing
<1>1. CASE f = "ethertype"
  BY <1>1 DEF NewValue, NewEtherType
<1>2. CASE f # "ethertype"
  BY <1>2 DEF NewValue
<1> QED
  BY <1>1, <1>2

------------------------------------------------------------------------------
(* The inductive invariant of the calls                                    *)

CallSteps ==
  /\ call = "none" => todo = << >>
  /\ call = "PadPacketToMinimumSize" => todo \in {<<"pad">>, << >>}
  /\ call = "UpdateMissingComputedFields" => todo \in {<<"missing">>, << >>}
  /\ call = "UpdateAllComputedFields" => todo \in {<<"all">>, << >>}
  /\ call = "SerializePacket" =>
       todo \in {<<"pad", "missing", "validate">>, <<"missing", "validate">>, <<"validate">>, << >>}

(* The header after the computation of some of its fields.                  *)
IsFilledFrom(h, old, only_missing) ==
  /\ h.case = old.case /\ h.options = old.options
  /\ \A f \in FieldsOf(h.case) :
       \/ h.field[f] = old.field[f]
       \/ IsComputed(old, f) /\ (only_missing => old.field[f] = Missing)

FilledOnly == call = "UpdateMissingComputedFields"

OnlyGaps ==
  /\ packet.payload = before.payload
  /\ DOMAIN packet.headers = DOMAIN before.headers
  /\ \A i \in DOMAIN packet.headers : IsFilledFrom(packet.headers[i], before.headers[i], FilledOnly)

(* What the loop has not reached is as it was when the call was made.       *)
Untouched ==
  /\ \A i \in DOMAIN packet.headers : i < index => packet.headers[i] = before.headers[i]
  /\ index > 0 =>
       \A k \in position .. Len(ComputedFieldsOf(packet.headers[index])) :
         LET f == ComputedFieldsOf(packet.headers[index])[k]
         IN  packet.headers[index].field[f] = before.headers[index].field[f]

UpdateInv ==
  /\ IsStack(packet) /\ IsStack(before)
  /\ index \in 0 .. Len(packet.headers) /\ position \in Nat \ {0}
  /\ Len(before.headers) = Len(packet.headers)
  /\ call \in {"none"} \cup DOMAIN Calls /\ CallSteps
  /\ todo # << >> \/ call = "none" => result = "none"
  /\ changes \in BOOLEAN
  /\ call = "PadPacketToMinimumSize" /\ todo # << >> => packet = before /\ ~changes
  /\ call = "PadPacketToMinimumSize" /\ result = "ok" => (changes <=> packet # before)
  /\ InUpdate => (changes <=> packet # before)
  /\ InUpdate => OnlyGaps
  /\ InUpdate /\ todo # << >> => Untouched

LEMMA InitialUpdateInv == Init => UpdateInv
<1> SUFFICES ASSUME Init PROVE UpdateInv
  OBVIOUS
<1>1. IsStack(packet)
  <2>1. IsPacket(packet)
    BY InitialPacketsArePackets DEF Init
  <2> DEFINE n == Len(packet.headers)
             S == {packet.headers[i] : i \in 1 .. n}
  <2>2. packet.headers \in [1 .. n -> S] /\ n \in Nat
    BY <2>1 DEF IsPacket
  <2> HIDE DEF S
  <2>3. packet.headers \in Seq(S)
    BY <2>2, SeqDef
  <2>4. DOMAIN packet.headers = 1 .. n
    BY <2>2
  <2>5. \A i \in 1 .. n : HasFields(packet.headers[i])
    BY <2>1 DEF IsPacket, IsHeader, HasFields
  <2> QED
    BY <2>1, <2>3, <2>4, <2>5 DEF IsStack, IsPacket, IsList
<1>2. Len(packet.headers) \in Nat
  BY <1>1, ListsHaveLengths DEF IsStack
<1>3. index \in 0 .. Len(packet.headers) /\ position \in Nat \ {0}
  BY <1>2 DEF Init
<1>4. ~InUpdate
  BY DEF Init, InUpdate
<1> QED
  BY <1>1, <1>3, <1>4 DEF Init, UpdateInv, CallSteps

LEMMA EditKeepsUpdateInv ==
  ASSUME UpdateInv, NEW i \in DOMAIN packet.headers, NEW f \in FieldsOf(packet.headers[i].case),
         NEW value, EditField(i, f, value)
  PROVE  UpdateInv'
<1>1. packet' = WithValue(packet, i, f, value)
  BY DEF EditField, WithValue
<1>2. IsStack(packet') /\ Len(packet'.headers) = Len(packet.headers)
  BY <1>1, ValueIsReplaced DEF UpdateInv
<1>3. todo' = << >> /\ result' = "none"
  BY DEF EditField
<1>4. ~InUpdate'
  BY <1>3 DEF InUpdate
<1> QED
  BY <1>2, <1>3, <1>4 DEF EditField, UpdateInv, CallSteps, loop

LEMMA CallKeepsUpdateInv ==
  ASSUME UpdateInv, NEW c \in DOMAIN Calls, Call(c)
  PROVE  UpdateInv'
<1>1. /\ packet' = packet /\ before' = packet /\ call' = c /\ todo' = Calls[c]
      /\ index' = Len(packet.headers) /\ position' = 1 /\ changes' = FALSE /\ result' = "none"
  BY DEF Call
<1>2. Len(packet.headers) \in Nat /\ DOMAIN packet.headers = 1 .. Len(packet.headers)
  BY ListsHaveLengths DEF UpdateInv, IsStack
<1>3. CallSteps' /\ todo' # << >>
  BY <1>1 DEF CallSteps, Calls
<1>4. OnlyGaps'
  <2>1. ASSUME NEW h PROVE IsFilledFrom(h, h, FilledOnly')
    BY DEF IsFilledFrom
  <2> QED
    BY <1>1, <2>1 DEF OnlyGaps
<1>5. Untouched'
  BY <1>1 DEF Untouched
<1>6. index' \in 0 .. Len(packet'.headers) /\ position' \in Nat \ {0}
  BY <1>1, <1>2
<1>7. (changes' <=> packet' # before') /\ changes' \in BOOLEAN
  BY <1>1
<1>8. IsStack(packet') /\ IsStack(before') /\ Len(before'.headers) = Len(packet'.headers)
  BY <1>1 DEF UpdateInv
<1>9. call' \in {"none"} \cup DOMAIN Calls
  BY <1>1
<1> QED
  BY <1>1, <1>3, <1>4, <1>5, <1>6, <1>7, <1>8, <1>9 DEF UpdateInv

(* A step that stops a call leaves the packet alone, or takes it back.      *)
LEMMA StopKeepsUpdateInv ==
  ASSUME UpdateInv, todo # << >>, NEW status \in {"ok", "error", "failed"}, Stop(status),
         UNCHANGED <<before, call, loop, changes>>,
         status = "ok" => call = "SerializePacket"
  PROVE  UpdateInv'
<1>1. todo' = << >> /\ result' = status /\ CallSteps' /\ call # "none" /\ call' = call
  BY DEF Stop, CallSteps, UpdateInv
<1>2. CASE call = "SerializePacket"
  <2>1. packet' = before /\ ~InUpdate'
    BY <1>2 DEF Stop, InUpdate
  <2> QED
    BY <1>1, <1>2, <2>1 DEF UpdateInv, loop
<1>3. CASE call # "SerializePacket"
  <2>1. packet' = packet
    BY <1>3 DEF Stop
  <2>2. InUpdate' => InUpdate
    BY DEF InUpdate
  <2>3. InUpdate' => OnlyGaps'
    BY <2>1, <2>2 DEF OnlyGaps, FilledOnly, UpdateInv
  <2> QED
    BY <1>1, <1>3, <2>1, <2>2, <2>3 DEF UpdateInv, loop
<1> QED
  BY <1>2, <1>3

LEMMA PadKeepsUpdateInv ==
  ASSUME UpdateInv, Pad
  PROVE  UpdateInv'
<1>1. todo # << >> /\ Head(todo) = "pad" /\ UNCHANGED <<before, call, loop>>
  BY DEF Pad
<1>2. call \in {"PadPacketToMinimumSize", "SerializePacket"} /\ Tail(todo) \in {<< >>, <<"missing", "validate">>}
      /\ (call = "PadPacketToMinimumSize" => Tail(todo) = << >>)
      /\ (call = "SerializePacket" => Tail(todo) = <<"missing", "validate">>)
  <2>1. call \in {"none", "PadPacketToMinimumSize", "UpdateMissingComputedFields", "UpdateAllComputedFields",
                  "SerializePacket"}
    BY DEF UpdateInv, Calls
  <2>2. call \notin {"none", "UpdateMissingComputedFields", "UpdateAllComputedFields"}
    BY <1>1 DEF UpdateInv, CallSteps
  <2>3. CASE call = "PadPacketToMinimumSize"
    <3>1. todo = <<"pad">>
      BY <1>1, <2>3 DEF UpdateInv, CallSteps
    <3> QED
      BY <2>3, <3>1
  <2>4. CASE call = "SerializePacket"
    <3>1. todo = <<"pad", "missing", "validate">>
      BY <1>1, <2>4 DEF UpdateInv, CallSteps
    <3> QED
      BY <2>4, <3>1
  <2> QED
    BY <2>1, <2>2, <2>3, <2>4
<1>3. ASSUME NEW size, Stop("error"), UNCHANGED changes PROVE UpdateInv'
  BY <1>1, <1>3, StopKeepsUpdateInv
<1>4. ASSUME NEW p, IsStack(p), Len(p.headers) = Len(packet.headers), Proceed(p), changes' = (p # packet)
      PROVE  UpdateInv'
  <2>1. ~InUpdate'
    BY <1>1, <1>2 DEF InUpdate
  <2>2. packet' = p /\ CallSteps' /\ todo' = Tail(todo) /\ (result' = IF Tail(todo) = << >> THEN "ok" ELSE "none")
    BY <1>1, <1>2, <1>4 DEF Proceed, CallSteps
  <2>3. call = "PadPacketToMinimumSize" => packet = before
    BY <1>1 DEF UpdateInv
  <2> QED
    BY <1>1, <1>2, <1>4, <2>1, <2>2, <2>3 DEF UpdateInv, loop
<1>5. ASSUME Proceed(packet), UNCHANGED changes PROVE UpdateInv'
  <2>1. ~InUpdate'
    BY <1>1, <1>2 DEF InUpdate
  <2>2. packet' = packet /\ CallSteps' /\ todo' = Tail(todo) /\ (result' = IF Tail(todo) = << >> THEN "ok" ELSE "none")
    BY <1>1, <1>2, <1>5 DEF Proceed, CallSteps
  <2>3. call = "PadPacketToMinimumSize" => packet = before /\ ~changes
    BY <1>1 DEF UpdateInv
  <2> QED
    BY <1>1, <1>2, <1>5, <2>1, <2>2, <2>3 DEF UpdateInv, loop
<1>6. ASSUME NEW i PROVE IsStack(Padded(packet, i)) /\ Len(Padded(packet, i).headers) = Len(packet.headers)
  <2> DEFINE zeros == [k \in 1 .. (MinPayload - SizeFrom(packet, i + 1)) |-> 0]
  <2>1. Padded(packet, i) = IF MinPayload - SizeFrom(packet, i + 1) <= 0 THEN packet
                            ELSE [packet EXCEPT !.payload = @ \o zeros]
    BY DEF Padded
  <2> HIDE DEF zeros
  <2>3. packet = [headers |-> packet.headers, payload |-> packet.payload]
    BY DEF UpdateInv, IsStack
  <2>5. [packet EXCEPT !.payload = packet.payload \o zeros]
          = [headers |-> packet.headers, payload |-> packet.payload \o zeros]
    BY <2>3, PayloadIsReplaced
  <2>2. [packet EXCEPT !.payload = @ \o zeros] = [headers |-> packet.headers, payload |-> packet.payload \o zeros]
    BY <2>5
  <2> QED
    BY <2>1, <2>2 DEF UpdateInv, IsStack
<1>7. CASE \E i \in DOMAIN packet.headers : HasEthernet(packet, i)
  <2> DEFINE i == CHOOSE i \in DOMAIN packet.headers : HasEthernet(packet, i)
  <2>1. \/ Stop("error") /\ UNCHANGED changes
        \/ Proceed(Padded(packet, i)) /\ changes' = (Padded(packet, i) # packet)
    BY <1>7 DEF Pad
  <2> QED
    BY <1>3, <1>4, <1>6, <2>1
<1>8. CASE ~ \E i \in DOMAIN packet.headers : HasEthernet(packet, i)
  BY <1>5, <1>8 DEF Pad
<1> QED
  BY <1>7, <1>8

(* What UpdateField does when the value can be computed.                    *)
ComputesField(f, value) ==
  /\ index > 0 /\ todo # << >>
  /\ position <= Len(ComputedFieldsOf(packet.headers[index]))
  /\ f = ComputedFieldsOf(packet.headers[index])[position]
  /\ value = NewValue(packet, index, f, Overwrite)
  /\ value \notin {Undefined, OutOfBounds}
  /\ packet' = WithValue(packet, index, f, value)
  /\ changes' = (changes \/ value # packet.headers[index].field[f])
  /\ position' = position + 1
  /\ UNCHANGED <<todo, index, result, before, call, completed, edits>>

LEMMA UpdateFieldComputesOrStops ==
  ASSUME UpdateInv, UpdateField
  PROVE  /\ index \in DOMAIN packet.headers
         /\ call \in {"UpdateMissingComputedFields", "UpdateAllComputedFields", "SerializePacket"}
         /\ call = "UpdateMissingComputedFields" => ~Overwrite
         /\ call = "UpdateAllComputedFields" => Overwrite
         /\ \/ \E status \in {"error", "failed"} :
                 todo # << >> /\ Stop(status) /\ UNCHANGED <<before, call, loop, changes>>
            \/ \E f, value : ComputesField(f, value)
<1> DEFINE h == packet.headers[index]
           f == ComputedFieldsOf(h)[position]
           value == NewValue(packet, index, f, Overwrite)
<1>1. index \in DOMAIN packet.headers
  BY ListsHaveLengths DEF UpdateField, UpdateInv, IsStack
<1>2. todo # << >> /\ Head(todo) \in {"missing", "all"} /\ index > 0 /\ position <= Len(ComputedFieldsOf(h))
      /\ UNCHANGED <<before, call, completed, edits>>
  BY DEF UpdateField, Updating
<1>3. /\ call \in {"UpdateMissingComputedFields", "UpdateAllComputedFields", "SerializePacket"}
      /\ call = "UpdateMissingComputedFields" => ~Overwrite
      /\ call = "UpdateAllComputedFields" => Overwrite
  <2>1. call \in {"none", "PadPacketToMinimumSize", "UpdateMissingComputedFields", "UpdateAllComputedFields",
                  "SerializePacket"}
    BY DEF UpdateInv, Calls
  <2>2. call \notin {"none", "PadPacketToMinimumSize"}
    BY <1>2 DEF UpdateInv, CallSteps
  <2>3. call = "UpdateMissingComputedFields" => todo = <<"missing">>
    BY <1>2 DEF UpdateInv, CallSteps
  <2>4. call = "UpdateAllComputedFields" => todo = <<"all">>
    BY <1>2 DEF UpdateInv, CallSteps
  <2> QED
    BY <2>1, <2>2, <2>3, <2>4 DEF Overwrite
<1>4. CASE value = Undefined
  <2>1. Stop("error") /\ UNCHANGED <<loop, changes>>
    BY <1>4, MarkersAreNoValues DEF UpdateField
  <2> QED
    BY <1>1, <1>2, <1>3, <2>1
<1>5. CASE value # Undefined /\ value = OutOfBounds
  <2>1. Stop("failed") /\ UNCHANGED <<loop, changes>>
    BY <1>5, MarkersAreNoValues DEF UpdateField
  <2> QED
    BY <1>1, <1>2, <1>3, <2>1
<1>6. CASE value \notin {Undefined, OutOfBounds}
  <2>1. /\ packet' = [packet EXCEPT !.headers[index] = WithField(@, f, value)]
        /\ changes' = Changed(h, f, value)
        /\ position' = position + 1
        /\ UNCHANGED <<todo, index, result>>
    BY <1>6 DEF UpdateField
  <2>2. ComputesField(f, value)
    BY <1>2, <1>6, <2>1 DEF ComputesField, WithValue, Changed
  <2> QED
    BY <1>1, <1>3, <2>2
<1> QED
  BY <1>4, <1>5, <1>6

(* The header of this turn of the loop, before and after the step.          *)
LEMMA ComputedHeader ==
  ASSUME UpdateInv, index \in DOMAIN packet.headers, NEW f, NEW value, ComputesField(f, value)
  PROVE  LET h == packet.headers[index]
             new == packet'.headers[index]
         IN  /\ IsStack(packet')
             /\ packet'.payload = packet.payload
             /\ DOMAIN packet'.headers = DOMAIN packet.headers /\ Len(packet'.headers) = Len(packet.headers)
             /\ \A j \in DOMAIN packet.headers : j # index => packet'.headers[j] = packet.headers[j]
             /\ f \in FieldsOf(h.case) /\ IsComputed(h, f)
             /\ new = WithField(h, f, value)
             /\ HasFields(h) /\ HasFields(new)
             /\ new.case = h.case /\ new.options = h.options /\ new.field[f] = value
             /\ \A g \in FieldsOf(h.case) : g # f => new.field[g] = h.field[g]
             /\ ComputedFieldsOf(new) = ComputedFieldsOf(h) /\ (HasOptionals(new) <=> HasOptionals(h))
<1> DEFINE h == packet.headers[index]
           new == packet'.headers[index]
<1>1. HasFields(h) /\ h.case \in HeaderCases
  BY DEF UpdateInv, IsStack, HasFields
<1>2. f \in FieldsOf(h.case) /\ IsComputed(h, f)
  <2>1. position \in 1 .. Len(ComputedFieldsOf(h))
    BY <1>1, ComputedFieldsOfAHeader DEF ComputesField, UpdateInv
  <2> QED
    BY <1>1, <2>1, ComputedFieldsOfAHeader DEF ComputesField
<1>3. /\ IsStack(packet')
      /\ packet'.payload = packet.payload
      /\ DOMAIN packet'.headers = DOMAIN packet.headers /\ Len(packet'.headers) = Len(packet.headers)
      /\ \A j \in DOMAIN packet.headers : j # index => packet'.headers[j] = packet.headers[j]
      /\ new = WithField(h, f, value)
  <2>1. packet' = WithValue(packet, index, f, value)
    BY DEF ComputesField
  <2>2. IsStack(packet)
    BY DEF UpdateInv
  <2> QED
    BY <1>2, <2>1, <2>2, ValueIsReplaced
<1>4. /\ HasFields(new) /\ new.case = h.case /\ new.options = h.options /\ new.field[f] = value
      /\ \A g \in FieldsOf(h.case) : g # f => new.field[g] = h.field[g]
  BY <1>1, <1>2, <1>3, FieldIsReplaced
<1>5. ComputedFieldsOf(new) = ComputedFieldsOf(h) /\ (HasOptionals(new) <=> HasOptionals(h))
  BY <1>1, <1>2, <1>4, ComputingKeepsTheList
<1> QED
  BY <1>1, <1>2, <1>3, <1>4, <1>5

LEMMA UpdateFieldKeepsUpdateInv ==
  ASSUME UpdateInv, UpdateField
  PROVE  UpdateInv'
<1>1. ASSUME NEW status \in {"error", "failed"}, todo # << >>, Stop(status), UNCHANGED <<before, call, loop, changes>>
      PROVE  UpdateInv'
  BY <1>1, StopKeepsUpdateInv
<1>2. ASSUME NEW f, NEW value, ComputesField(f, value) PROVE UpdateInv'
  <2> DEFINE h == packet.headers[index]
             new == packet'.headers[index]
             old == before.headers[index]
             fields == ComputedFieldsOf(h)
  <2>1. /\ index \in DOMAIN packet.headers
        /\ call \in {"UpdateMissingComputedFields", "UpdateAllComputedFields", "SerializePacket"}
        /\ call = "UpdateMissingComputedFields" => ~Overwrite
    BY UpdateFieldComputesOrStops
  <2>2. /\ IsStack(packet')
        /\ packet'.payload = packet.payload
        /\ DOMAIN packet'.headers = DOMAIN packet.headers /\ Len(packet'.headers) = Len(packet.headers)
        /\ \A j \in DOMAIN packet.headers : j # index => packet'.headers[j] = packet.headers[j]
    BY <1>2, <2>1, ComputedHeader
  <2>3. /\ f \in FieldsOf(h.case) /\ IsComputed(h, f)
        /\ HasFields(h) /\ HasFields(new)
        /\ new.case = h.case /\ new.options = h.options /\ new.field[f] = value
        /\ \A g \in FieldsOf(h.case) : g # f => new.field[g] = h.field[g]
        /\ ComputedFieldsOf(new) = fields
    BY <1>2, <2>1, ComputedHeader
  <2>4. /\ todo # << >> /\ UNCHANGED <<todo, index, result, before, call>>
        /\ position' = position + 1 /\ changes' = (changes \/ value # h.field[f])
        /\ f = fields[position] /\ position <= Len(fields) /\ index > 0
        /\ value = NewValue(packet, index, f, Overwrite) /\ value # Undefined
    BY <1>2 DEF ComputesField
  <2>5. /\ IsStack(packet') /\ IsStack(before')
        /\ index' \in 0 .. Len(packet'.headers) /\ position' \in Nat \ {0}
        /\ Len(before'.headers) = Len(packet'.headers)
        /\ call' \in {"none"} \cup DOMAIN Calls /\ CallSteps'
        /\ (todo' # << >> \/ call' = "none" => result' = "none") /\ changes' \in BOOLEAN
        /\ call' # "PadPacketToMinimumSize"
    BY <2>1, <2>2, <2>4 DEF UpdateInv, CallSteps
  <2>6. CASE call = "SerializePacket"
    <3>1. ~InUpdate'
      BY <2>4, <2>6 DEF InUpdate
    <3> QED
      BY <2>5, <3>1 DEF UpdateInv
  <2>7. CASE call # "SerializePacket"
    <3>1. InUpdate
      BY <2>1, <2>4, <2>7 DEF InUpdate
    <3>2. /\ packet.payload = before.payload /\ DOMAIN packet.headers = DOMAIN before.headers
          /\ h.case = old.case /\ h.options = old.options
          /\ \A g \in FieldsOf(h.case) :
               \/ h.field[g] = old.field[g]
               \/ IsComputed(old, g) /\ (call = "UpdateMissingComputedFields" => old.field[g] = Missing)
      <4>1. OnlyGaps
        BY <3>1 DEF UpdateInv
      <4> QED
        BY <2>1, <4>1 DEF OnlyGaps, IsFilledFrom, FilledOnly
    <3>3. HasFields(old)
      BY <2>1, <3>2 DEF UpdateInv, IsStack
    <3>4. ComputedFieldsOf(old) = fields
      BY <2>3, <3>2, <3>3, ComputingKeepsTheList
    <3>5. IsComputed(old, f)
      BY <2>3, <3>4 DEF IsComputed
    <3>6. /\ \A i \in DOMAIN packet.headers : i < index => packet.headers[i] = before.headers[i]
          /\ \A k \in position .. Len(fields) : h.field[fields[k]] = old.field[fields[k]]
      BY <2>4, <3>1 DEF UpdateInv, Untouched
    <3>7. Len(fields) \in Nat /\ position \in Nat /\ position \in 1 .. Len(fields)
      BY <2>3, <2>4, ComputedFieldsOfAHeader DEF UpdateInv, HasFields
    <3>8. h.field[f] = old.field[f]
      BY <2>4, <3>6, <3>7
    <3>9. Untouched'
      <4>1. \A k \in position + 1 .. Len(fields) :
              fields[k] # f /\ fields[k] \in FieldsOf(h.case) /\ k \in position .. Len(fields)
        BY <2>3, <2>4, <3>7, ComputedFieldsOfAHeader DEF HasFields
      <4>2. \A k \in position + 1 .. Len(fields) : new.field[fields[k]] = old.field[fields[k]]
        BY <2>3, <3>6, <4>1
      <4>3. \A i \in DOMAIN packet'.headers : i < index => packet'.headers[i] = before.headers[i]
        BY <2>2, <3>6
      <4> QED
        BY <2>3, <2>4, <4>2, <4>3 DEF Untouched
    <3>10. call = "UpdateMissingComputedFields" => value = h.field[f] \/ old.field[f] = Missing
      BY <2>1, <2>4, <3>8, OnlyMissingValuesAreFilled
    <3>11. OnlyGaps'
      <4>1. ASSUME NEW i \in DOMAIN packet.headers, i # index
            PROVE  IsFilledFrom(packet'.headers[i], before.headers[i], FilledOnly)
        <5>1. OnlyGaps
          BY <3>1 DEF UpdateInv
        <5>2. packet'.headers[i] = packet.headers[i]
          BY <2>2, <4>1
        <5> QED
          BY <5>1, <5>2 DEF OnlyGaps
      <4>2. IsFilledFrom(new, old, FilledOnly)
        BY <2>3, <3>2, <3>5, <3>8, <3>10 DEF IsFilledFrom, FilledOnly
      <4>3. FilledOnly' = FilledOnly
        BY <2>4 DEF FilledOnly
      <4> QED
        BY <2>2, <2>4, <3>2, <4>1, <4>2, <4>3 DEF OnlyGaps
    <3>12. changes' <=> packet' # before'
      <4>1. CASE value = h.field[f]
        <5>1. packet' = packet
          <6>1. \A i \in DOMAIN packet.headers :
                  LET g == packet.headers[i]  o == packet'.headers[i]
                  IN  g.case = o.case /\ g.options = o.options /\ \A x \in FieldsOf(g.case) : g.field[x] = o.field[x]
            BY <2>2, <2>3, <4>1
          <6> QED
            BY <2>2, <6>1, SamePackets DEF UpdateInv
        <5> QED
          BY <2>4, <3>1, <4>1, <5>1 DEF UpdateInv
      <4>2. CASE value # h.field[f]
        <5>1. new.field[f] # old.field[f]
          BY <2>3, <3>8, <4>2
        <5>2. packet' # before
          BY <5>1
        <5> QED
          BY <2>4, <4>2, <5>2
      <4> QED
        BY <4>1, <4>2
    <3> QED
      BY <2>5, <3>9, <3>11, <3>12 DEF UpdateInv
  <2> QED
    BY <2>6, <2>7
<1> QED
  BY <1>1, <1>2, UpdateFieldComputesOrStops

LEMMA NextHeaderKeepsUpdateInv ==
  ASSUME UpdateInv, NextHeader
  PROVE  UpdateInv'
<1>1. todo # << >> /\ index > 0 /\ UNCHANGED <<before, call, changes, completed, edits>>
  BY DEF NextHeader, Updating
<1>2. CASE packet.headers[index].case = "not_set"
  <2>1. Stop("error") /\ UNCHANGED <<before, call, loop, changes>>
    BY <1>1, <1>2 DEF NextHeader
  <2> QED
    BY <1>1, <2>1, StopKeepsUpdateInv
<1>3. CASE packet.headers[index].case # "not_set"
  <2>1. index' = index - 1 /\ position' = 1 /\ UNCHANGED <<packet, todo, result>>
    BY <1>3 DEF NextHeader
  <2>2. index \in Nat /\ index' \in 0 .. Len(packet.headers) /\ Len(packet.headers) \in Nat
        /\ DOMAIN packet.headers = 1 .. Len(packet.headers)
    BY <1>1, <2>1, ListsHaveLengths DEF UpdateInv, IsStack
  <2>3. InUpdate /\ todo # << >> => Untouched'
    <3> SUFFICES ASSUME InUpdate PROVE Untouched'
      OBVIOUS
    <3>1. Untouched
      BY <1>1 DEF UpdateInv
    <3>2. \A i \in DOMAIN packet.headers : i <= index' => packet.headers[i] = before.headers[i]
      BY <2>1, <2>2, <3>1 DEF Untouched
    <3>3. index' > 0 => index' \in DOMAIN packet.headers /\ index' <= index'
      BY <2>2
    <3>4. \A i \in DOMAIN packet.headers : i < index' => i <= index'
      BY <2>2
    <3> HIDE DEF Untouched
    <3> QED
      BY <1>1, <2>1, <3>2, <3>3, <3>4 DEF Untouched
  <2>4. (InUpdate' <=> InUpdate) /\ (OnlyGaps' <=> OnlyGaps) /\ (CallSteps' <=> CallSteps)
    BY <1>1, <2>1 DEF InUpdate, OnlyGaps, FilledOnly, CallSteps
  <2> QED
    BY <1>1, <2>1, <2>2, <2>3, <2>4 DEF UpdateInv
<1> QED
  BY <1>2, <1>3

LEMMA FinishUpdateKeepsUpdateInv ==
  ASSUME UpdateInv, FinishUpdate
  PROVE  UpdateInv'
<1>1. /\ todo # << >> /\ Head(todo) \in {"missing", "all"}
      /\ packet' = packet /\ todo' = Tail(todo)
      /\ result' = IF Tail(todo) = << >> THEN "ok" ELSE "none"
      /\ UNCHANGED <<before, call, loop, changes, completed, edits>>
  BY DEF FinishUpdate, Updating, Proceed
<1>2. /\ call \in {"UpdateMissingComputedFields", "UpdateAllComputedFields", "SerializePacket"}
      /\ call # "SerializePacket" => Tail(todo) = << >>
      /\ call = "SerializePacket" => Tail(todo) = <<"validate">>
  <2>1. call \in {"none", "PadPacketToMinimumSize", "UpdateMissingComputedFields", "UpdateAllComputedFields",
                  "SerializePacket"}
    BY DEF UpdateInv, Calls
  <2>2. call \notin {"none", "PadPacketToMinimumSize"}
    BY <1>1 DEF UpdateInv, CallSteps
  <2>3. call = "UpdateMissingComputedFields" => todo = <<"missing">>
    BY <1>1 DEF UpdateInv, CallSteps
  <2>4. call = "UpdateAllComputedFields" => todo = <<"all">>
    BY <1>1 DEF UpdateInv, CallSteps
  <2>5. call = "SerializePacket" => todo = <<"missing", "validate">>
    BY <1>1 DEF UpdateInv, CallSteps
  <2>6. Tail(<<"missing">>) = << >> /\ Tail(<<"all">>) = << >>
        /\ Tail(<<"missing", "validate">>) = <<"validate">>
    OBVIOUS
  <2> QED
    BY <2>1, <2>2, <2>3, <2>4, <2>5, <2>6
<1>3. CallSteps'
  BY <1>1, <1>2 DEF CallSteps
<1>4. InUpdate' => InUpdate /\ todo' = << >>
  BY <1>1, <1>2 DEF InUpdate
<1>5. InUpdate' => OnlyGaps'
  BY <1>1, <1>4 DEF UpdateInv, OnlyGaps, FilledOnly
<1> QED
  BY <1>1, <1>2, <1>3, <1>4, <1>5 DEF UpdateInv, loop

LEMMA ValidateKeepsUpdateInv ==
  ASSUME UpdateInv, Validate
  PROVE  UpdateInv'
<1>1. todo # << >> /\ Head(todo) = "validate" /\ UNCHANGED <<before, call, loop, changes>>
      /\ \E status \in {"ok", "error", "failed"} : Stop(status)
  BY DEF Validate
<1>2. call = "SerializePacket"
  BY <1>1 DEF UpdateInv, CallSteps, Calls
<1> QED
  BY <1>1, <1>2, StopKeepsUpdateInv

LEMMA StutteringKeepsUpdateInv ==
  ASSUME UpdateInv, UNCHANGED vars
  PROVE  UpdateInv'
<1>1. UNCHANGED <<packet, before, call, todo, index, position, changes, result>>
  BY DEF vars, loop
<1>2. (InUpdate' <=> InUpdate) /\ (OnlyGaps' <=> OnlyGaps) /\ (CallSteps' <=> CallSteps) /\ (Untouched' <=> Untouched)
  BY <1>1 DEF InUpdate, OnlyGaps, FilledOnly, CallSteps, Untouched
<1> QED
  BY <1>1, <1>2 DEF UpdateInv

(* Spec: the loop changes nothing before it gets there, fills gaps only if  *)
(* it is asked to, and knows at any time whether it changed anything.       *)
THEOREM UpdateInvariantHolds == Spec => []UpdateInv
<1>1. UpdateInv /\ [Next]_vars => UpdateInv'
  <2> SUFFICES ASSUME UpdateInv, [Next]_vars PROVE UpdateInv'
    OBVIOUS
  <2>1. CASE Step
    BY <2>1, PadKeepsUpdateInv, UpdateFieldKeepsUpdateInv, NextHeaderKeepsUpdateInv,
       FinishUpdateKeepsUpdateInv, ValidateKeepsUpdateInv DEF Step
  <2>2. CASE UNCHANGED vars \/ Aborted
    BY <2>2, StutteringKeepsUpdateInv DEF Aborted
  <2>3. ASSUME NEW i \in DOMAIN packet.headers, NEW f \in FieldsOf(packet.headers[i].case),
               NEW value \in EditValues, EditField(i, f, value)
        PROVE  UpdateInv'
    BY <2>3, EditKeepsUpdateInv
  <2>4. ASSUME NEW c \in DOMAIN Calls, Call(c) PROVE UpdateInv'
    BY <2>4, CallKeepsUpdateInv
  <2> QED
    BY <2>1, <2>2, <2>3, <2>4 DEF Next
<1> QED
  BY <1>1, InitialUpdateInv, PTL DEF Spec

(* UpdateMissingComputedFields, UpdateAllComputedFields: an update changes  *)
(* computed fields only, and only those that are missing if it is asked to, *)
(* for packets of any headers, also when it stops in the middle.            *)
THEOREM OnlyGapsAreEverFilled == Spec => []OnlyGapsAreFilled
<1>1. UpdateInv => OnlyGapsAreFilled
  <2> SUFFICES ASSUME UpdateInv, InUpdate PROVE OnlyGapsAreFilled
    BY DEF OnlyGapsAreFilled
  <2>1. OnlyGaps
    BY DEF UpdateInv
  <2> QED
    BY <2>1 DEF OnlyGapsAreFilled, OnlyGaps, IsFilledFrom, FilledOnly
<1> QED
  BY <1>1, UpdateInvariantHolds, PTL

(* PadPacketToMinimumSize, UpdateMissingComputedFields and                  *)
(* UpdateAllComputedFields: what the caller is told about changes is true.  *)
THEOREM ChangesAreAlwaysReported == Spec => []ChangesAreReported
<1>1. UpdateInv => ChangesAreReported
  <2> SUFFICES ASSUME UpdateInv, result = "ok", call # "SerializePacket"
               PROVE  changes <=> packet # before
    BY DEF ChangesAreReported
  <2>1. CASE call = "PadPacketToMinimumSize"
    BY <2>1 DEF UpdateInv
  <2>2. CASE call \in {"UpdateMissingComputedFields", "UpdateAllComputedFields"}
    <3>1. InUpdate
      BY <2>2 DEF InUpdate
    <3> QED
      BY <3>1 DEF UpdateInv
  <2>3. call # "none"
    BY DEF UpdateInv
  <2> QED
    BY <2>1, <2>2, <2>3 DEF UpdateInv, Calls
<1> QED
  BY <1>1, UpdateInvariantHolds, PTL

------------------------------------------------------------------------------
(* Sizes, serialization and checksums are numbers                          *)

(* The shape of packets, with the values of their fields.                  *)
HasValues(h) ==
  /\ \A f \in FieldsOf(h.case) : h.field[f] \in Nat \cup {Missing, Malformed}
  /\ h.options \in Seq(Nat) \cup {Malformed}

IsTyped(p) ==
  /\ p.payload \in Seq(Nat)
  /\ \A i \in DOMAIN p.headers : HasValues(p.headers[i])

FieldNames ==
  {"ethertype", "version", "ihl", "total_length", "protocol", "checksum", "addresses",
   "payload_length", "next_header", "header_extension_length", "options_and_padding",
   "destination_port", "length", "data_offset", "hardware_type", "protocol_type",
   "hardware_length", "protocol_length", "checksum_present", "reserved0", "reserved1",
   "unused_pad", "variable_length", "packet_sampled_length", "message_length", "crypt_offset",
   "virtualization_cookie_present", "op_code"}

LEMMA FieldsAreLists ==
  ASSUME NEW c \in HeaderCases
  PROVE  Fields[c] \in Seq(FieldNames)
<1>1. c \in {"ethernet", "ipv4", "ipv6", "hop_by_hop", "udp", "tcp", "arp", "icmp", "vlan", "csig",
             "csig_wide", "gre", "packet_in", "ipfix", "psamp", "ptp", "psp", "ib_bth", "not_set"}
  BY DEF HeaderCases, Fields
<1>2. CASE c = "ethernet"
  BY <1>2 DEF Fields, FieldNames
<1>3. CASE c = "ipv4"
  BY <1>3 DEF Fields, FieldNames
<1>4. CASE c = "ipv6"
  BY <1>4 DEF Fields, FieldNames
<1>5. CASE c = "hop_by_hop"
  BY <1>5 DEF Fields, FieldNames
<1>6. CASE c = "udp"
  BY <1>6 DEF Fields, FieldNames
<1>7. CASE c = "tcp"
  BY <1>7 DEF Fields, FieldNames
<1>8. CASE c = "arp"
  BY <1>8 DEF Fields, FieldNames
<1>9. CASE c = "icmp"
  BY <1>9 DEF Fields, FieldNames
<1>10. CASE c = "vlan"
  BY <1>10 DEF Fields, FieldNames
<1>11. CASE c = "csig"
  BY <1>11 DEF Fields, FieldNames
<1>12. CASE c = "csig_wide"
  BY <1>12 DEF Fields, FieldNames
<1>13. CASE c = "gre"
  BY <1>13 DEF Fields, FieldNames
<1>14. CASE c = "packet_in"
  BY <1>14 DEF Fields, FieldNames
<1>15. CASE c = "ipfix"
  BY <1>15 DEF Fields, FieldNames
<1>16. CASE c = "psamp"
  BY <1>16 DEF Fields, FieldNames
<1>17. CASE c = "ptp"
  BY <1>17 DEF Fields, FieldNames
<1>18. CASE c = "psp"
  BY <1>18 DEF Fields, FieldNames
<1>19. CASE c = "ib_bth"
  BY <1>19 DEF Fields, FieldNames
<1>20. CASE c = "not_set"
  BY <1>20 DEF Fields, FieldNames
<1> QED
  BY <1>1, <1>2, <1>3, <1>4, <1>5, <1>6, <1>7, <1>8, <1>9, <1>10, <1>11,
     <1>12, <1>13, <1>14, <1>15, <1>16, <1>17, <1>18, <1>19, <1>20

LEMMA FieldsSentAreAList ==
  ASSUME NEW h, h.case \in HeaderCases
  PROVE  FieldsSent(h) \in Seq(FieldNames)
<1>1. Fields[h.case] \in Seq(FieldNames)
  BY FieldsAreLists
<1>2. SubSeq(Fields.gre, 1, 4) \in Seq(FieldNames)
  <2>1. Fields.gre \in Seq(FieldNames) /\ Len(Fields.gre) = 6
    BY DEF Fields, FieldNames
  <2> QED
    BY <2>1, SubSeqProperties
<1> QED
  BY <1>1, <1>2 DEF FieldsSent

LEMMA SizesOfHeaders ==
  ASSUME NEW h, HasFields(h), HasValues(h)
  PROVE  HeaderSize(h) \in Nat \cup {Undefined}
<1>1. Len(FieldsSent(h)) \in Nat
  BY FieldsSentAreAList DEF HasFields
<1>2. h.options # Malformed => Len(h.options) \in Nat
  BY DEF HasValues
<1> QED
  BY <1>1, <1>2 DEF HeaderSize

LEMMA Rest ==
  ASSUME NEW p, IsStack(p), NEW i \in 1 .. Len(p.headers) + 1
  PROVE  LET rest == From(p, i)
         IN  /\ rest = [headers |-> rest.headers, payload |-> p.payload]
             /\ Len(rest.headers) = Len(p.headers) - i + 1
             /\ \A k \in 1 .. Len(rest.headers) :
                  i + k - 1 \in DOMAIN p.headers /\ rest.headers[k] = p.headers[i + k - 1]
             /\ IsStack(rest)
<1> DEFINE rest == From(p, i)
           hs == SubSeq(p.headers, i, Len(p.headers))
<1>1. PICK S : p.headers \in Seq(S)
  BY DEF IsStack, IsList
<1>2. Len(p.headers) \in Nat /\ DOMAIN p.headers = 1 .. Len(p.headers)
  BY <1>1
<1>3. /\ hs \in Seq(S) /\ Len(hs) = Len(p.headers) - i + 1
      /\ \A k \in 1 .. Len(p.headers) - i + 1 : hs[k] = p.headers[i + k - 1]
  BY <1>1, <1>2, SubSeqProperties
<1> HIDE DEF hs
<1>4. rest = [headers |-> hs, payload |-> p.payload]
  <2>1. \A a, x, y : [[headers |-> a, payload |-> x] EXCEPT !.headers = y] = [headers |-> y, payload |-> x]
    OBVIOUS
  <2>2. p = [headers |-> p.headers, payload |-> p.payload]
    BY DEF IsStack
  <2>3. [p EXCEPT !.headers = hs] = [headers |-> hs, payload |-> p.payload]
    BY <2>1, <2>2
  <2> QED
    BY <2>3 DEF From, hs
<1> HIDE DEF rest
<1>5. rest.headers = hs /\ rest.payload = p.payload
  BY <1>4
<1>6. \A k \in 1 .. Len(rest.headers) :
        i + k - 1 \in DOMAIN p.headers /\ rest.headers[k] = p.headers[i + k - 1]
  BY <1>2, <1>3, <1>5
<1>7. DOMAIN rest.headers = 1 .. Len(rest.headers)
  BY <1>3, <1>5
<1>8. \A k \in DOMAIN rest.headers : HasFields(rest.headers[k])
  BY <1>6, <1>7 DEF IsStack
<1>9. IsStack(rest)
  BY <1>3, <1>4, <1>5, <1>8 DEF IsStack, IsList
<1> QED
  BY <1>3, <1>4, <1>5, <1>6, <1>9 DEF rest

LEMMA RestIsTyped ==
  ASSUME NEW p, IsStack(p), IsTyped(p), NEW i \in 1 .. Len(p.headers) + 1
  PROVE  IsTyped(From(p, i))
<1> DEFINE rest == From(p, i)
<1>1. /\ rest = [headers |-> rest.headers, payload |-> p.payload]
      /\ \A k \in 1 .. Len(rest.headers) :
           i + k - 1 \in DOMAIN p.headers /\ rest.headers[k] = p.headers[i + k - 1]
      /\ IsStack(rest)
  BY Rest
<1> HIDE DEF rest
<1>2. DOMAIN rest.headers = 1 .. Len(rest.headers)
  BY <1>1, ListsHaveLengths DEF IsStack
<1>3. rest.payload = p.payload
  BY <1>1
<1> QED
  BY <1>1, <1>2, <1>3 DEF IsTyped, rest

LEMMA SizesOfPackets ==
  ASSUME NEW p, IsStack(p), IsTyped(p)
  PROVE  PacketSize(p) \in Nat \cup {Undefined}
<1> DEFINE sizes == [i \in DOMAIN p.headers |-> HeaderSize(p.headers[i])]
<1>1. \A i \in DOMAIN p.headers : HeaderSize(p.headers[i]) \in Nat \cup {Undefined}
  BY SizesOfHeaders DEF IsStack, IsTyped
<1>2. DOMAIN p.headers = 1 .. Len(p.headers) /\ Len(p.headers) \in Nat
  BY ListsHaveLengths DEF IsStack
<1>3. PacketSize(p) = IF \E i \in DOMAIN sizes : sizes[i] = Undefined THEN Undefined
                      ELSE Total(sizes) + Len(p.payload)
  BY DEF PacketSize
<1>4. CASE \E i \in DOMAIN sizes : sizes[i] = Undefined
  BY <1>3, <1>4
<1>5. CASE ~ \E i \in DOMAIN sizes : sizes[i] = Undefined
  <2>1. sizes \in [1 .. Len(p.headers) -> Nat]
    BY <1>1, <1>2, <1>5
  <2> HIDE DEF sizes
  <2>2. sizes \in Seq(Nat)
    BY <1>2, <2>1, SeqDef
  <2>3. Total(sizes) \in Nat /\ Len(p.payload) \in Nat
    BY <2>2, TotalIsANumber DEF IsTyped
  <2> QED
    BY <1>3, <1>5, <2>3
<1> QED
  BY <1>4, <1>5

LEMMA SizesOfRests ==
  ASSUME NEW p, IsStack(p), IsTyped(p), NEW i \in 1 .. Len(p.headers) + 1
  PROVE  SizeFrom(p, i) \in Nat \cup {Undefined}
BY Rest, RestIsTyped, SizesOfPackets DEF SizeFrom

LEMMA SerializedHeaders ==
  ASSUME NEW h, HasFields(h), HasValues(h), Serializable(h)
  PROVE  SerializeHeader(h) \in Seq(Nat)
<1> DEFINE names == FieldsSent(h)
           cells == [k \in DOMAIN names |-> h.field[names[k]]]
<1>1. names \in Seq(FieldNames)
  BY FieldsSentAreAList DEF HasFields
<1> HIDE DEF names
<1>2. Len(names) \in Nat /\ DOMAIN names = 1 .. Len(names)
  BY <1>1
<1>3. \A k \in DOMAIN names : h.field[names[k]] \in Nat
  BY DEF Serializable, names
<1>4. cells \in [1 .. Len(names) -> Nat]
  BY <1>2, <1>3
<1>5. cells \in Seq(Nat)
  BY <1>2, <1>4, SeqDef
<1>6. h.options \in Seq(Nat)
  BY DEF HasValues, Serializable
<1>7. SerializeHeader(h) = cells \o h.options
  BY DEF SerializeHeader, names
<1> HIDE DEF cells
<1> QED
  BY <1>5, <1>6, <1>7

LEMMA SerializablePackets ==
  ASSUME NEW p, IsStack(p), IsTyped(p), \A i \in DOMAIN p.headers : Serializable(p.headers[i])
  PROVE  RawSerializePacket(p) \in Seq(Nat)
<1> DEFINE sent == [i \in DOMAIN p.headers |-> SerializeHeader(p.headers[i])]
<1>1. DOMAIN p.headers = 1 .. Len(p.headers) /\ Len(p.headers) \in Nat
  BY ListsHaveLengths DEF IsStack
<1>2. \A i \in DOMAIN p.headers : SerializeHeader(p.headers[i]) \in Seq(Nat)
  BY SerializedHeaders DEF IsStack, IsTyped
<1>3. sent \in [1 .. Len(p.headers) -> Seq(Nat)]
  BY <1>1, <1>2
<1> HIDE DEF sent
<1>4. sent \in Seq(Seq(Nat))
  BY <1>1, <1>3, SeqDef
<1>5. FlattenSeq(sent) \in Seq(Nat)
  BY <1>4, FlatSequence
<1>6. RawSerializePacket(p) = FlattenSeq(sent) \o p.payload
  BY DEF RawSerializePacket, sent
<1> QED
  BY <1>5, <1>6 DEF IsTyped

LEMMA SerializedPackets ==
  ASSUME NEW p, IsStack(p), IsTyped(p)
  PROVE  RawSerializePacket(p) \in Seq(Nat) \cup {Undefined}
BY SerializablePackets DEF RawSerializePacket

LEMMA Remainders ==
  ASSUME NEW x \in Nat, NEW y \in Nat, y > 0
  PROVE  x % y \in 0 .. y - 1
  OBVIOUS

LEMMA ChecksumsOfCells ==
  ASSUME NEW cells \in Seq(Nat)
  PROVE  OnesComplementChecksum(cells) \in Nat
<1>1. Total(cells) \in Nat
  BY TotalIsANumber
<1>2. CASE Total(cells) = 0
  BY <1>2 DEF OnesComplementChecksum, WordLimit
<1>3. CASE Total(cells) # 0
  <2> DEFINE n == Total(cells) - 1
             m == WordLimit - 1
  <2>1. n \in Nat /\ m = 65535 /\ WordLimit = 65536
    BY <1>1, <1>3 DEF WordLimit
  <2>2. OnesComplementChecksum(cells) = WordLimit - 2 - (n % m)
    BY <1>3 DEF OnesComplementChecksum
  <2> HIDE DEF n, m
  <2>3. n % m \in 0 .. m - 1
    <3>1. n \in Nat
      BY <2>1
    <3>2. m \in Nat /\ m > 0
      BY <2>1
    <3> QED
      BY <3>1, <3>2, Remainders
  <2> DEFINE carried == n % m
  <2>4. carried \in 0 .. m - 1 /\ OnesComplementChecksum(cells) = WordLimit - 2 - carried
    BY <2>2, <2>3
  <2> HIDE DEF carried
  <2> QED
    BY <2>1, <2>4
<1> QED
  BY <1>2, <1>3

LEMMA ChecksumsOfRests ==
  ASSUME NEW p, IsStack(p), IsTyped(p), NEW i \in DOMAIN p.headers,
         "checksum" \in FieldsOf(p.headers[i].case),
         NEW pseudo, IsList(pseudo)
  PROVE  /\ ChecksumFrom(p, i, pseudo) \in Nat \cup {Undefined}
         /\ /\ RawSerializePacket(From(WithValue(p, i, "checksum", 0), i)) # Undefined
            /\ \A k \in DOMAIN pseudo : pseudo[k] \in Nat
            => ChecksumFrom(p, i, pseudo) \in Nat
<1> DEFINE zeroed == WithValue(p, i, "checksum", 0)
           raw == RawSerializePacket(From(zeroed, i))
<1>1. /\ IsStack(zeroed) /\ Len(zeroed.headers) = Len(p.headers) /\ zeroed.payload = p.payload
      /\ DOMAIN zeroed.headers = DOMAIN p.headers
      /\ zeroed.headers[i] = WithField(p.headers[i], "checksum", 0)
      /\ \A j \in DOMAIN p.headers : j # i => zeroed.headers[j] = p.headers[j]
  BY ValueIsReplaced
<1>2. HasValues(zeroed.headers[i])
  <2> DEFINE h == p.headers[i]
             new == WithField(h, "checksum", 0)
  <2>1. HasFields(h) /\ HasValues(h)
    BY DEF IsStack, IsTyped
  <2>2. /\ new.case = h.case /\ new.options = h.options /\ new.field["checksum"] = 0
        /\ \A g \in FieldsOf(h.case) : g # "checksum" => new.field[g] = h.field[g]
    BY <2>1, FieldIsReplaced
  <2> HIDE DEF h, new
  <2>3. HasValues(new)
    BY <2>1, <2>2 DEF HasValues
  <2> QED
    BY <1>1, <2>3 DEF h, new
<1>3. IsTyped(zeroed)
  BY <1>1, <1>2 DEF IsTyped
<1>4. ChecksumFrom(p, i, pseudo)
        = IF raw = Undefined \/ \E k \in DOMAIN pseudo : pseudo[k] \notin Nat
          THEN Undefined ELSE OnesComplementChecksum(pseudo \o raw)
  BY DEF ChecksumFrom, WithValue
<1> HIDE DEF zeroed
<1>5. i \in 1 .. Len(zeroed.headers) + 1
  BY <1>1, ListsHaveLengths DEF IsStack
<1>6. raw \in Seq(Nat) \cup {Undefined}
  BY <1>1, <1>3, <1>5, Rest, RestIsTyped, SerializedPackets
<1> HIDE DEF raw
<1>7. CASE raw # Undefined /\ \A k \in DOMAIN pseudo : pseudo[k] \in Nat
  <2>1. Len(pseudo) \in Nat /\ DOMAIN pseudo = 1 .. Len(pseudo) /\ pseudo = [k \in 1 .. Len(pseudo) |-> pseudo[k]]
    BY ListsHaveLengths
  <2>2. pseudo \in [1 .. Len(pseudo) -> Nat]
    BY <1>7, <2>1
  <2>3. pseudo \in Seq(Nat)
    BY <2>1, <2>2, SeqDef
  <2>4. pseudo \o raw \in Seq(Nat)
    BY <1>6, <1>7, <2>3
  <2>5. OnesComplementChecksum(pseudo \o raw) \in Nat
    BY <2>4, ChecksumsOfCells
  <2>6. ChecksumFrom(p, i, pseudo) \in Nat
    BY <1>4, <1>7, <2>5
  <2> QED
    BY <2>6
<1>8. CASE ~(raw # Undefined /\ \A k \in DOMAIN pseudo : pseudo[k] \in Nat)
  <2>1. ChecksumFrom(p, i, pseudo) = Undefined
    BY <1>4, <1>8
  <2> QED
    BY <1>8, <2>1 DEF raw, zeroed
<1> QED
  BY <1>7, <1>8

------------------------------------------------------------------------------
(* What computed fields are computed from                                  *)

Lengths == {"length", "total_length", "message_length", "payload_length", "packet_sampled_length"}

(* The checksum is the last field of its header that is computed, except in *)
(* GRE; addresses and protocols are not computed.                           *)
LEMMA NamesOfComputedFields ==
  ASSUME NEW c \in DOMAIN ComputedFields, NEW k \in DOMAIN ComputedFields[c]
  PROVE  LET f == ComputedFields[c][k]
         IN  /\ f \in {"ethertype", "version", "ihl", "checksum", "data_offset"} \cup Lengths
                  \/ f \in DOMAIN ConstantValue
             /\ f = "checksum" =>
                  c \in {"ipv4", "udp", "icmp", "gre"} /\ (c # "gre" => k = Len(ComputedFields[c]))
             /\ f = "ethertype" <=> c = "ethernet"
             /\ f = "options_and_padding" => c = "hop_by_hop"
             /\ f \notin {"addresses", "protocol"}
<1>1. c \in {"ethernet", "ipv4", "ipv6", "hop_by_hop", "udp", "arp", "icmp", "tcp",
             "gre", "packet_in", "ipfix", "psamp", "ptp"}
  BY DEF ComputedFields
<1>2. CASE c = "ethernet"
  BY <1>2 DEF ComputedFields, Lengths, ConstantValue, Fields
<1>3. CASE c = "ipv4"
  BY <1>3 DEF ComputedFields, Lengths, ConstantValue, Fields
<1>4. CASE c = "ipv6"
  BY <1>4 DEF ComputedFields, Lengths, ConstantValue, Fields
<1>5. CASE c = "hop_by_hop"
  BY <1>5 DEF ComputedFields, Lengths, ConstantValue, Fields
<1>6. CASE c = "udp"
  BY <1>6 DEF ComputedFields, Lengths, ConstantValue, Fields
<1>7. CASE c = "arp"
  BY <1>7 DEF ComputedFields, Lengths, ConstantValue, Fields
<1>8. CASE c = "icmp"
  BY <1>8 DEF ComputedFields, Lengths, ConstantValue, Fields
<1>9. CASE c = "tcp"
  BY <1>9 DEF ComputedFields, Lengths, ConstantValue, Fields
<1>10. CASE c = "gre"
  BY <1>10 DEF ComputedFields, Lengths, ConstantValue, Fields
<1>11. CASE c = "packet_in"
  BY <1>11 DEF ComputedFields, Lengths, ConstantValue, Fields
<1>12. CASE c = "ipfix"
  BY <1>12 DEF ComputedFields, Lengths, ConstantValue, Fields
<1>13. CASE c = "psamp"
  BY <1>13 DEF ComputedFields, Lengths, ConstantValue, Fields
<1>14. CASE c = "ptp"
  BY <1>14 DEF ComputedFields, Lengths, ConstantValue, Fields
<1> QED
  BY <1>1, <1>2, <1>3, <1>4, <1>5, <1>6, <1>7, <1>8, <1>9, <1>10, <1>11, <1>12, <1>13, <1>14

LEMMA ComputedFieldsOfHeaders ==
  ASSUME NEW h, h.case \in HeaderCases, NEW k \in DOMAIN ComputedFieldsOf(h)
  PROVE  LET f == ComputedFieldsOf(h)[k]
         IN  /\ f \in {"ethertype", "version", "ihl", "checksum", "data_offset"} \cup Lengths
                  \/ f \in DOMAIN ConstantValue
             /\ f = "checksum" =>
                  h.case \in {"ipv4", "udp", "icmp", "gre"}
                  /\ (h.case # "gre" => k = Len(ComputedFieldsOf(h)))
             /\ f = "ethertype" <=> h.case = "ethernet"
             /\ f = "options_and_padding" => h.case = "hop_by_hop"
             /\ f \notin {"addresses", "protocol"}
<1>1. CASE ComputedFieldsOf(h) = << >>
  BY <1>1
<1>2. CASE ComputedFieldsOf(h) # << >>
  <2>1. h.case \in DOMAIN ComputedFields /\ ComputedFieldsOf(h) = ComputedFields[h.case]
    BY <1>2 DEF ComputedFieldsOf
  <2> QED
    BY <2>1, NamesOfComputedFields
<1> QED
  BY <1>1, <1>2

LEMMA ConstantsAreNumbers ==
  ASSUME NEW f \in DOMAIN ConstantValue
  PROVE  /\ ConstantValue[f] \in Nat
         /\ f \notin {"ethertype", "version", "ihl", "checksum", "data_offset"} \cup Lengths
BY DEF ConstantValue, Lengths

LEMMA SizesOfRestsAreLengths ==
  ASSUME NEW p, IsStack(p), IsTyped(p), NEW i \in 1 .. Len(p.headers) + 1
  PROVE  Length(SizeFrom(p, i)) \in Nat \cup {Undefined}
<1>1. SizeFrom(p, i) \in Nat \cup {Undefined}
  BY SizesOfRests
<1>2. \A n \in Nat : n % 65536 \in Nat
  OBVIOUS
<1> QED
  BY <1>1, <1>2 DEF Length, WordLimit

LEMMA ChecksumsAreFields ==
  ASSUME NEW c \in {"ipv4", "udp", "icmp", "gre"}
  PROVE  "checksum" \in FieldsOf(c)
<1>1. CASE c = "ipv4"
  BY <1>1 DEF FieldsOf, Fields
<1>2. CASE c = "udp"
  BY <1>2 DEF FieldsOf, Fields
<1>3. CASE c = "icmp"
  BY <1>3 DEF FieldsOf, Fields
<1>4. CASE c = "gre"
  BY <1>4 DEF FieldsOf, Fields
<1> QED
  BY <1>1, <1>2, <1>3, <1>4

LEMMA PrecedingHeader ==
  ASSUME NEW p, IsStack(p), NEW i \in DOMAIN p.headers
  PROVE  LET ip == FindPrecedingIpHeader(p, i)
         IN  ip \in 0 .. i - 1 /\ (i = 1 => ip = 0) /\ (ip > 0 => ip \in DOMAIN p.headers)
BY ListsHaveLengths DEF FindPrecedingIpHeader, IsStack

LEMMA ValuesOfChecksums ==
  ASSUME NEW p, IsStack(p), IsTyped(p), NEW i \in DOMAIN p.headers,
         p.headers[i].case \in {"ipv4", "udp", "icmp", "gre"}
  PROVE  /\ HeaderChecksum(p, i) \in Nat \cup {Undefined, OutOfBounds, AnyValue}
         /\ HeaderChecksum(p, i) = AnyValue => p.headers[i].case = "udp"
<1> DEFINE h == p.headers[i]
<1>1. "checksum" \in FieldsOf(h.case)
  BY ChecksumsAreFields
<1>2. HasFields(h) /\ HasValues(h)
  BY DEF IsStack, IsTyped
<1>3. \A pseudo : IsList(pseudo) => ChecksumFrom(p, i, pseudo) \in Nat \cup {Undefined}
  BY <1>1, ChecksumsOfRests
<1>4. IsList(<< >>) /\ (\A a, b : IsList(<<a, b>>)) /\ (\A a, b, c : IsList(<<a, b, c>>))
  <2>1. << >> \in Seq({})
    OBVIOUS
  <2>2. \A a, b : <<a, b>> \in Seq({a, b})
    OBVIOUS
  <2>3. \A a, b, c : <<a, b, c>> \in Seq({a, b, c})
    OBVIOUS
  <2> QED
    BY <2>1, <2>2, <2>3 DEF IsList
<1>5. CASE h.case = "ipv4"
  <2> DEFINE one == [headers |-> <<h>>, payload |-> << >>]
  <2>1. one = [headers |-> one.headers, payload |-> one.payload] /\ one.headers = <<h>>
        /\ one.payload = << >> /\ DOMAIN one.headers = 1 .. 1 /\ one.headers[1] = h /\ <<h>> \in Seq({h})
    OBVIOUS
  <2>2. HeaderChecksum(p, i) = ChecksumFrom(one, 1, << >>)
    BY <1>5 DEF HeaderChecksum, Ipv4HeaderChecksum
  <2> HIDE DEF one
  <2>3. IsStack(one)
    BY <1>2, <2>1 DEF IsStack, IsList
  <2>4. IsTyped(one)
    <3>1. << >> \in Seq(Nat)
      OBVIOUS
    <3> QED
      BY <1>2, <2>1, <3>1 DEF IsTyped
  <2>5. ChecksumFrom(one, 1, << >>) \in Nat \cup {Undefined}
    BY <1>1, <1>4, <2>1, <2>3, <2>4, ChecksumsOfRests
  <2> QED
    BY <2>2, <2>5, MarkersAreNoValues DEF Markers
<1>6. CASE h.case = "gre"
  <2>1. HeaderChecksum(p, i) = ChecksumFrom(p, i, << >>)
    BY <1>6 DEF HeaderChecksum, GreHeaderChecksum
  <2> QED
    BY <1>3, <1>4, <2>1, MarkersAreNoValues DEF Markers
<1>7. CASE h.case = "icmp"
  <2>1. HeaderChecksum(p, i) = IcmpHeaderChecksum(p, i)
    BY <1>7 DEF HeaderChecksum
  <2> DEFINE ip == FindPrecedingIpHeader(p, i)
             pseudo == <<p.headers[ip].field.addresses, SizeFrom(p, i), 58>>
  <2>2. /\ i = 1 => IcmpHeaderChecksum(p, i) = Undefined
        /\ i > 1 /\ ip = 0 => IcmpHeaderChecksum(p, i) = OutOfBounds
        /\ ip > 0 => IcmpHeaderChecksum(p, i) \in
                       {ChecksumFrom(p, i, << >>), ChecksumFrom(p, i, pseudo), Undefined}
    <3>1. i \in Nat /\ i >= 1 /\ ip \in Nat /\ (i = 1 => ip = 0)
      BY PrecedingHeader, ListsHaveLengths DEF IsStack
    <3> HIDE DEF ip
    <3> QED
      BY <3>1 DEF IcmpHeaderChecksum, ip
  <2>3. ip \in 0 .. i - 1 /\ i \in Nat /\ i >= 1
    BY PrecedingHeader, ListsHaveLengths DEF IsStack
  <2>4. ChecksumFrom(p, i, << >>) \in Nat \cup {Undefined} /\ ChecksumFrom(p, i, pseudo) \in Nat \cup {Undefined}
    BY <1>3, <1>4
  <2> HIDE DEF ip, pseudo
  <2> QED
    BY <2>1, <2>2, <2>3, <2>4, MarkersAreNoValues DEF Markers
<1>8. CASE h.case = "udp"
  <2>1. HeaderChecksum(p, i) = UdpHeaderChecksum(p, i)
    BY <1>8 DEF HeaderChecksum
  <2> DEFINE ip == FindPrecedingIpHeader(p, i)
             length == p.headers[i].field.length
             pseudo4 == <<p.headers[ip].field.addresses, p.headers[ip].field.protocol, length>>
             pseudo6 == <<p.headers[ip].field.addresses, length, 17>>
  <2>2. /\ i = 1 => UdpHeaderChecksum(p, i) = Undefined
        /\ i > 1 /\ ip = 0 => UdpHeaderChecksum(p, i) = OutOfBounds
        /\ ip > 0 => UdpHeaderChecksum(p, i) \in
                       {ChecksumFrom(p, i, pseudo4), ChecksumFrom(p, i, pseudo6), AnyValue, Undefined}
    <3>1. i \in Nat /\ i >= 1 /\ ip \in Nat /\ (i = 1 => ip = 0)
      BY PrecedingHeader, ListsHaveLengths DEF IsStack
    <3> HIDE DEF ip
    <3> QED
      BY <3>1 DEF UdpHeaderChecksum, ip
  <2>3. ip \in 0 .. i - 1 /\ i \in Nat /\ i >= 1
    BY PrecedingHeader, ListsHaveLengths DEF IsStack
  <2>4. ChecksumFrom(p, i, pseudo4) \in Nat \cup {Undefined} /\ ChecksumFrom(p, i, pseudo6) \in Nat \cup {Undefined}
    BY <1>3, <1>4
  <2> HIDE DEF ip, pseudo4, pseudo6
  <2> QED
    BY <1>8, <2>1, <2>2, <2>3, <2>4
<1> QED
  BY <1>5, <1>6, <1>7, <1>8

(* Only of the checksum of UDP may nothing be known.                        *)
LEMMA ValuesOfComputedFields ==
  ASSUME NEW p, IsStack(p), IsTyped(p), NEW i \in DOMAIN p.headers, NEW f, IsComputed(p.headers[i], f)
  PROVE  /\ ComputedValue(p, i, f) \in Nat \cup {Undefined, OutOfBounds, AnyValue}
         /\ ComputedValue(p, i, f) = AnyValue => f = "checksum" /\ p.headers[i].case = "udp"
<1> DEFINE h == p.headers[i]
<1>1. PICK k \in DOMAIN ComputedFieldsOf(h) : f = ComputedFieldsOf(h)[k]
  BY DEF IsComputed
<1>2. HasFields(h) /\ HasValues(h) /\ i \in 1 .. Len(p.headers) + 1 /\ i + 1 \in 1 .. Len(p.headers) + 1
      /\ i \in Nat
  BY ListsHaveLengths DEF IsStack, IsTyped
<1>3. /\ f \in {"ethertype", "version", "ihl", "checksum", "data_offset"} \cup Lengths \/ f \in DOMAIN ConstantValue
      /\ f = "checksum" => h.case \in {"ipv4", "udp", "icmp", "gre"}
  BY <1>1, <1>2, ComputedFieldsOfHeaders DEF HasFields
<1>4. SizeFrom(p, i) \in Nat \cup {Undefined} /\ SizeFrom(p, i + 1) \in Nat \cup {Undefined}
  BY <1>2, SizesOfRests
<1>5. CASE f = "ethertype"
  BY <1>4, <1>5, MarkersAreNoValues DEF ComputedValue, Markers
<1>6. CASE f = "version"
  <2>1. ComputedValue(p, i, "version") \in {4, 6}
    BY DEF ComputedValue
  <2>2. AnyValue \notin Int
    BY MarkersAreNoValues DEF Markers
  <2> QED
    BY <1>6, <2>1, <2>2
<1>7. CASE f = "ihl"
  <2>1. h.options = Malformed \/ Len(h.options) \in Nat
    BY <1>2 DEF HasValues
  <2> DEFINE words == 5 + Len(h.options)
  <2>2. Len(h.options) \in Nat => words \in Nat
    OBVIOUS
  <2>3. Ihl(h) = IF h.options = Malformed THEN Undefined ELSE words % 16
    BY DEF Ihl
  <2> HIDE DEF words
  <2>4. words \in Nat => words % 16 \in Nat
    OBVIOUS
  <2>5. Ihl(h) \in Nat \cup {Undefined}
    BY <2>1, <2>2, <2>3, <2>4
  <2> QED
    BY <1>7, <2>5, MarkersAreNoValues DEF ComputedValue, Markers
<1>8. CASE f \in Lengths
  <2>1. CountedFrom(i, f) \in 1 .. Len(p.headers) + 1
    BY <1>2 DEF CountedFrom
  <2>2. Length(SizeFrom(p, CountedFrom(i, f))) \in Nat \cup {Undefined}
    BY <2>1, SizesOfRestsAreLengths
  <2>3. ComputedValue(p, i, f) = Length(SizeFrom(p, CountedFrom(i, f)))
    BY <1>8 DEF ComputedValue, Lengths
  <2> QED
    BY <2>2, <2>3, MarkersAreNoValues DEF Markers
<1>9. CASE f = "checksum"
  <2>1. ComputedValue(p, i, f) = HeaderChecksum(p, i)
    BY <1>9 DEF ComputedValue
  <2> QED
    BY <1>3, <1>9, <2>1, ValuesOfChecksums
<1>10. CASE f = "data_offset"
  <2>1. ComputedValue(p, i, f) = DataOffset(p, i)
    BY <1>10 DEF ComputedValue
  <2>2. SizeFrom(p, i) = Undefined \/ h.options \in Seq(Nat)
    <3> SUFFICES ASSUME h.options = Malformed PROVE SizeFrom(p, i) = Undefined
      BY <1>2 DEF HasValues
    <3> DEFINE rest == From(p, i)
    <3>1. /\ IsStack(rest) /\ Len(rest.headers) = Len(p.headers) - i + 1
          /\ \A m \in 1 .. Len(rest.headers) : rest.headers[m] = p.headers[i + m - 1]
      BY <1>2, Rest
    <3>2. Len(p.headers) \in Nat /\ i \in 1 .. Len(p.headers)
      BY ListsHaveLengths DEF IsStack
    <3> HIDE DEF rest
    <3>3. 1 \in DOMAIN rest.headers /\ rest.headers[1] = h
      <4>1. 1 \in 1 .. Len(rest.headers) /\ i + 1 - 1 = i
        BY <3>1, <3>2
      <4>2. DOMAIN rest.headers = 1 .. Len(rest.headers)
        BY <3>1, ListsHaveLengths DEF IsStack
      <4>3. rest.headers[1] = p.headers[i + 1 - 1]
        BY <3>1, <4>1
      <4> QED
        BY <4>1, <4>2, <4>3
    <3>4. HeaderSize(rest.headers[1]) = Undefined
      BY <3>3 DEF HeaderSize
    <3> QED
      BY <3>3, <3>4 DEF SizeFrom, PacketSize, rest
  <2>3. DataOffset(p, i) \in Nat \cup {Undefined}
    <3>1. h.options \in Seq(Nat) => 5 + Len(h.options) \in Nat
      OBVIOUS
    <3> QED
      BY <2>2, <3>1 DEF DataOffset
  <2> QED
    BY <2>1, <2>3, <1>10, MarkersAreNoValues DEF Markers
<1>11. CASE f \in DOMAIN ConstantValue
  <2>1. ComputedValue(p, i, f) = ConstantValue[f]
    BY <1>11, ConstantsAreNumbers DEF ComputedValue, Lengths
  <2> QED
    BY <1>11, <2>1, ConstantsAreNumbers, MarkersAreNoValues DEF Markers
<1> QED
  BY <1>3, <1>5, <1>6, <1>7, <1>8, <1>9, <1>10, <1>11

------------------------------------------------------------------------------
(* What a change of one computed field leaves as it is                     *)

LEMMA SameRest ==
  ASSUME NEW p, NEW q, IsStack(p), IsStack(q), q.payload = p.payload, Len(q.headers) = Len(p.headers),
         NEW i \in 1 .. Len(p.headers) + 1,
         \A m \in DOMAIN p.headers : m >= i => q.headers[m] = p.headers[m]
  PROVE  From(q, i) = From(p, i)
<1> DEFINE a == From(p, i)
           b == From(q, i)
<1>1. /\ a = [headers |-> a.headers, payload |-> p.payload]
      /\ Len(a.headers) = Len(p.headers) - i + 1
      /\ \A k \in 1 .. Len(a.headers) : i + k - 1 \in DOMAIN p.headers /\ a.headers[k] = p.headers[i + k - 1]
      /\ IsStack(a)
  BY Rest
<1>2. /\ b = [headers |-> b.headers, payload |-> q.payload]
      /\ Len(b.headers) = Len(q.headers) - i + 1
      /\ \A k \in 1 .. Len(b.headers) : i + k - 1 \in DOMAIN q.headers /\ b.headers[k] = q.headers[i + k - 1]
      /\ IsStack(b)
  BY Rest
<1> HIDE DEF a, b
<1>3. /\ Len(a.headers) \in Nat /\ a.headers = [k \in 1 .. Len(a.headers) |-> a.headers[k]]
      /\ Len(b.headers) \in Nat /\ b.headers = [k \in 1 .. Len(b.headers) |-> b.headers[k]]
  BY <1>1, <1>2, ListsHaveLengths DEF IsStack
<1>4. Len(a.headers) = Len(b.headers)
  BY <1>1, <1>2
<1>5. \A k \in 1 .. Len(a.headers) : a.headers[k] = b.headers[k]
  <2>1. \A k \in 1 .. Len(a.headers) : i + k - 1 >= i
    BY <1>3
  <2> QED
    BY <1>1, <1>2, <1>4, <2>1
<1>6. a.headers = b.headers
  BY <1>3, <1>4, <1>5
<1> QED
  BY <1>1, <1>2, <1>6 DEF a, b

LEMMA SameSizes ==
  ASSUME NEW p, NEW q, IsStack(p), IsStack(q), q.payload = p.payload, Len(q.headers) = Len(p.headers),
         \A m \in DOMAIN p.headers : HeaderSize(q.headers[m]) = HeaderSize(p.headers[m]),
         NEW i \in 1 .. Len(p.headers) + 1
  PROVE  SizeFrom(q, i) = SizeFrom(p, i)
<1> DEFINE a == From(p, i)
           b == From(q, i)
           sizes(x) == [k \in DOMAIN x.headers |-> HeaderSize(x.headers[k])]
<1>1. /\ a = [headers |-> a.headers, payload |-> p.payload]
      /\ Len(a.headers) = Len(p.headers) - i + 1
      /\ \A k \in 1 .. Len(a.headers) : i + k - 1 \in DOMAIN p.headers /\ a.headers[k] = p.headers[i + k - 1]
      /\ IsStack(a)
  BY Rest
<1>2. /\ b = [headers |-> b.headers, payload |-> q.payload]
      /\ Len(b.headers) = Len(q.headers) - i + 1
      /\ \A k \in 1 .. Len(b.headers) : i + k - 1 \in DOMAIN q.headers /\ b.headers[k] = q.headers[i + k - 1]
      /\ IsStack(b)
  BY Rest
<1> HIDE DEF a, b
<1>3. DOMAIN a.headers = 1 .. Len(a.headers) /\ DOMAIN b.headers = 1 .. Len(b.headers)
  BY <1>1, <1>2, ListsHaveLengths DEF IsStack
<1>4. DOMAIN a.headers = DOMAIN b.headers
  BY <1>1, <1>2, <1>3
<1>5. \A k \in DOMAIN a.headers : HeaderSize(a.headers[k]) = HeaderSize(b.headers[k])
  BY <1>1, <1>2, <1>3, <1>4
<1>6. sizes(a) = sizes(b)
  BY <1>4, <1>5
<1>7. a.payload = p.payload /\ b.payload = p.payload
  BY <1>1, <1>2
<1>8. /\ PacketSize(a) = IF \E k \in DOMAIN sizes(a) : sizes(a)[k] = Undefined THEN Undefined
                         ELSE Total(sizes(a)) + Len(a.payload)
      /\ PacketSize(b) = IF \E k \in DOMAIN sizes(b) : sizes(b)[k] = Undefined THEN Undefined
                         ELSE Total(sizes(b)) + Len(b.payload)
  BY DEF PacketSize
<1> HIDE DEF sizes
<1>9. PacketSize(b) = PacketSize(a)
  BY <1>6, <1>7, <1>8
<1> QED
  BY <1>9 DEF SizeFrom, a, b

LEMMA SameChecksum ==
  ASSUME NEW p, NEW q, IsStack(p), IsStack(q), q.payload = p.payload, Len(q.headers) = Len(p.headers),
         NEW i \in DOMAIN p.headers, i \in DOMAIN q.headers,
         "checksum" \in FieldsOf(p.headers[i].case), "checksum" \in FieldsOf(q.headers[i].case),
         WithField(q.headers[i], "checksum", 0) = WithField(p.headers[i], "checksum", 0),
         \A m \in DOMAIN p.headers : m > i => q.headers[m] = p.headers[m],
         NEW pseudo
  PROVE  ChecksumFrom(q, i, pseudo) = ChecksumFrom(p, i, pseudo)
<1> DEFINE a == WithValue(p, i, "checksum", 0)
           b == WithValue(q, i, "checksum", 0)
<1>1. /\ IsStack(a) /\ a.payload = p.payload /\ DOMAIN a.headers = DOMAIN p.headers
      /\ Len(a.headers) = Len(p.headers) /\ a.headers[i] = WithField(p.headers[i], "checksum", 0)
      /\ \A j \in DOMAIN p.headers : j # i => a.headers[j] = p.headers[j]
  BY ValueIsReplaced
<1>2. /\ IsStack(b) /\ b.payload = q.payload /\ DOMAIN b.headers = DOMAIN q.headers
      /\ Len(b.headers) = Len(q.headers) /\ b.headers[i] = WithField(q.headers[i], "checksum", 0)
      /\ \A j \in DOMAIN q.headers : j # i => b.headers[j] = q.headers[j]
  BY ValueIsReplaced
<1>3. /\ ChecksumFrom(p, i, pseudo)
           = LET raw == RawSerializePacket(From(a, i))
             IN  IF raw = Undefined \/ \E k \in DOMAIN pseudo : pseudo[k] \notin Nat
                 THEN Undefined ELSE OnesComplementChecksum(pseudo \o raw)
      /\ ChecksumFrom(q, i, pseudo)
           = LET raw == RawSerializePacket(From(b, i))
             IN  IF raw = Undefined \/ \E k \in DOMAIN pseudo : pseudo[k] \notin Nat
                 THEN Undefined ELSE OnesComplementChecksum(pseudo \o raw)
  BY DEF ChecksumFrom, WithValue
<1> HIDE DEF a, b
<1>4. DOMAIN p.headers = 1 .. Len(p.headers) /\ DOMAIN q.headers = 1 .. Len(p.headers) /\ Len(p.headers) \in Nat
  BY ListsHaveLengths DEF IsStack
<1>5. i \in 1 .. Len(a.headers) + 1
  BY <1>1, <1>4
<1>6. \A m \in DOMAIN a.headers : m >= i => b.headers[m] = a.headers[m]
  <2>1. \A m \in DOMAIN p.headers : m >= i => m = i \/ m > i
    BY <1>4
  <2>2. DOMAIN p.headers = DOMAIN q.headers
    BY <1>4
  <2> QED
    BY <1>1, <1>2, <2>1, <2>2
<1>7. b.payload = a.payload /\ Len(b.headers) = Len(a.headers)
  BY <1>1, <1>2
<1>8. From(b, i) = From(a, i)
  BY <1>1, <1>2, <1>5, <1>6, <1>7, SameRest
<1> QED
  BY <1>3, <1>8

LEMMA OneHeaderZeroed ==
  ASSUME NEW h, NEW g, WithField(g, "checksum", 0) = WithField(h, "checksum", 0)
  PROVE  Ipv4HeaderChecksum(g) = Ipv4HeaderChecksum(h)
<1> DEFINE one(x) == [headers |-> <<x>>, payload |-> << >>]
           zeroed(x) == [one(x) EXCEPT !.headers[1] = WithField(@, "checksum", 0)]
<1>1. \A x : zeroed(x) = [headers |-> <<WithField(x, "checksum", 0)>>, payload |-> << >>]
  <2>1. \A x, y : [<<x>> EXCEPT ![1] = y] = <<y>>
    OBVIOUS
  <2>2. \A x, y, z : [[headers |-> x, payload |-> y] EXCEPT !.headers = z] = [headers |-> z, payload |-> y]
    OBVIOUS
  <2>3. \A x : zeroed(x) = [one(x) EXCEPT !.headers = [<<x>> EXCEPT ![1] = WithField(x, "checksum", 0)]]
    OBVIOUS
  <2> QED
    BY <2>1, <2>2, <2>3
<1>2. zeroed(g) = zeroed(h)
  BY <1>1
<1>3. \A x : Ipv4HeaderChecksum(x)
        = LET raw == RawSerializePacket(From(zeroed(x), 1))
          IN  IF raw = Undefined \/ \E k \in DOMAIN << >> : << >>[k] \notin Nat
              THEN Undefined ELSE OnesComplementChecksum(<< >> \o raw)
  BY DEF Ipv4HeaderChecksum, ChecksumFrom
<1> HIDE DEF zeroed
<1> QED
  BY <1>2, <1>3

LEMMA OverwrittenTwice ==
  ASSUME NEW h, HasFields(h), NEW f \in FieldsOf(h.case), NEW v, NEW w
  PROVE  WithField(WithField(h, f, v), f, w) = WithField(h, f, w)
<1>1. h = [case |-> h.case, field |-> h.field, options |-> h.options]
      /\ h.field = [g \in FieldsOf(h.case) |-> h.field[g]]
  BY DEF HasFields
<1>2. \A x : WithField(h, f, x) = [case |-> h.case, field |-> [h.field EXCEPT ![f] = x], options |-> h.options]
  BY <1>1 DEF WithField
<1>3. \A c, fs, os, x : WithField([case |-> c, field |-> fs, options |-> os], f, x)
        = [case |-> c, field |-> [fs EXCEPT ![f] = x], options |-> os]
  BY DEF WithField
<1>4. [[h.field EXCEPT ![f] = v] EXCEPT ![f] = w] = [h.field EXCEPT ![f] = w]
  BY <1>1
<1> QED
  BY <1>2, <1>3, <1>4

(* A computed field does not decide about the size of its header.           *)
LEMMA SameHeaderSize ==
  ASSUME NEW h, HasFields(h), NEW g, IsComputed(h, g), g \in FieldsOf(h.case), NEW v
  PROVE  HeaderSize(WithField(h, g, v)) = HeaderSize(h)
<1> DEFINE new == WithField(h, g, v)
<1>1. /\ HasFields(new) /\ new.case = h.case /\ new.options = h.options
      /\ \A f \in FieldsOf(h.case) : f # g => new.field[f] = h.field[f]
  BY FieldIsReplaced
<1> HIDE DEF new
<1>2. HasOptionals(new) <=> HasOptionals(h)
  BY <1>1, ComputingKeepsTheList
<1>3. FieldsSent(new) = FieldsSent(h)
  BY <1>1, <1>2 DEF FieldsSent
<1>4. HeaderSize(new) = HeaderSize(h)
  BY <1>1, <1>3 DEF HeaderSize
<1> QED
  BY <1>4 DEF new

(* The header before, with its addresses and its protocol, is no computed   *)
(* field, and a length of UDP is computed before its checksum.              *)
LEMMA SameChecksumOfRest ==
  ASSUME NEW p, IsStack(p), NEW j \in DOMAIN p.headers, NEW g, IsComputed(p.headers[j], g), NEW v,
         NEW i \in DOMAIN p.headers, i >= j,
         p.headers[i].case \in {"ipv4", "udp", "icmp", "gre"},
         i = j => g = "checksum"
  PROVE  HeaderChecksum(WithValue(p, j, g, v), i) = HeaderChecksum(p, i)
<1> DEFINE q == WithValue(p, j, g, v)
           h == p.headers[i]
           old == p.headers[j]
<1> SUFFICES HeaderChecksum(q, i) = HeaderChecksum(p, i)
  OBVIOUS
<1>1. PICK k \in DOMAIN ComputedFieldsOf(old) : g = ComputedFieldsOf(old)[k]
  BY DEF IsComputed
<1>2. HasFields(old) /\ HasFields(h)
  BY DEF IsStack
<1>3. g \in FieldsOf(old.case) /\ g \notin {"addresses", "protocol"}
  BY <1>1, <1>2, ComputedFieldsOfAHeader, ComputedFieldsOfHeaders DEF HasFields
<1>4. /\ IsStack(q) /\ q.payload = p.payload /\ DOMAIN q.headers = DOMAIN p.headers
      /\ Len(q.headers) = Len(p.headers) /\ q.headers[j] = WithField(old, g, v)
      /\ \A m \in DOMAIN p.headers : m # j => q.headers[m] = p.headers[m]
  BY <1>3, ValueIsReplaced
<1>5. /\ q.headers[j].case = old.case /\ q.headers[j].options = old.options
      /\ \A f \in FieldsOf(old.case) : f # g => q.headers[j].field[f] = old.field[f]
  <2> DEFINE new == WithField(old, g, v)
  <2>1. /\ new.case = old.case /\ new.options = old.options
        /\ \A f \in FieldsOf(old.case) : f # g => new.field[f] = old.field[f]
    BY <1>2, <1>3, FieldIsReplaced
  <2> HIDE DEF q, new
  <2>2. q.headers[j] = new
    BY <1>4 DEF new
  <2> QED
    BY <2>1, <2>2
<1>6. DOMAIN p.headers = 1 .. Len(p.headers) /\ Len(p.headers) \in Nat
  BY ListsHaveLengths DEF IsStack
<1>7. "checksum" \in FieldsOf(h.case)
  BY ChecksumsAreFields
<1>8. WithField(q.headers[i], "checksum", 0) = WithField(h, "checksum", 0) /\ q.headers[i].case = h.case
  <2>1. CASE i = j
    BY <1>2, <1>3, <1>4, <1>5, <2>1, OverwrittenTwice
  <2>2. CASE i # j
    BY <1>4, <2>2
  <2> QED
    BY <2>1, <2>2
<1>9. \A m \in DOMAIN p.headers : m > i => q.headers[m] = p.headers[m]
  BY <1>4, <1>6
<1> HIDE DEF q
<1>10. \A pseudo : ChecksumFrom(q, i, pseudo) = ChecksumFrom(p, i, pseudo)
  BY <1>4, <1>7, <1>8, <1>9, SameChecksum
<1>11. \A m \in DOMAIN p.headers : q.headers[m].case = p.headers[m].case
  BY <1>4, <1>5
<1> DEFINE ip == FindPrecedingIpHeader(p, i)
<1>12. FindPrecedingIpHeader(q, i) = ip
  <2>1. i > 1 => i - 1 \in DOMAIN p.headers
    BY <1>6
  <2> QED
    BY <1>11, <2>1 DEF FindPrecedingIpHeader
<1>13. ip \in 0 .. i - 1 /\ (ip > 0 => ip \in DOMAIN p.headers) /\ (i = 1 => ip = 0) /\ i \in Nat /\ i >= 1
  BY <1>6, PrecedingHeader
<1> HIDE DEF ip
<1>14. ip > 0 => q.headers[ip].case = p.headers[ip].case
  BY <1>11, <1>13
<1>15. ip > 0 /\ p.headers[ip].case \in {"ipv4", "ipv6"} =>
         /\ q.headers[ip].field.addresses = p.headers[ip].field.addresses
         /\ p.headers[ip].case = "ipv4" => q.headers[ip].field.protocol = p.headers[ip].field.protocol
  <2> SUFFICES ASSUME ip > 0, p.headers[ip].case \in {"ipv4", "ipv6"}, ip = j
               PROVE  /\ q.headers[ip].field.addresses = p.headers[ip].field.addresses
                      /\ p.headers[ip].case = "ipv4" => q.headers[ip].field.protocol = p.headers[ip].field.protocol
    BY <1>4, <1>13
  <2>1. CASE old.case = "ipv4"
    <3>1. "addresses" \in FieldsOf(old.case) /\ "protocol" \in FieldsOf(old.case)
      BY <2>1 DEF FieldsOf, Fields
    <3> QED
      BY <1>3, <1>5, <3>1
  <2>2. CASE old.case = "ipv6"
    <3>1. "addresses" \in FieldsOf(old.case)
      BY <2>2 DEF FieldsOf, Fields
    <3> QED
      BY <1>3, <1>5, <2>2, <3>1
  <2> QED
    BY <2>1, <2>2
<1>16. CASE h.case = "ipv4"
  BY <1>8, <1>16, OneHeaderZeroed DEF HeaderChecksum
<1>17. CASE h.case = "gre"
  BY <1>8, <1>10, <1>17 DEF HeaderChecksum, GreHeaderChecksum
<1>18. CASE h.case = "icmp"
  <2>1. SizeFrom(q, i) = SizeFrom(p, i)
    <3>1. \A m \in DOMAIN p.headers : HeaderSize(q.headers[m]) = HeaderSize(p.headers[m])
      BY <1>1, <1>2, <1>3, <1>4, SameHeaderSize DEF IsComputed
    <3>2. i \in 1 .. Len(p.headers) + 1
      BY <1>6
    <3> QED
      BY <1>4, <3>1, <3>2, SameSizes
  <2>2. HeaderChecksum(q, i) = IcmpHeaderChecksum(q, i) /\ HeaderChecksum(p, i) = IcmpHeaderChecksum(p, i)
    BY <1>8, <1>18 DEF HeaderChecksum
  <2>3. CASE ip = 0
    BY <1>12, <1>13, <2>2, <2>3 DEF IcmpHeaderChecksum, ip
  <2>4. CASE ip > 0 /\ p.headers[ip].case = "ipv4"
    <3>1. /\ IcmpHeaderChecksum(q, i) = ChecksumFrom(q, i, << >>)
          /\ IcmpHeaderChecksum(p, i) = ChecksumFrom(p, i, << >>)
      BY <1>12, <1>13, <1>14, <2>4 DEF IcmpHeaderChecksum, ip
    <3> QED
      BY <1>10, <2>2, <3>1
  <2>5. CASE ip > 0 /\ p.headers[ip].case = "ipv6"
    <3>1. /\ IcmpHeaderChecksum(q, i)
               = ChecksumFrom(q, i, <<q.headers[ip].field.addresses, SizeFrom(q, i), 58>>)
          /\ IcmpHeaderChecksum(p, i)
               = ChecksumFrom(p, i, <<p.headers[ip].field.addresses, SizeFrom(p, i), 58>>)
      BY <1>12, <1>13, <1>14, <2>5 DEF IcmpHeaderChecksum, ip
    <3> QED
      BY <1>10, <1>15, <2>1, <2>2, <2>5, <3>1
  <2>6. CASE ip > 0 /\ p.headers[ip].case \notin {"ipv4", "ipv6"}
    BY <1>12, <1>13, <1>14, <2>2, <2>6 DEF IcmpHeaderChecksum, ip
  <2> QED
    BY <1>13, <2>3, <2>4, <2>5, <2>6
<1>19. CASE h.case = "udp"
  <2> DEFINE length(x) == x.headers[i].field.length
  <2>1. length(q) = length(p)
    <3>1. CASE i # j
      BY <1>4, <3>1
    <3>2. CASE i = j
      <4>1. "length" \in FieldsOf(old.case)
        BY <1>19, <3>2 DEF FieldsOf, Fields
      <4> QED
        BY <1>5, <3>2, <4>1
    <3> QED
      BY <3>1, <3>2
  <2>2. HeaderChecksum(q, i) = UdpHeaderChecksum(q, i) /\ HeaderChecksum(p, i) = UdpHeaderChecksum(p, i)
    BY <1>8, <1>19 DEF HeaderChecksum
  <2>3. CASE ip = 0
    BY <1>12, <1>13, <2>2, <2>3 DEF UdpHeaderChecksum, ip
  <2>4. CASE ip > 0 /\ p.headers[ip].case = "ipv4"
    <3>1. /\ UdpHeaderChecksum(q, i)
               = ChecksumFrom(q, i, <<q.headers[ip].field.addresses, q.headers[ip].field.protocol, length(q)>>)
          /\ UdpHeaderChecksum(p, i)
               = ChecksumFrom(p, i, <<p.headers[ip].field.addresses, p.headers[ip].field.protocol, length(p)>>)
      BY <1>12, <1>13, <1>14, <2>4 DEF UdpHeaderChecksum, ip
    <3> HIDE DEF length
    <3> QED
      BY <1>10, <1>15, <2>1, <2>2, <2>4, <3>1
  <2>5. CASE ip > 0 /\ p.headers[ip].case = "ipv6"
    <3>1. /\ UdpHeaderChecksum(q, i) = ChecksumFrom(q, i, <<q.headers[ip].field.addresses, length(q), 17>>)
          /\ UdpHeaderChecksum(p, i) = ChecksumFrom(p, i, <<p.headers[ip].field.addresses, length(p), 17>>)
      BY <1>12, <1>13, <1>14, <2>5 DEF UdpHeaderChecksum, ip
    <3> HIDE DEF length
    <3> QED
      BY <1>10, <1>15, <2>1, <2>2, <2>5, <3>1
  <2>6. CASE ip > 0 /\ p.headers[ip].case \notin {"ipv4", "ipv6"}
    BY <1>12, <1>13, <1>14, <2>2, <2>6 DEF UdpHeaderChecksum, ip
  <2> QED
    BY <1>13, <2>3, <2>4, <2>5, <2>6
<1> QED
  BY <1>16, <1>17, <1>18, <1>19

(* One pass from the innermost header to the outermost is enough, because   *)
(* no computed field depends on one that is computed later.                 *)
LEMMA ComputingLeavesTheRest ==
  ASSUME NEW p, IsStack(p), NEW j \in DOMAIN p.headers, NEW g, IsComputed(p.headers[j], g), NEW v,
         NEW i \in DOMAIN p.headers, i >= j, NEW f, IsComputed(p.headers[i], f),
         i = j => f = g \/ f # "checksum"
  PROVE  /\ ComputedValue(WithValue(p, j, g, v), i, f) = ComputedValue(p, i, f)
         /\ SizeFrom(WithValue(p, j, g, v), i + 1) = SizeFrom(p, i + 1)
<1> DEFINE q == WithValue(p, j, g, v)
           h == p.headers[i]
           old == p.headers[j]
<1>1. HasFields(old) /\ HasFields(h)
  BY DEF IsStack
<1>2. PICK k \in DOMAIN ComputedFieldsOf(h) : f = ComputedFieldsOf(h)[k]
  BY DEF IsComputed
<1>3. g \in FieldsOf(old.case)
  <2>1. PICK l \in DOMAIN ComputedFieldsOf(old) : ComputedFieldsOf(old)[l] = g
    BY DEF IsComputed
  <2>2. old.case \in HeaderCases
    BY <1>1 DEF HasFields
  <2> HIDE DEF old
  <2>3. l \in 1 .. Len(ComputedFieldsOf(old)) /\ ComputedFieldsOf(old)[l] \in FieldsOf(old.case)
    BY <2>2, ComputedFieldsOfAHeader
  <2> QED
    BY <2>1, <2>3
<1>4. /\ IsStack(q) /\ q.payload = p.payload /\ DOMAIN q.headers = DOMAIN p.headers
      /\ Len(q.headers) = Len(p.headers) /\ q.headers[j] = WithField(old, g, v)
      /\ \A m \in DOMAIN p.headers : m # j => q.headers[m] = p.headers[m]
  BY <1>3, ValueIsReplaced
<1>5. q.headers[j].case = old.case /\ q.headers[j].options = old.options
  <2> HIDE DEF old
  <2>1. WithField(old, g, v).case = old.case /\ WithField(old, g, v).options = old.options
    BY <1>1, <1>3, FieldIsReplaced
  <2> HIDE DEF q
  <2> QED
    BY <1>4, <2>1
<1>6. q.headers[i].case = h.case /\ q.headers[i].options = h.options
  BY <1>4, <1>5
<1>7. DOMAIN p.headers = 1 .. Len(p.headers) /\ Len(p.headers) \in Nat
  BY ListsHaveLengths DEF IsStack
<1>8. \A m \in DOMAIN p.headers : HeaderSize(q.headers[m]) = HeaderSize(p.headers[m])
  BY <1>1, <1>3, <1>4, SameHeaderSize
<1> HIDE DEF q
<1>9. \A m \in 1 .. Len(p.headers) + 1 : SizeFrom(q, m) = SizeFrom(p, m)
  BY <1>4, <1>8, SameSizes
<1>10. SizeFrom(q, i) = SizeFrom(p, i) /\ SizeFrom(q, i + 1) = SizeFrom(p, i + 1)
  BY <1>7, <1>9
<1>11. /\ f \in {"ethertype", "version", "ihl", "checksum", "data_offset"} \cup Lengths \/ f \in DOMAIN ConstantValue
       /\ f = "checksum" => h.case \in {"ipv4", "udp", "icmp", "gre"}
  BY <1>1, <1>2, ComputedFieldsOfHeaders DEF HasFields
<1>12. ComputedValue(q, i, f) = ComputedValue(p, i, f)
  <2>1. CASE f = "ethertype"
    BY <1>10, <2>1 DEF ComputedValue
  <2>2. CASE f = "version"
    BY <1>6, <2>2 DEF ComputedValue
  <2>3. CASE f = "ihl"
    <3>1. Ihl(q.headers[i]) = Ihl(h)
      BY <1>6 DEF Ihl
    <3> QED
      BY <2>3, <3>1 DEF ComputedValue
  <2>4. CASE f \in Lengths
    <3>1. CountedFrom(i, f) \in {i, i + 1}
      BY DEF CountedFrom
    <3>2. SizeFrom(q, CountedFrom(i, f)) = SizeFrom(p, CountedFrom(i, f))
      BY <1>10, <3>1
    <3> QED
      BY <2>4, <3>2 DEF ComputedValue, Lengths
  <2>5. CASE f = "checksum"
    <3>1. HeaderChecksum(q, i) = HeaderChecksum(p, i)
      BY <1>11, <2>5, SameChecksumOfRest DEF q
    <3> QED
      BY <2>5, <3>1 DEF ComputedValue
  <2>6. CASE f = "data_offset"
    <3>1. DataOffset(q, i) = DataOffset(p, i)
      BY <1>6, <1>10 DEF DataOffset
    <3> QED
      BY <2>6, <3>1 DEF ComputedValue
  <2>7. CASE f \in DOMAIN ConstantValue
    BY <2>7, ConstantsAreNumbers DEF ComputedValue, Lengths
  <2> QED
    BY <1>11, <2>1, <2>2, <2>3, <2>4, <2>5, <2>6, <2>7
<1> QED
  BY <1>10, <1>12 DEF q

------------------------------------------------------------------------------
(* One pass is enough                                                      *)

LEMMA NewValuesAreValues ==
  ASSUME NEW p, IsStack(p), IsTyped(p), NEW i \in DOMAIN p.headers, NEW f, IsComputed(p.headers[i], f),
         NEW overwrite \in BOOLEAN, NewValue(p, i, f, overwrite) \notin {Undefined, OutOfBounds}
  PROVE  NewValue(p, i, f, overwrite) \in Nat \cup {Missing, Malformed}
<1> DEFINE h == p.headers[i]
           old == h.field[f]
           computed == ComputedValue(p, i, f)
<1>1. HasFields(h) /\ HasValues(h)
  BY DEF IsStack, IsTyped
<1>2. f \in FieldsOf(h.case)
  BY <1>1, ComputedFieldsOfAHeader DEF HasFields, IsComputed
<1>3. old \in Nat \cup {Missing, Malformed}
  BY <1>1, <1>2 DEF HasValues
<1>4. /\ computed \in Nat \cup {Undefined, OutOfBounds, AnyValue}
      /\ computed = AnyValue => f = "checksum"
  BY ValuesOfComputedFields
<1>5. CASE f = "ethertype"
  <2>1. NewValue(p, i, f, overwrite) \in {Undefined, old, computed}
    BY <1>5 DEF NewValue, NewEtherType
  <2> QED
    BY <1>3, <1>4, <1>5, <2>1
<1>6. CASE f # "ethertype"
  <2>1. \/ NewValue(p, i, f, overwrite) \in {old, 0}
        \/ NewValue(p, i, f, overwrite) = computed /\ computed # AnyValue
    <3>1. CASE old # Missing /\ (~overwrite \/ f = "options_and_padding")
      BY <1>6, <3>1 DEF NewValue
    <3>2. CASE ~(old # Missing /\ (~overwrite \/ f = "options_and_padding"))
      <4>1. NewValue(p, i, f, overwrite)
              = IF computed # AnyValue THEN computed ELSE IF old = Missing THEN 0 ELSE old
        BY <1>6, <3>2 DEF NewValue
      <4> HIDE DEF computed, old
      <4> QED
        BY <4>1
    <3> QED
      BY <3>1, <3>2
  <2> QED
    BY <1>3, <1>4, <2>1
<1> QED
  BY <1>5, <1>6

(* The value of a field that is missing or to be overwritten.                *)
IsComputedAnew(p, i, f, overwrite, v) ==
  /\ overwrite \/ p.headers[i].field[f] = Missing
  /\ v = NewValue(p, i, f, overwrite) /\ v \notin {Undefined, OutOfBounds}

(* What is computed is what the validator wants, in the packet after it.    *)
LEMMA NewValueIsUpToDate ==
  ASSUME NEW p, IsStack(p), IsTyped(p), NEW i \in DOMAIN p.headers, NEW f, IsComputed(p.headers[i], f),
         NEW overwrite, NEW v, IsComputedAnew(p, i, f, overwrite, v)
  PROVE  UpToDate(WithValue(p, i, f, v), i, f)
<1> DEFINE q == WithValue(p, i, f, v)
           h == p.headers[i]
           old == h.field[f]
           computed == ComputedValue(p, i, f)
           size == SizeFrom(p, i + 1)
<1> SUFFICES UpToDate(q, i, f)
  OBVIOUS
<1>1. HasFields(h) /\ HasValues(h)
  BY DEF IsStack, IsTyped
<1>2. PICK k \in DOMAIN ComputedFieldsOf(h) : f = ComputedFieldsOf(h)[k]
  BY DEF IsComputed
<1>3. f \in FieldsOf(h.case)
  BY <1>1, <1>2, ComputedFieldsOfAHeader DEF HasFields
<1>4. old \in Nat \cup {Missing, Malformed}
  BY <1>1, <1>3 DEF HasValues
<1>5. /\ f = "ethertype" <=> h.case = "ethernet"
      /\ f = "options_and_padding" => h.case = "hop_by_hop"
  BY <1>1, <1>2, ComputedFieldsOfHeaders DEF HasFields
<1>6. /\ computed \in Nat \cup {Undefined, OutOfBounds, AnyValue}
      /\ computed = AnyValue => f = "checksum" /\ h.case = "udp"
  BY ValuesOfComputedFields
<1>7. i \in DOMAIN p.headers /\ i >= i /\ i \in 1 .. Len(p.headers) /\ i + 1 \in 1 .. Len(p.headers) + 1
      /\ Len(p.headers) \in Nat
  BY ListsHaveLengths DEF IsStack
<1>8. ComputedValue(q, i, f) = computed /\ SizeFrom(q, i + 1) = size
  BY <1>7, ComputingLeavesTheRest
<1>9. q.headers[i] = WithField(h, f, v) /\ Len(q.headers) = Len(p.headers)
  BY <1>3, ValueIsReplaced
<1>10. WithField(h, f, v).case = h.case /\ WithField(h, f, v).field[f] = v
  BY <1>1, <1>3, FieldIsReplaced
<1> HIDE DEF q
<1>11. q.headers[i].case = h.case /\ q.headers[i].field[f] = v
  BY <1>9, <1>10
<1>12. CASE h.case = "ethernet"
  <2>1. f = "ethertype"
    BY <1>5, <1>12
  <2>2. size \in Nat \cup {Undefined}
    BY <1>7, SizesOfRests
  <2>3. computed = IF size = Undefined \/ size > Mtu THEN Undefined ELSE size
    BY <2>1 DEF ComputedValue
  <2>4. v = NewEtherType(p, i, overwrite)
    BY <2>1 DEF NewValue, IsComputedAnew
  <2>8. v = CASE old = Malformed -> Undefined
              [] old # Malformed /\ (old = Missing \/ overwrite) /\ (IF old = Missing THEN 0 ELSE old) <= Mtu
                   /\ i = Len(p.headers) ->
                   IF computed = (IF old = Missing THEN 0 ELSE old) THEN old ELSE computed
              [] OTHER -> old
    BY <2>1, <2>4 DEF NewEtherType
  <2> HIDE DEF computed, size, old
  <2>5. Missing \notin Int /\ Malformed \notin Int /\ Undefined \notin Int /\ Missing # Malformed /\ Mtu \in Nat
    BY MarkersAreNoValues, SizesAreNumbers DEF Markers
  <2>7. overwrite \/ old = Missing
    BY DEF IsComputedAnew, old
  <2>6. ASSUME i = Len(p.headers), v \in 0 .. Mtu PROVE v = size
    <3>1. CASE old = Malformed
      <4>1. v = Undefined
        BY <2>8, <3>1
      <4> QED
        BY <2>5, <2>6, <4>1
    <3>2. CASE old = Missing
      <4>1. v = IF computed = 0 THEN Missing ELSE computed
        BY <2>5, <2>6, <2>8, <3>2
      <4> QED
        BY <2>3, <2>5, <2>6, <4>1
    <3>3. CASE old \in Nat /\ old <= Mtu
      <4>1. v = IF computed = old THEN old ELSE computed
        BY <2>5, <2>6, <2>7, <2>8, <3>3
      <4> QED
        BY <2>3, <2>5, <2>6, <3>3, <4>1
    <3>4. CASE old \in Nat /\ ~(old <= Mtu)
      <4>1. v = old
        BY <2>5, <2>8, <3>4
      <4> QED
        BY <2>5, <2>6, <3>4, <4>1
    <3> QED
      BY <1>4, <3>1, <3>2, <3>3, <3>4 DEF old
  <2> QED
    BY <1>7, <1>8, <1>9, <1>11, <1>12, <2>1, <2>6 DEF UpToDate, size
<1>13. CASE h.case # "ethernet"
  <2> SUFFICES ASSUME v \in Nat, h.case # "hop_by_hop" PROVE ComputedFieldValid(q, i, f)
    BY <1>11, <1>13 DEF UpToDate, ComputedFieldValid
  <2>1. f # "ethertype" /\ f # "options_and_padding"
    BY <1>5, <1>13
  <2>2. v = IF computed # AnyValue THEN computed ELSE IF old = Missing THEN 0 ELSE old
    BY <2>1 DEF NewValue, IsComputedAnew
  <2>3. CASE h.case = "udp" /\ f = "checksum"
    <3>1. UdpHeaderChecksum(q, i) = computed
      BY <1>8, <1>11, <2>3 DEF ComputedValue, HeaderChecksum
    <3> HIDE DEF computed
    <3>2. computed # Undefined /\ (computed = AnyValue \/ v = computed)
      BY <2>2, MarkersAreNoValues DEF IsComputedAnew
    <3>3. UdpChecksumValid(q, i)
      BY <1>11, <2>3, <3>1, <3>2 DEF UdpChecksumValid
    <3> QED
      BY <1>11, <2>3, <3>3 DEF ComputedFieldValid
  <2>4. CASE ~(h.case = "udp" /\ f = "checksum")
    <3>1. v = computed
      BY <1>6, <2>2, <2>4
    <3> HIDE DEF computed
    <3> QED
      BY <1>8, <1>11, <1>13, <2>4, <3>1 DEF ComputedFieldValid
  <2> QED
    BY <2>3, <2>4
<1> QED
  BY <1>12, <1>13

LEMMA ComputedFieldsAreFields ==
  ASSUME NEW h, h.case \in HeaderCases, NEW f, IsComputed(h, f)
  PROVE  f \in FieldsOf(h.case)
BY ComputedFieldsOfAHeader DEF IsComputed

LEMMA StaysUpToDate ==
  ASSUME NEW p, IsStack(p), NEW j \in DOMAIN p.headers, NEW g, IsComputed(p.headers[j], g), NEW v,
         NEW i \in DOMAIN p.headers, i >= j, NEW f, IsComputed(p.headers[i], f),
         i = j => f # g /\ f # "checksum",
         UpToDate(p, i, f)
  PROVE  UpToDate(WithValue(p, j, g, v), i, f)
<1> DEFINE q == WithValue(p, j, g, v)
           h == p.headers[i]
           old == p.headers[j]
<1> SUFFICES UpToDate(q, i, f)
  OBVIOUS
<1>1. HasFields(old) /\ HasFields(h)
  BY DEF IsStack
<1>2. g \in FieldsOf(old.case) /\ f \in FieldsOf(h.case)
  BY <1>1, ComputedFieldsAreFields DEF HasFields
<1>3. /\ Len(q.headers) = Len(p.headers) /\ q.headers[j] = WithField(old, g, v)
      /\ \A m \in DOMAIN p.headers : m # j => q.headers[m] = p.headers[m]
  BY <1>2, ValueIsReplaced
<1>4. ComputedValue(q, i, f) = ComputedValue(p, i, f) /\ SizeFrom(q, i + 1) = SizeFrom(p, i + 1)
  BY ComputingLeavesTheRest
<1>5. WithField(old, g, v).case = old.case /\ (i = j => WithField(old, g, v).field[f] = h.field[f])
  BY <1>1, <1>2, FieldIsReplaced
<1> HIDE DEF q
<1>6. q.headers[i].case = h.case /\ q.headers[i].field[f] = h.field[f]
  BY <1>3, <1>5
<1>7. CASE h.case = "ethernet"
  <2>1. f = "ethertype"
    BY <1>1, <1>7, ComputedFieldsOfHeaders DEF HasFields, IsComputed
  <2> QED
    BY <1>3, <1>4, <1>6, <1>7, <2>1 DEF UpToDate
<1>8. CASE h.case # "ethernet"
  <2> SUFFICES ASSUME h.field[f] \in Nat, ComputedFieldValid(p, i, f) PROVE ComputedFieldValid(q, i, f)
    BY <1>6, <1>8 DEF UpToDate
  <2>1. CASE h.case = "hop_by_hop"
    BY <1>6, <2>1 DEF ComputedFieldValid
  <2>2. CASE h.case = "udp" /\ f = "checksum"
    <3>1. UdpHeaderChecksum(q, i) = UdpHeaderChecksum(p, i)
      BY <1>4, <1>6, <2>2 DEF ComputedValue, HeaderChecksum
    <3>2. UdpChecksumValid(p, i)
      BY <2>2 DEF ComputedFieldValid
    <3>3. UdpChecksumValid(q, i)
      BY <1>6, <2>2, <3>1, <3>2 DEF UdpChecksumValid
    <3> QED
      BY <1>6, <2>2, <3>3 DEF ComputedFieldValid
  <2>3. CASE h.case # "hop_by_hop" /\ ~(h.case = "udp" /\ f = "checksum")
    BY <1>4, <1>6, <1>8, <2>3 DEF ComputedFieldValid
  <2> QED
    BY <2>1, <2>2, <2>3
<1> QED
  BY <1>7, <1>8

(* What UpdateAllComputedFields has computed so far is up to date.          *)
NoneStale ==
  \A i \in DOMAIN packet.headers : \A k \in DOMAIN ComputedFieldsOf(packet.headers[i]) :
    LET f == ComputedFieldsOf(packet.headers[i])[k]
    IN  /\ i > index \/ (i = index /\ k < position)
        /\ ~(packet.headers[i].case = "gre" /\ f = "checksum")
        => UpToDate(packet, i, f)

StaleInv ==
  /\ IsTyped(packet) /\ IsTyped(before)
  /\ call = "UpdateAllComputedFields" /\ result = "ok" => index = 0
  /\ call = "UpdateAllComputedFields" /\ (todo # << >> \/ result = "ok") => NoneStale

LEMMA ValueIsTyped ==
  ASSUME NEW p, IsStack(p), IsTyped(p), NEW i \in DOMAIN p.headers, NEW f \in FieldsOf(p.headers[i].case),
         NEW v \in Nat \cup {Missing, Malformed}
  PROVE  IsTyped(WithValue(p, i, f, v))
<1> DEFINE q == WithValue(p, i, f, v)
           h == p.headers[i]
           new == WithField(h, f, v)
<1>1. HasFields(h) /\ HasValues(h)
  BY DEF IsStack, IsTyped
<1>2. /\ new.case = h.case /\ new.options = h.options /\ new.field[f] = v
      /\ \A g \in FieldsOf(h.case) : g # f => new.field[g] = h.field[g]
  BY <1>1, FieldIsReplaced
<1>3. q.payload = p.payload /\ DOMAIN q.headers = DOMAIN p.headers /\ q.headers[i] = new
      /\ \A j \in DOMAIN p.headers : j # i => q.headers[j] = p.headers[j]
  BY ValueIsReplaced
<1> HIDE DEF q, new
<1>4. HasValues(new)
  BY <1>1, <1>2 DEF HasValues
<1>5. IsTyped(q)
  BY <1>3, <1>4 DEF IsTyped
<1> QED
  BY <1>5 DEF q

LEMMA UpdateFieldKeepsStaleInv ==
  ASSUME UpdateInv, StaleInv, UpdateField
  PROVE  StaleInv'
<1>1. ASSUME NEW status \in {"error", "failed"}, todo # << >>, Stop(status), UNCHANGED <<before, call, loop, changes>>
      PROVE  StaleInv'
  BY <1>1 DEF Stop, StaleInv
<1>2. ASSUME NEW f, NEW value, ComputesField(f, value) PROVE StaleInv'
  <2> DEFINE h == packet.headers[index]
             fields == ComputedFieldsOf(h)
  <2>1. /\ index \in DOMAIN packet.headers
        /\ call = "UpdateAllComputedFields" => Overwrite
    BY UpdateFieldComputesOrStops
  <2>2. /\ DOMAIN packet'.headers = DOMAIN packet.headers
        /\ \A j \in DOMAIN packet.headers : j # index => packet'.headers[j] = packet.headers[j]
        /\ f \in FieldsOf(h.case) /\ IsComputed(h, f)
        /\ HasFields(h) /\ packet'.headers[index].case = h.case
        /\ ComputedFieldsOf(packet'.headers[index]) = fields
    BY <1>2, <2>1, ComputedHeader
  <2>3. /\ packet' = WithValue(packet, index, f, value)
        /\ todo # << >> /\ UNCHANGED <<todo, index, result, before, call>>
        /\ position' = position + 1
        /\ f = fields[position] /\ position <= Len(fields)
        /\ value = NewValue(packet, index, f, Overwrite) /\ value \notin {Undefined, OutOfBounds}
    BY <1>2 DEF ComputesField
  <2>4. IsStack(packet) /\ IsTyped(packet) /\ index \in Nat /\ position \in Nat \ {0}
    BY DEF UpdateInv, StaleInv
  <2>5. IsTyped(packet')
    <3>1. value \in Nat \cup {Missing, Malformed}
      <4>1. Overwrite \in BOOLEAN
        BY DEF Overwrite
      <4> QED
        BY <2>1, <2>2, <2>3, <2>4, <4>1, NewValuesAreValues
    <3> QED
      BY <2>1, <2>2, <2>3, <2>4, <3>1, ValueIsTyped
  <2>6. ASSUME call = "UpdateAllComputedFields" PROVE NoneStale'
    <3>1. NoneStale
      BY <2>3, <2>6 DEF StaleInv
    <3>2. \A i \in DOMAIN packet.headers : i \in Nat
      BY <2>4, ListsHaveLengths DEF IsStack
    <3>3. ASSUME NEW i \in DOMAIN packet.headers, NEW k \in DOMAIN ComputedFieldsOf(packet.headers[i]),
                 i > index \/ (i = index /\ k < position + 1),
                 ~(packet.headers[i].case = "gre" /\ ComputedFieldsOf(packet.headers[i])[k] = "checksum")
          PROVE  UpToDate(packet', i, ComputedFieldsOf(packet.headers[i])[k])
      <4> DEFINE e == ComputedFieldsOf(packet.headers[i])[k]
      <4>1. HasFields(packet.headers[i]) /\ packet.headers[i].case \in HeaderCases
        BY <2>4 DEF IsStack, HasFields
      <4>2. IsComputed(packet.headers[i], e)
        BY DEF IsComputed
      <4>3. CASE i = index /\ k = position
        <5>1. e = f
          BY <2>3, <4>3
        <5>2. Overwrite
          BY <2>1, <2>6
        <5>3. IsComputedAnew(packet, index, f, Overwrite, value)
          BY <2>3, <5>2 DEF IsComputedAnew
        <5>4. UpToDate(WithValue(packet, index, f, value), index, f)
          BY <2>1, <2>2, <2>4, <5>3, NewValueIsUpToDate
        <5> QED
          BY <2>3, <4>3, <5>1, <5>4
      <4>4. CASE i = index /\ k # position
        <5>1. k \in 1 .. Len(fields) /\ position \in 1 .. Len(fields) /\ Len(fields) \in Nat
          BY <2>3, <2>4, <4>1, <4>4, ComputedFieldsOfAHeader
        <5>2. k < position
          BY <2>4, <3>3, <4>4, <5>1
        <5>3. e # f
          BY <2>3, <4>1, <4>4, <5>1, ComputedFieldsOfAHeader
        <5>4. e # "checksum"
          <6>1. k \in DOMAIN fields /\ k # Len(fields)
            BY <2>3, <4>4, <5>1, <5>2
          <6> QED
            BY <3>3, <4>1, <4>4, <6>1, ComputedFieldsOfHeaders
        <5>5. UpToDate(packet, i, e)
          BY <3>1, <3>3, <4>4, <5>2 DEF NoneStale
        <5>6. i >= index
          BY <2>4, <4>4
        <5>7. UpToDate(WithValue(packet, index, f, value), i, e)
          BY <2>1, <2>2, <2>4, <4>2, <5>3, <5>4, <5>5, <5>6, StaysUpToDate
        <5> QED
          BY <2>3, <5>7
      <4>5. CASE i > index
        <5>1. UpToDate(packet, i, e)
          BY <3>1, <3>3, <4>5 DEF NoneStale
        <5>2. i >= index /\ i # index
          BY <2>4, <3>2, <4>5
        <5>3. UpToDate(WithValue(packet, index, f, value), i, e)
          BY <2>1, <2>2, <2>4, <4>2, <5>1, <5>2, StaysUpToDate
        <5> QED
          BY <2>3, <5>3
      <4> QED
        BY <3>3, <4>3, <4>4, <4>5
    <3>4. \A i \in DOMAIN packet.headers : /\ ComputedFieldsOf(packet'.headers[i]) = ComputedFieldsOf(packet.headers[i])
                                          /\ packet'.headers[i].case = packet.headers[i].case
      BY <2>2
    <3>5. ASSUME NEW i \in DOMAIN packet'.headers, NEW k \in DOMAIN ComputedFieldsOf(packet'.headers[i]),
                 i > index' \/ (i = index' /\ k < position'),
                 ~(packet'.headers[i].case = "gre" /\ ComputedFieldsOf(packet'.headers[i])[k] = "checksum")
          PROVE  UpToDate(packet', i, ComputedFieldsOf(packet'.headers[i])[k])
      <4>1. /\ i \in DOMAIN packet.headers
            /\ ComputedFieldsOf(packet'.headers[i]) = ComputedFieldsOf(packet.headers[i])
            /\ packet'.headers[i].case = packet.headers[i].case
        BY <2>2, <3>4
      <4>2. i > index \/ (i = index /\ k < position + 1)
        BY <2>3, <3>5
      <4> QED
        BY <3>3, <3>5, <4>1, <4>2
    <3> QED
      BY <3>5 DEF NoneStale
  <2> QED
    BY <2>3, <2>5, <2>6 DEF StaleInv
<1> QED
  BY <1>1, <1>2, UpdateFieldComputesOrStops

LEMMA NextHeaderKeepsStaleInv ==
  ASSUME UpdateInv, StaleInv, NextHeader
  PROVE  StaleInv'
<1>1. todo # << >> /\ index > 0 /\ UNCHANGED <<before, call, changes, completed, edits>>
  BY DEF NextHeader, Updating
<1>2. CASE packet.headers[index].case = "not_set"
  BY <1>1, <1>2 DEF NextHeader, Stop, StaleInv
<1>3. CASE packet.headers[index].case # "not_set"
  <2>1. /\ position > Len(ComputedFieldsOf(packet.headers[index]))
        /\ index' = index - 1 /\ position' = 1 /\ UNCHANGED <<packet, todo, result>>
    BY <1>3 DEF NextHeader
  <2>2. index \in Nat /\ index \in DOMAIN packet.headers /\ position \in Nat
        /\ \A i \in DOMAIN packet.headers : i \in Nat
    BY <1>1, ListsHaveLengths DEF UpdateInv, IsStack
  <2>3. call = "UpdateAllComputedFields" /\ result = "ok" => FALSE
    BY <1>1 DEF UpdateInv
  <2>4. NoneStale => NoneStale'
    <3> SUFFICES ASSUME NoneStale, NEW i \in DOMAIN packet.headers,
                        NEW k \in DOMAIN ComputedFieldsOf(packet.headers[i]),
                        i > index' \/ (i = index' /\ k < position'),
                        ~(packet.headers[i].case = "gre" /\ ComputedFieldsOf(packet.headers[i])[k] = "checksum")
                 PROVE  UpToDate(packet, i, ComputedFieldsOf(packet.headers[i])[k])
      BY <2>1 DEF NoneStale
    <3>1. HasFields(packet.headers[i])
      BY DEF UpdateInv, IsStack
    <3>2. k \in 1 .. Len(ComputedFieldsOf(packet.headers[i])) /\ Len(ComputedFieldsOf(packet.headers[i])) \in Nat
      BY <3>1, ComputedFieldsOfAHeader DEF HasFields
    <3>3. i >= index
      BY <2>1, <2>2, <3>2
    <3>4. i > index \/ (i = index /\ k < position)
      BY <2>1, <2>2, <3>2, <3>3
    <3> QED
      BY <3>4 DEF NoneStale
  <2> QED
    BY <1>1, <2>1, <2>3, <2>4 DEF StaleInv
<1> QED
  BY <1>2, <1>3

LEMMA PayloadReplaced ==
  ASSUME NEW p, IsStack(p), NEW y
  PROVE  [p EXCEPT !.payload = y] = [headers |-> p.headers, payload |-> y]
<1>1. p = [headers |-> p.headers, payload |-> p.payload]
  BY DEF IsStack
<1>2. \A hs, x : [[headers |-> hs, payload |-> x] EXCEPT !.payload = y] = [headers |-> hs, payload |-> y]
  OBVIOUS
<1> QED
  BY <1>1, <1>2

LEMMA PadKeepsStaleInv ==
  ASSUME UpdateInv, StaleInv, Pad
  PROVE  StaleInv'
<1>1. todo # << >> /\ Head(todo) = "pad" /\ UNCHANGED <<before, call, loop>>
  BY DEF Pad
<1>2. call # "UpdateAllComputedFields"
  BY <1>1 DEF UpdateInv, CallSteps
<1>3. IsTyped(packet')
  <2>1. CASE \E i \in DOMAIN packet.headers : HasEthernet(packet, i)
    <3> DEFINE i == CHOOSE i \in DOMAIN packet.headers : HasEthernet(packet, i)
               size == SizeFrom(packet, i + 1)
               zeros == [k \in 1 .. (MinPayload - size) |-> 0]
    <3>1. i \in DOMAIN packet.headers
      BY <2>1
    <3>2. packet' \in {before, packet} \/ (packet' = Padded(packet, i) /\ size # Undefined)
      BY <2>1 DEF Pad, Stop, Proceed
    <3>3. i + 1 \in 1 .. Len(packet.headers) + 1
      BY <3>1, ListsHaveLengths DEF UpdateInv, IsStack
    <3>4. size \in Nat \cup {Undefined}
      BY <3>3, SizesOfRests DEF UpdateInv, StaleInv
    <3>5. Padded(packet, i) = IF MinPayload - size <= 0 THEN packet ELSE [packet EXCEPT !.payload = @ \o zeros]
      BY DEF Padded
    <3> HIDE DEF size, i
    <3>6. size \in Nat => zeros \in Seq(Nat)
      <4> SUFFICES ASSUME size \in Nat PROVE zeros \in Seq(Nat)
        OBVIOUS
      <4> DEFINE n == MinPayload - size
      <4>1. n \in Int
        BY SizesAreNumbers
      <4> HIDE DEF n
      <4>2. [k \in 1 .. n |-> 0] \in Seq(Nat)
        <5>1. CASE n \in Nat
          <6>1. [k \in 1 .. n |-> 0] \in [1 .. n -> Nat]
            OBVIOUS
          <6> QED
            BY <5>1, <6>1, SeqDef
        <5>2. CASE n \notin Nat
          <6>1. 1 .. n = 1 .. 0
            BY <4>1, <5>2
          <6>2. [k \in 1 .. 0 |-> 0] \in [1 .. 0 -> Nat]
            OBVIOUS
          <6>3. [k \in 1 .. 0 |-> 0] \in Seq(Nat)
            BY <6>2, SeqDef
          <6> QED
            BY <6>1, <6>3
        <5> QED
          BY <5>1, <5>2
      <4> QED
        BY <4>2 DEF n
    <3> HIDE DEF zeros
    <3>9. [packet EXCEPT !.payload = @ \o zeros] = [headers |-> packet.headers, payload |-> packet.payload \o zeros]
      <4>1. [packet EXCEPT !.payload = packet.payload \o zeros]
              = [headers |-> packet.headers, payload |-> packet.payload \o zeros]
        BY PayloadReplaced DEF UpdateInv
      <4> QED
        BY <4>1
    <3>10. size \in Nat => packet.payload \o zeros \in Seq(Nat)
      BY <3>6 DEF StaleInv, IsTyped
    <3>11. size \in Nat => IsTyped([packet EXCEPT !.payload = @ \o zeros])
      BY <3>9, <3>10 DEF StaleInv, IsTyped
    <3> QED
      BY <3>2, <3>4, <3>5, <3>11 DEF StaleInv
  <2>2. CASE ~ \E i \in DOMAIN packet.headers : HasEthernet(packet, i)
    BY <2>2 DEF Pad, Proceed, StaleInv
  <2> QED
    BY <2>1, <2>2
<1> QED
  BY <1>1, <1>2, <1>3 DEF StaleInv

LEMMA NextKeepsStaleInv ==
  ASSUME UpdateInv, StaleInv, [Next]_vars
  PROVE  StaleInv'
<1>1. CASE Pad
  BY <1>1, PadKeepsStaleInv
<1>2. CASE UpdateField
  BY <1>2, UpdateFieldKeepsStaleInv
<1>3. CASE NextHeader
  BY <1>3, NextHeaderKeepsStaleInv
<1>4. CASE FinishUpdate
  <2>1. todo # << >> /\ index = 0 /\ packet' = packet /\ UNCHANGED <<before, call, loop>>
    BY <1>4 DEF FinishUpdate, Updating, Proceed
  <2>2. NoneStale' <=> NoneStale
    BY <2>1 DEF NoneStale, loop
  <2> QED
    BY <2>1, <2>2 DEF StaleInv, loop
<1>5. CASE Validate
  <2>1. call # "UpdateAllComputedFields" /\ UNCHANGED <<before, call>> /\ packet' \in {packet, before}
    BY <1>5 DEF Validate, Stop, UpdateInv, CallSteps
  <2> QED
    BY <2>1 DEF StaleInv
<1>6. CASE UNCHANGED vars \/ Aborted
  <2>1. UNCHANGED <<packet, before, call, todo, index, position, result>>
    BY <1>6 DEF Aborted, vars, loop
  <2> QED
    BY <2>1 DEF StaleInv, NoneStale
<1>7. ASSUME NEW i \in DOMAIN packet.headers, NEW f \in FieldsOf(packet.headers[i].case),
             NEW value \in EditValues, EditField(i, f, value)
      PROVE  StaleInv'
  <2>1. packet' = WithValue(packet, i, f, value) /\ todo' = << >> /\ result' = "none" /\ before' = before
    BY <1>7 DEF EditField, WithValue
  <2>2. value \in Nat \cup {Missing, Malformed}
    BY EditValuesAreValues
  <2>3. IsTyped(packet')
    BY <2>1, <2>2, ValueIsTyped DEF UpdateInv, StaleInv
  <2> QED
    BY <2>1, <2>3 DEF StaleInv
<1>8. ASSUME NEW c \in DOMAIN Calls, Call(c) PROVE StaleInv'
  <2>1. /\ packet' = packet /\ before' = packet /\ index' = Len(packet.headers) /\ position' = 1 /\ result' = "none"
    BY <1>8 DEF Call
  <2>2. NoneStale'
    <3> SUFFICES ASSUME NEW i \in DOMAIN packet.headers, NEW k \in DOMAIN ComputedFieldsOf(packet.headers[i])
                 PROVE  ~(i > index' \/ (i = index' /\ k < position'))
      BY <2>1 DEF NoneStale
    <3>1. HasFields(packet.headers[i]) /\ i \in 1 .. Len(packet.headers) /\ Len(packet.headers) \in Nat
      BY ListsHaveLengths DEF UpdateInv, IsStack
    <3>2. k \in 1 .. Len(ComputedFieldsOf(packet.headers[i])) /\ Len(ComputedFieldsOf(packet.headers[i])) \in Nat
      BY <3>1, ComputedFieldsOfAHeader DEF HasFields
    <3> QED
      BY <2>1, <3>1, <3>2
  <2> QED
    BY <2>1, <2>2 DEF StaleInv
<1> QED
  BY <1>1, <1>2, <1>3, <1>4, <1>5, <1>6, <1>7, <1>8 DEF Next, Step

(* What UpdateAllComputedFields has computed is up to date in the packet as *)
(* it is, at any time of the loop.                                          *)
THEOREM ComputedOnceIsEnough == Spec => []StaleInv
<1>1. Init => StaleInv
  <2> SUFFICES ASSUME Init PROVE StaleInv
    OBVIOUS
  <2>1. UpdateInv
    BY InitialUpdateInv
  <2>2. IsTyped(packet)
    <3>1. IsPacket(packet)
      BY InitialPacketsArePackets DEF Init
    <3>2. DOMAIN packet.headers = 1 .. Len(packet.headers)
      BY <2>1, ListsHaveLengths DEF UpdateInv, IsStack
    <3>3. \A i \in DOMAIN packet.headers : HasValues(packet.headers[i])
      BY <3>1, <3>2 DEF IsPacket, IsHeader, HasValues
    <3> QED
      BY <3>1, <3>3 DEF IsPacket, IsTyped
  <2> QED
    BY <2>2 DEF Init, StaleInv
<1> QED
  BY <1>1, NextKeepsStaleInv, UpdateInvariantHolds, PTL DEF Spec

(* UpdateAllComputedFields: for packets of any headers, in any order, every *)
(* computed field is what it should be in the packet that the loop ends     *)
(* with, except the checksum of GRE.                                        *)
THEOREM NothingIsEverStale == Spec => []NothingIsStale
<1>1. UpdateInv /\ StaleInv => NothingIsStale
  <2> SUFFICES ASSUME UpdateInv, StaleInv, Fresh("UpdateAllComputedFields"),
                      NEW i \in DOMAIN packet.headers, NEW f, IsComputed(packet.headers[i], f),
                      ~(packet.headers[i].case = "gre" /\ f = "checksum")
               PROVE  UpToDate(packet, i, f)
    BY DEF NothingIsStale
  <2>1. NoneStale /\ index = 0
    BY DEF StaleInv, Fresh
  <2>2. PICK k \in DOMAIN ComputedFieldsOf(packet.headers[i]) : f = ComputedFieldsOf(packet.headers[i])[k]
    BY DEF IsComputed
  <2>3. i > index
    BY <2>1, ListsHaveLengths DEF UpdateInv, IsStack
  <2> QED
    BY <2>1, <2>2, <2>3 DEF NoneStale
<1> QED
  BY <1>1, ComputedOnceIsEnough, UpdateInvariantHolds, PTL

------------------------------------------------------------------------------
(* Trailers                                                                *)

(* A packet that can be serialized has sizes.                               *)
LEMMA SizesExist ==
  ASSUME NEW p, IsStack(p), IsTyped(p),
         \A m \in DOMAIN p.headers : HeaderSize(p.headers[m]) # Undefined,
         NEW i \in 1 .. Len(p.headers) + 1
  PROVE  SizeFrom(p, i) \in Nat
<1> DEFINE rest == From(p, i)
           sizes == [k \in DOMAIN rest.headers |-> HeaderSize(rest.headers[k])]
<1>1. /\ \A k \in 1 .. Len(rest.headers) :
           i + k - 1 \in DOMAIN p.headers /\ rest.headers[k] = p.headers[i + k - 1]
      /\ IsStack(rest)
  BY Rest
<1>2. IsTyped(rest)
  BY RestIsTyped
<1> HIDE DEF rest
<1>3. DOMAIN rest.headers = 1 .. Len(rest.headers) /\ Len(rest.headers) \in Nat
  BY <1>1, ListsHaveLengths DEF IsStack
<1>4. \A k \in DOMAIN rest.headers : HeaderSize(rest.headers[k]) # Undefined
  BY <1>1, <1>3
<1>5. \A k \in DOMAIN rest.headers : HeaderSize(rest.headers[k]) \in Nat
  BY <1>1, <1>2, <1>4, SizesOfHeaders DEF IsStack, IsTyped
<1>6. sizes \in Seq(Nat)
  <2>1. sizes \in [1 .. Len(rest.headers) -> Nat]
    BY <1>3, <1>5
  <2> HIDE DEF sizes
  <2> QED
    BY <1>3, <2>1, SeqDef
<1>7. PacketSize(rest) = Total(sizes) + Len(rest.payload)
  BY <1>4 DEF PacketSize
<1> HIDE DEF sizes
<1>8. Total(sizes) \in Nat /\ Len(rest.payload) \in Nat
  BY <1>2, <1>6, TotalIsANumber DEF IsTyped
<1> QED
  BY <1>7, <1>8 DEF SizeFrom, rest

LEMMA SerializedPacketsHaveSizes ==
  ASSUME NEW p, IsStack(p), IsTyped(p), RawSerializePacket(p) # Undefined,
         NEW i \in 1 .. Len(p.headers) + 1
  PROVE  SizeFrom(p, i) \in Nat
<1>1. ASSUME NEW m \in DOMAIN p.headers PROVE HeaderSize(p.headers[m]) # Undefined
  <2> DEFINE h == p.headers[m]
  <2>1. HasFields(h) /\ HasValues(h) /\ Serializable(h)
    BY DEF IsStack, IsTyped, RawSerializePacket
  <2> HIDE DEF h
  <2>2. Len(FieldsSent(h)) \in Nat
    BY <2>1, FieldsSentAreAList DEF HasFields
  <2>3. h.options \in Seq(Nat) /\ h.case # "not_set" /\ h.options # Malformed
    BY <2>1 DEF HasValues, Serializable
  <2>4. HeaderSize(h) = Len(FieldsSent(h)) + Len(h.options)
    BY <2>3 DEF HeaderSize
  <2>5. HeaderSize(h) \in Int
    BY <2>2, <2>3, <2>4
  <2> QED
    BY <2>5, MarkersAreNoValues DEF Markers, h
<1> QED
  BY <1>1, SizesExist

WithTrailer(p, t) == [p EXCEPT !.payload = @ \o t]

LEMMA AppendedCellsAreCounted ==
  ASSUME NEW p, IsStack(p), IsTyped(p), NEW t \in Seq(Nat),
         NEW i \in 1 .. Len(p.headers) + 1, SizeFrom(p, i) \in Nat
  PROVE  SizeFrom(WithTrailer(p, t), i) = SizeFrom(p, i) + Len(t)
<1> DEFINE q == WithTrailer(p, t)
           cells == p.payload \o t
           a == From(p, i)
           b == From(q, i)
           sizes == [k \in DOMAIN a.headers |-> HeaderSize(a.headers[k])]
<1>1. q = [headers |-> p.headers, payload |-> cells]
  BY PayloadReplaced DEF WithTrailer
<1>2. Len(cells) = Len(p.payload) + Len(t) /\ Len(p.payload) \in Nat /\ Len(t) \in Nat
  BY DEF IsTyped
<1> HIDE DEF q
<1>3. q.headers = p.headers /\ q.payload = cells
  BY <1>1
<1>4. IsStack(q)
  BY <1>1, <1>3 DEF IsStack
<1>5. a = [headers |-> a.headers, payload |-> p.payload] /\ IsStack(a) /\ IsTyped(a)
  BY Rest, RestIsTyped
<1>6. b = [headers |-> b.headers, payload |-> q.payload]
  BY <1>3, <1>4, Rest
<1>7. b.headers = a.headers
  <2>1. \A x, hs : IsStack(x) => [x EXCEPT !.headers = hs].headers = hs
    BY DEF IsStack
  <2> QED
    BY <1>3, <1>4, <2>1 DEF From
<1> HIDE DEF a, b
<1>8. a.payload = p.payload /\ b.payload = cells
  BY <1>3, <1>5, <1>6
<1>9. /\ PacketSize(a) = IF \E k \in DOMAIN sizes : sizes[k] = Undefined THEN Undefined
                         ELSE Total(sizes) + Len(p.payload)
      /\ PacketSize(b) = IF \E k \in DOMAIN sizes : sizes[k] = Undefined THEN Undefined
                         ELSE Total(sizes) + Len(cells)
  BY <1>7, <1>8 DEF PacketSize
<1>10. PacketSize(a) \in Nat
  BY DEF SizeFrom, a
<1>11. \A k \in DOMAIN sizes : sizes[k] # Undefined
  <2>1. PacketSize(a) # Undefined
    BY <1>10, MarkersAreNoValues DEF Markers
  <2> HIDE DEF sizes
  <2> QED
    BY <1>9, <2>1
<1>12. Total(sizes) \in Nat
  <2>1. DOMAIN a.headers = 1 .. Len(a.headers) /\ Len(a.headers) \in Nat
    BY <1>5, ListsHaveLengths DEF IsStack
  <2>2. \A k \in DOMAIN a.headers : HeaderSize(a.headers[k]) \in Nat
    BY <1>5, <1>11, SizesOfHeaders DEF IsStack, IsTyped
  <2>3. sizes \in [1 .. Len(a.headers) -> Nat] /\ Len(a.headers) \in Nat
    BY <2>1, <2>2
  <2> HIDE DEF sizes
  <2>4. sizes \in Seq(Nat)
    BY <2>3, SeqDef
  <2> QED
    BY <2>4, TotalIsANumber
<1> HIDE DEF sizes, cells
<1>13. PacketSize(b) = PacketSize(a) + Len(t)
  BY <1>2, <1>9, <1>11, <1>12
<1> QED
  BY <1>13 DEF SizeFrom, a, b, q

LEMMA AppendedCellsAreSentLast ==
  ASSUME NEW p, IsStack(p), IsTyped(p), RawSerializePacket(p) # Undefined, NEW t \in Seq(Nat)
  PROVE  /\ WithTrailer(p, t).headers = p.headers
         /\ RawSerializePacket(WithTrailer(p, t)) = RawSerializePacket(p) \o t
<1> DEFINE q == WithTrailer(p, t)
           sent == [i \in DOMAIN p.headers |-> SerializeHeader(p.headers[i])]
           flat == FlattenSeq(sent)
<1>1. q = [headers |-> p.headers, payload |-> p.payload \o t]
  BY PayloadReplaced DEF WithTrailer
<1> HIDE DEF q
<1>2. q.headers = p.headers /\ q.payload = p.payload \o t /\ p.payload \in Seq(Nat)
  BY <1>1 DEF IsTyped
<1>3. \A i \in DOMAIN p.headers : Serializable(p.headers[i])
  BY DEF RawSerializePacket
<1>4. /\ RawSerializePacket(p) = flat \o p.payload
      /\ RawSerializePacket(q) = flat \o (p.payload \o t)
  BY <1>2, <1>3 DEF RawSerializePacket
<1>5. flat \in Seq(Nat)
  <2>1. DOMAIN p.headers = 1 .. Len(p.headers) /\ Len(p.headers) \in Nat
    BY ListsHaveLengths DEF IsStack
  <2>2. \A i \in DOMAIN p.headers : SerializeHeader(p.headers[i]) \in Seq(Nat)
    BY <1>3, SerializedHeaders DEF IsStack, IsTyped
  <2>3. sent \in [1 .. Len(p.headers) -> Seq(Nat)]
    BY <2>1, <2>2
  <2> HIDE DEF sent
  <2>4. sent \in Seq(Seq(Nat))
    BY <2>1, <2>3, SeqDef
  <2> QED
    BY <2>4, FlatSequence
<1> HIDE DEF flat
<1>6. \A x, y, z \in Seq(Nat) : x \o (y \o z) = (x \o y) \o z
  OBVIOUS
<1>7. flat \o (p.payload \o t) = (flat \o p.payload) \o t
  BY <1>2, <1>5, <1>6
<1>8. q.headers = p.headers /\ RawSerializePacket(q) = RawSerializePacket(p) \o t
  BY <1>2, <1>4, <1>7
<1> QED
  BY <1>8 DEF q

LEMMA Flattened ==
  ASSUME NEW raw \in Seq(Nat), NEW t \in Seq(Nat)
  PROVE  SubSeq(raw \o t, Len(raw \o t) - Len(t) + 1, Len(raw \o t)) = t
<1> DEFINE all == raw \o t
           last == SubSeq(all, Len(all) - Len(t) + 1, Len(all))
<1>1. /\ all \in Seq(Nat) /\ Len(all) = Len(raw) + Len(t) /\ Len(raw) \in Nat /\ Len(t) \in Nat
      /\ \A k \in 1 .. Len(t) : all[Len(raw) + k] = t[k]
  BY ConcatProperties
<1> HIDE DEF all
<1>2. /\ last \in Seq(Nat) /\ Len(last) = Len(t)
      /\ \A k \in 1 .. Len(t) : last[k] = all[Len(raw) + k]
  BY <1>1, SubSeqProperties
<1> HIDE DEF last
<1>3. /\ last = [k \in 1 .. Len(last) |-> last[k]]
      /\ t = [k \in 1 .. Len(t) |-> t[k]]
  BY <1>2, ListsHaveLengths DEF IsList
<1>4. \A k \in 1 .. Len(t) : last[k] = t[k]
  BY <1>1, <1>2
<1>5. last = t
  BY <1>2, <1>3, <1>4
<1> QED
  BY <1>5 DEF last, all

LEMMA UpperHeaderIsUnique ==
  ASSUME NEW p, IsStack(p), NEW i, NEW j, IsUpperHeader(p, i), IsUpperHeader(p, j)
  PROVE  i = j
<1>1. Len(p.headers) \in Nat /\ i \in 2 .. Len(p.headers) /\ j \in 2 .. Len(p.headers)
  BY ListsHaveLengths DEF IsStack, IsUpperHeader
<1>2. ~(i < j) /\ ~(j < i)
  BY <1>1 DEF IsUpperHeader
<1> QED
  BY <1>1, <1>2

(* The lengths of IP headers count from the header on, or from the next.    *)
LEMMA LengthsOfIp ==
  ASSUME NEW h, HasFields(h), Serializable(h), NEW f,
         \/ h.case = "ipv4" /\ f = "total_length"
         \/ h.case = "ipv6" /\ f = "payload_length"
  PROVE  f \in FieldsOf(h.case) /\ IsComputed(h, f) /\ h.field[f] \in Nat
<1>1. CASE h.case = "ipv4" /\ f = "total_length"
  <2>1. FieldsSent(h)[3] = f /\ 3 \in DOMAIN FieldsSent(h) /\ FieldsSent(h) = Fields[h.case]
    BY <1>1 DEF FieldsSent, Fields
  <2>2. ComputedFieldsOf(h)[3] = f /\ 3 \in DOMAIN ComputedFieldsOf(h)
    BY <1>1 DEF ComputedFieldsOf, ComputedFields
  <2>3. f \in FieldsOf(h.case)
    BY <2>1 DEF FieldsOf
  <2>4. IsComputed(h, f)
    BY <2>2 DEF IsComputed
  <2>5. h.field[f] \in Nat
    BY <2>1 DEF Serializable
  <2> QED
    BY <2>3, <2>4, <2>5
<1>2. CASE h.case = "ipv6" /\ f = "payload_length"
  <2>1. FieldsSent(h)[2] = f /\ 2 \in DOMAIN FieldsSent(h) /\ FieldsSent(h) = Fields[h.case]
    BY <1>2 DEF FieldsSent, Fields
  <2>2. ComputedFieldsOf(h)[2] = f /\ 2 \in DOMAIN ComputedFieldsOf(h)
    BY <1>2 DEF ComputedFieldsOf, ComputedFields
  <2>3. f \in FieldsOf(h.case)
    BY <2>1 DEF FieldsOf
  <2>4. IsComputed(h, f)
    BY <2>2 DEF IsComputed
  <2>5. h.field[f] \in Nat
    BY <2>1 DEF Serializable
  <2> QED
    BY <2>3, <2>4, <2>5
<1> QED
  BY <1>1, <1>2

LEMMA SmallRemainders ==
  ASSUME NEW m \in Nat, m < 65536
  PROVE  m % 65536 = m
  OBVIOUS

LEMMA ShortLengths ==
  ASSUME NEW n \in Nat, n < WordLimit
  PROVE  Length(n) = n
<1>1. n # Undefined
  BY MarkersAreNoValues DEF Markers
<1>2. n < 65536
  BY DEF WordLimit
<1>3. n % 65536 = n
  BY <1>2, SmallRemainders
<1> QED
  BY <1>1, <1>3 DEF Length, WordLimit

(* After all computed fields were computed, what is appended is found as    *)
(* the trailer, behind any lower headers, as long as lengths do not wrap.   *)
THEOREM TrailersAreAlwaysFound == Spec => []IpTrailersAreFound
<1>1. UpdateInv /\ StaleInv /\ NothingIsStale => IpTrailersAreFound
  <2> DEFINE trailer == <<5, 6>>
             trailed == WithTrailer(packet, trailer)
             raw == RawSerializePacket(packet)
  <2> SUFFICES ASSUME UpdateInv, StaleInv, NothingIsStale, Fresh("UpdateAllComputedFields"),
                      NEW i \in DOMAIN packet.headers,
                      packet.headers[1].case = "ethernet",
                      IsUpperHeader(packet, i),
                      packet.headers[i].case \in {"ipv4", "ipv6"},
                      raw # Undefined,
                      \A j \in {i, i + 1} : SizeFrom(packet, j) < WordLimit
               PROVE  GetEthernetTrailer(trailed) = trailer
    BY DEF IpTrailersAreFound, WithTrailer
  <2> DEFINE h == packet.headers[i]
             f == IF h.case = "ipv4" THEN "total_length" ELSE "payload_length"
             counted == IF h.case = "ipv4" THEN i ELSE i + 1
             size == SizeFrom(packet, counted)
  <2>1. /\ IsStack(packet) /\ IsTyped(packet) /\ trailer \in Seq(Nat) /\ Len(trailer) = 2 /\ trailer # << >>
        /\ DOMAIN packet.headers = 1 .. Len(packet.headers) /\ Len(packet.headers) \in Nat
    BY ListsHaveLengths DEF UpdateInv, StaleInv, IsStack
  <2>2. /\ HasFields(h) /\ Serializable(h)
        /\ \/ h.case = "ipv4" /\ f = "total_length"
           \/ h.case = "ipv6" /\ f = "payload_length"
    <3>1. HasFields(h)
      BY <2>1 DEF IsStack
    <3>2. Serializable(h)
      BY DEF RawSerializePacket
    <3>3. \/ h.case = "ipv4" /\ f = "total_length"
          \/ h.case = "ipv6" /\ f = "payload_length"
      OBVIOUS
    <3> QED
      BY <3>1, <3>2, <3>3
  <2>3. f \in FieldsOf(h.case) /\ IsComputed(h, f) /\ h.field[f] \in Nat
    BY <2>2, LengthsOfIp
  <2>4. counted \in {i, i + 1} /\ i \in Nat /\ i >= 2 /\ counted \in 1 .. Len(packet.headers) + 1
    BY <2>1 DEF IsUpperHeader
  <2>5. size \in Nat /\ size < WordLimit
    BY <2>1, <2>4, SerializedPacketsHaveSizes
  <2>6. UpToDate(packet, i, f)
    BY <2>2, <2>3 DEF NothingIsStale
  <2>7. h.field[f] = ComputedValue(packet, i, f)
    BY <2>2, <2>3, <2>6 DEF UpToDate, ComputedFieldValid
  <2>8. ComputedValue(packet, i, f) = Length(size)
    BY <2>2 DEF ComputedValue, CountedFrom
  <2>9. h.field[f] = size
    BY <2>5, <2>7, <2>8, ShortLengths
  <2> DEFINE all == RawSerializePacket(trailed)
  <2>10. /\ trailed.headers = packet.headers
         /\ SizeFrom(trailed, counted) = size + Len(trailer)
         /\ all = raw \o trailer
    BY <2>1, <2>4, <2>5, AppendedCellsAreCounted, AppendedCellsAreSentLast
  <2>11. raw \in Seq(Nat)
    BY <2>1, SerializedPackets
  <2>12. all \in Seq(Nat) /\ all # Undefined /\ SubSeq(all, Len(all) - Len(trailer) + 1, Len(all)) = trailer
    <3> HIDE DEF raw, all, trailer
    <3>1. all = raw \o trailer
      BY <2>10
    <3>2. SubSeq(raw \o trailer, Len(raw \o trailer) - Len(trailer) + 1, Len(raw \o trailer)) = trailer
      BY <2>1, <2>11, Flattened
    <3>3. raw \o trailer \in Seq(Nat)
      BY <2>1, <2>11
    <3>4. Undefined \notin Seq(Nat)
      BY MarkersAreNoValues DEF Markers
    <3>5. all \in Seq(Nat)
      BY <3>1, <3>3
    <3>6. SubSeq(all, Len(all) - Len(trailer) + 1, Len(all)) = trailer
      BY <3>1, <3>2
    <3> QED
      BY <3>4, <3>5, <3>6
  <2>13. \A j : IsUpperHeader(trailed, j) <=> j = i
    <3>1. \A j : IsUpperHeader(trailed, j) <=> IsUpperHeader(packet, j)
      BY <2>10 DEF IsUpperHeader
    <3> QED
      BY <2>1, <3>1, UpperHeaderIsUnique
  <2>14. i = CHOOSE j \in DOMAIN trailed.headers : IsUpperHeader(trailed, j)
    BY <2>10, <2>13
  <2> HIDE DEF trailed, all, raw, size
  <2>15. /\ trailed.headers # << >> /\ trailed.headers[1].case = "ethernet"
         /\ \E j \in DOMAIN trailed.headers : IsUpperHeader(trailed, j)
    BY <2>1, <2>10, <2>13
  <2> DEFINE After(claimed, actual) ==
        IF claimed \notin Nat \/ actual = Undefined THEN Undefined
        ELSE IF actual < claimed THEN << >>
        ELSE SubSeq(all, Len(all) - (actual - claimed) + 1, Len(all))
  <2>16. GetEthernetTrailer(trailed) = After(h.field[f], SizeFrom(trailed, counted))
    <3>1. CASE h.case = "ipv4"
      BY <2>10, <2>12, <2>14, <2>15, <3>1 DEF GetEthernetTrailer, all
    <3>2. CASE h.case = "ipv6"
      BY <2>10, <2>12, <2>14, <2>15, <3>2 DEF GetEthernetTrailer, all
    <3> QED
      BY <3>1, <3>2
  <2> HIDE DEF trailer
  <2>17. /\ size + Len(trailer) # Undefined /\ ~(size + Len(trailer) < size)
         /\ (size + Len(trailer)) - size = Len(trailer)
    <3>1. Undefined \notin Int
      BY MarkersAreNoValues DEF Markers
    <3> QED
      BY <2>1, <2>5, <3>1
  <2>18. After(size, size + Len(trailer)) = SubSeq(all, Len(all) - Len(trailer) + 1, Len(all))
    BY <2>5, <2>17
  <2> QED
    BY <2>9, <2>10, <2>12, <2>16, <2>18
<1> QED
  BY <1>1, NothingIsEverStale, ComputedOnceIsEnough, UpdateInvariantHolds, PTL

------------------------------------------------------------------------------
(* Completing packets: what computing a field leaves of the rest           *)

NextCases ==
  {"error", "unsupported", "not_set", "ipv4", "ipv6", "arp", "vlan", "ptp", "csig", "csig_wide",
   "tcp", "udp", "gre", "icmp", "ipfix", "psp", "ib_bth", "psamp", "hop_by_hop"}

LEMMA NextHeaders ==
  ASSUME NEW h, h.case \in HeaderCases
  PROVE  /\ GetNextHeader(h) \in NextCases \/ GetNextHeader(h) = "ethernet"
         /\ GetNextHeader(h) = "ethernet" <=> h.case = "packet_in"
<1>1. /\ \A e : NextHeaderForEtherType(e) \in NextCases
      /\ \A e : NextHeaderForProtocol(e) \in NextCases
      /\ \A e : NextHeaderForPort(e) \in NextCases
      /\ \A e : NextHeaderForPsp(e) \in NextCases
  <2>1. \A e : NextHeaderForEtherType(e) \in NextCases
    BY DEF NextHeaderForEtherType, NextCases
  <2>2. \A e : NextHeaderForProtocol(e) \in NextCases
    BY DEF NextHeaderForProtocol, NextCases
  <2>3. \A e : NextHeaderForPort(e) \in NextCases
    BY DEF NextHeaderForPort, NextCases
  <2>4. \A e : NextHeaderForPsp(e) \in NextCases
    BY DEF NextHeaderForPsp, NextCases
  <2> QED
    BY <2>1, <2>2, <2>3, <2>4
<1>2. "ethernet" \notin NextCases /\ {"icmp", "ipfix", "psamp", "unsupported", "not_set", "hop_by_hop"} \subseteq NextCases
  BY DEF NextCases
<1>3. CASE h.case \in {"ethernet", "vlan", "csig", "csig_wide", "gre"}
  BY <1>1, <1>2, <1>3 DEF GetNextHeader
<1>4. CASE h.case \in {"packet_in", "ipfix", "udp", "psp"}
  BY <1>1, <1>2, <1>4 DEF GetNextHeader
<1>5. CASE h.case \in {"ipv4", "ipv6", "hop_by_hop"}
  BY <1>1, <1>2, <1>5 DEF GetNextHeader
<1>6. CASE h.case \notin {"ethernet", "vlan", "csig", "csig_wide", "gre", "packet_in", "ipfix", "udp", "psp",
                          "ipv4", "ipv6", "hop_by_hop"}
  BY <1>1, <1>2, <1>6 DEF GetNextHeader
<1> QED
  BY <1>3, <1>4, <1>5, <1>6

LEMMA ExpectedHeaders ==
  ASSUME NEW h, h.case \in HeaderCases
  PROVE  /\ ExpectedHeaderCase(h) # "packet_in"
         /\ ExpectedHeaderCase(h) = "ethernet" => h.case = "packet_in"
<1>1. "packet_in" \notin NextCases
  BY DEF NextCases
<1> QED
  BY <1>1, NextHeaders DEF ExpectedHeaderCase

LEMMA ShortestOptions ==
  ASSUME NEW h, HasFields(h)
  PROVE  /\ WithShortestOptions(h).case = h.case
         /\ h.case # "hop_by_hop" => WithShortestOptions(h) = h
         /\ h.case = "hop_by_hop" =>
              /\ WithShortestOptions(h).field.header_extension_length = 0
              /\ WithShortestOptions(h).field.next_header = h.field.next_header
              /\ h.field.header_extension_length = 0 => WithShortestOptions(h) = h
<1>1. CASE h.case # "hop_by_hop"
  BY <1>1 DEF WithShortestOptions
<1>2. CASE h.case = "hop_by_hop"
  <2> DEFINE new == WithField(h, "header_extension_length", 0)
  <2>1. "header_extension_length" \in FieldsOf(h.case) /\ "next_header" \in FieldsOf(h.case)
    BY <1>2 DEF FieldsOf, Fields
  <2>2. /\ HasFields(new) /\ new.case = h.case /\ new.options = h.options
        /\ new.field.header_extension_length = 0
        /\ \A g \in FieldsOf(h.case) : g # "header_extension_length" => new.field[g] = h.field[g]
    BY <2>1, FieldIsReplaced
  <2> HIDE DEF new
  <2>3. ASSUME h.field.header_extension_length = 0 PROVE new = h
    <3>1. \A g \in FieldsOf(h.case) : new.field[g] = h.field[g]
      BY <2>2, <2>3
    <3>2. new.field = h.field
      BY <2>2, <3>1 DEF HasFields
    <3> QED
      BY <2>2, <3>2 DEF HasFields
  <2>4. WithShortestOptions(h) = new
    BY <1>2 DEF WithShortestOptions, new
  <2> QED
    BY <1>2, <2>1, <2>2, <2>3, <2>4
<1> QED
  BY <1>1, <1>2

(* No computed field but an EtherType decides about the next header.        *)
LEMMA ComputingKeepsTheNextHeader ==
  ASSUME NEW h, HasFields(h), NEW f, IsComputed(h, f), f # "ethertype", NEW v
  PROVE  ExpectedHeaderCase(WithShortestOptions(WithField(h, f, v)))
           = ExpectedHeaderCase(WithShortestOptions(h))
<1> DEFINE new == WithField(h, f, v)
<1>1. h.case \in HeaderCases /\ f \in FieldsOf(h.case)
  BY ComputedFieldsAreFields DEF HasFields
<1>2. /\ HasFields(new) /\ new.case = h.case
      /\ \A g \in FieldsOf(h.case) : g # f => new.field[g] = h.field[g]
  BY <1>1, FieldIsReplaced
<1> HIDE DEF new
<1>3. PICK k \in DOMAIN ComputedFieldsOf(h) : f = ComputedFieldsOf(h)[k]
  BY DEF IsComputed
<1>4. /\ h.case \in DOMAIN ComputedFields /\ ComputedFieldsOf(h) = ComputedFields[h.case]
  BY <1>3 DEF ComputedFieldsOf
<1>5. h.case \in {"ethernet", "ipv4", "ipv6", "hop_by_hop", "udp", "arp", "icmp", "tcp",
                  "gre", "packet_in", "ipfix", "psamp", "ptp"}
  BY <1>4 DEF ComputedFields
<1>6. h.case # "ethernet"
  BY <1>1, <1>3, ComputedFieldsOfHeaders
<1>7. CASE h.case = "hop_by_hop"
  <2>1. "next_header" \in FieldsOf(h.case) /\ f # "next_header"
    BY <1>3, <1>4, <1>7 DEF FieldsOf, Fields, ComputedFields
  <2>2. new.field.next_header = h.field.next_header
    BY <1>2, <2>1
  <2>3. GetNextHeader(WithShortestOptions(new)) = GetNextHeader(WithShortestOptions(h))
    BY <1>2, <1>7, <2>2, ShortestOptions DEF GetNextHeader
  <2> QED
    BY <2>3 DEF ExpectedHeaderCase, new
<1>8. CASE h.case = "ipv4"
  <2>1. "protocol" \in FieldsOf(h.case) /\ f # "protocol"
    BY <1>3, <1>4, <1>8 DEF FieldsOf, Fields, ComputedFields
  <2>2. new.field.protocol = h.field.protocol
    BY <1>2, <2>1
  <2>3. GetNextHeader(WithShortestOptions(new)) = GetNextHeader(WithShortestOptions(h))
    BY <1>2, <1>8, <2>2, ShortestOptions DEF GetNextHeader
  <2> QED
    BY <2>3 DEF ExpectedHeaderCase, new
<1>9. CASE h.case = "ipv6"
  <2>1. "next_header" \in FieldsOf(h.case) /\ f # "next_header"
    BY <1>3, <1>4, <1>9 DEF FieldsOf, Fields, ComputedFields
  <2>2. new.field.next_header = h.field.next_header
    BY <1>2, <2>1
  <2>3. GetNextHeader(WithShortestOptions(new)) = GetNextHeader(WithShortestOptions(h))
    BY <1>2, <1>9, <2>2, ShortestOptions DEF GetNextHeader
  <2> QED
    BY <2>3 DEF ExpectedHeaderCase, new
<1>10. CASE h.case = "udp"
  <2>1. "destination_port" \in FieldsOf(h.case) /\ f # "destination_port"
    BY <1>3, <1>4, <1>10 DEF FieldsOf, Fields, ComputedFields
  <2>2. new.field.destination_port = h.field.destination_port
    BY <1>2, <2>1
  <2>3. GetNextHeader(WithShortestOptions(new)) = GetNextHeader(WithShortestOptions(h))
    BY <1>2, <1>10, <2>2, ShortestOptions DEF GetNextHeader
  <2> QED
    BY <2>3 DEF ExpectedHeaderCase, new
<1>11. CASE h.case = "gre"
  <2>1. "protocol_type" \in FieldsOf(h.case) /\ f # "protocol_type"
    BY <1>3, <1>4, <1>11 DEF FieldsOf, Fields, ComputedFields
  <2>2. new.field.protocol_type = h.field.protocol_type
    BY <1>2, <2>1
  <2>3. GetNextHeader(WithShortestOptions(new)) = GetNextHeader(WithShortestOptions(h))
    BY <1>2, <1>11, <2>2, ShortestOptions DEF GetNextHeader
  <2> QED
    BY <2>3 DEF ExpectedHeaderCase, new
<1>12. CASE h.case \in {"arp", "icmp", "tcp", "packet_in", "ipfix", "psamp", "ptp"}
  <2>1. GetNextHeader(WithShortestOptions(new)) = GetNextHeader(WithShortestOptions(h))
    BY <1>2, <1>12, ShortestOptions DEF GetNextHeader
  <2> QED
    BY <2>1 DEF ExpectedHeaderCase, new
<1> QED
  BY <1>5, <1>6, <1>7, <1>8, <1>9, <1>10, <1>11, <1>12

(* An EtherType that is missing or a size demands nothing.                  *)
LEMMA NothingFollowsASize ==
  ASSUME NEW h, h.case = "ethernet", h.field.ethertype = Missing \/ h.field.ethertype \in 0 .. Mtu
  PROVE  ExpectedHeaderCase(h) = "not_set"
<1>1. Missing \notin Int
  BY MarkersAreNoValues DEF Markers
<1>2. Mtu \in Nat /\ Mtu <= 1535
  BY SizesAreNumbers
<1>3. NextHeaderForEtherType(h.field.ethertype) \in {"error", "not_set"}
  <2>1. CASE h.field.ethertype = Missing
    BY <1>1, <2>1 DEF NextHeaderForEtherType
  <2>2. CASE h.field.ethertype \in 0 .. Mtu
    <3>1. h.field.ethertype \in Nat /\ h.field.ethertype <= 1535
      BY <1>2, <2>2
    <3> QED
      BY <3>1 DEF NextHeaderForEtherType
  <2> QED
    BY <2>1, <2>2
<1> QED
  BY <1>3 DEF ExpectedHeaderCase, GetNextHeader

------------------------------------------------------------------------------
(* Packets that are being completed                                        *)

Shortest(headers) == [i \in DOMAIN headers |-> WithShortestOptions(headers[i])]

(* What the caller has to give, or leaves to the update.                    *)
IsGiven(p, i) ==
  LET h == p.headers[i]
  IN  /\ h.case # "not_set" /\ h.options # Malformed /\ Len(h.options) <= 10
      /\ \A f \in FieldsOf(h.case) :
           \/ h.field[f] \in Nat
           \/ h.field[f] = Missing /\ IsComputed(h, f)
           \/ h.field[f] = Missing /\ h.case = "gre" /\ f \in GreOptionals /\ ~HasOptionals(h)
      /\ h.case = "gre" =>
           /\ h.field.reserved0 = 0 /\ h.field.version = 0
           /\ HasOptionals(h) => h.field.reserved1 = 0
           /\ ~HasOptionals(h) => \A f \in GreOptionals : h.field[f] = Missing
      /\ h.case \in {"udp", "icmp"} => FindPrecedingIpHeader(p, i) > 0

(* An EtherType is that of the next header, or will be the size.            *)
IsFramed(p, i) ==
  LET h == p.headers[i]
  IN  h.case = "ethernet" =>
        \/ h.field.ethertype \in Nat /\ (h.field.ethertype > Mtu \/ i = Len(p.headers))
        \/ h.field.ethertype = Missing /\ i = Len(p.headers) /\ SizeFrom(p, i + 1) <= Mtu

IsCompletable(p) ==
  /\ p.headers # << >> /\ OrderValid(Shortest(p.headers))
  /\ \A i \in DOMAIN p.headers : IsGiven(p, i) /\ IsFramed(p, i)

IsPadded(p) ==
  \A i \in DOMAIN p.headers : p.headers[i].case = "ethernet" => SizeFrom(p, i + 1) >= MinPayload

(* A computed field before and after the loop gets to it.                   *)
IsOpen(h, f) ==
  IF f = "ethertype" THEN h.field[f] \notin 0 .. Mtu
  ELSE f # "reserved1" => h.field[f] = Missing

IsDone(p, i, f) ==
  /\ p.headers[i].field[f] \in Nat /\ UpToDate(p, i, f)
  /\ f = "header_extension_length" => p.headers[i].field[f] = 0

IsCompletedTo(p, j, pos) ==
  \A i \in DOMAIN p.headers : \A k \in DOMAIN ComputedFieldsOf(p.headers[i]) :
    LET f == ComputedFieldsOf(p.headers[i])[k]
    IN  IF i > j \/ (i = j /\ k < pos) THEN IsDone(p, i, f) ELSE IsOpen(p.headers[i], f)

LEMMA CompletablePacketsHaveSizes ==
  ASSUME NEW p, IsStack(p), IsTyped(p), IsCompletable(p), NEW i \in 1 .. Len(p.headers) + 1
  PROVE  SizeFrom(p, i) \in Nat
<1>1. ASSUME NEW m \in DOMAIN p.headers PROVE HeaderSize(p.headers[m]) # Undefined
  <2> DEFINE h == p.headers[m]
  <2>1. HasFields(h) /\ HasValues(h) /\ h.case # "not_set" /\ h.options # Malformed
    BY DEF IsStack, IsTyped, IsCompletable, IsGiven
  <2> HIDE DEF h
  <2>2. Len(FieldsSent(h)) \in Nat
    BY <2>1, FieldsSentAreAList DEF HasFields
  <2>3. h.options \in Seq(Nat)
    BY <2>1 DEF HasValues
  <2>4. HeaderSize(h) = Len(FieldsSent(h)) + Len(h.options)
    BY <2>1 DEF HeaderSize
  <2>5. HeaderSize(h) \in Int
    BY <2>2, <2>3, <2>4
  <2> QED
    BY <2>5, MarkersAreNoValues DEF Markers, h
<1> QED
  BY <1>1, SizesExist

(* A header of which all computed fields are done can be sent.              *)
LEMMA DoneHeadersAreSerializable ==
  ASSUME NEW p, IsStack(p), IsCompletable(p), NEW i \in DOMAIN p.headers,
         \A f : IsComputed(p.headers[i], f) => p.headers[i].field[f] \in Nat
  PROVE  Serializable(p.headers[i])
<1> DEFINE h == p.headers[i]
<1>1. HasFields(h) /\ h.case \in HeaderCases /\ IsGiven(p, i)
  BY DEF IsStack, HasFields, IsCompletable
<1>2. h.case # "not_set" /\ h.options # Malformed
  BY <1>1 DEF IsGiven
<1>3. ASSUME NEW k \in DOMAIN FieldsSent(h) PROVE h.field[FieldsSent(h)[k]] \in Nat
  <2> DEFINE f == FieldsSent(h)[k]
  <2>1. f \in FieldsOf(h.case) /\ (h.case = "gre" /\ ~HasOptionals(h) => f \notin GreOptionals)
    <3>1. CASE h.case = "gre" /\ ~HasOptionals(h)
      <4> DEFINE names == Fields.gre
                 first == SubSeq(names, 1, 4)
      <4>1. names \in Seq(FieldNames) /\ Len(names) = 6
        BY DEF Fields, FieldNames
      <4>2. f \in {"checksum_present", "reserved0", "version", "protocol_type"}
        <5>1. names[1] = "checksum_present" /\ names[2] = "reserved0" /\ names[3] = "version"
              /\ names[4] = "protocol_type"
          BY DEF Fields
        <5>2. f = first[k] /\ k \in DOMAIN first
          BY <3>1 DEF FieldsSent
        <5> HIDE DEF names, f
        <5>3. /\ first \in Seq(FieldNames) /\ Len(first) = 4
              /\ \A m \in 1 .. 4 : first[m] = names[m]
          <6>1. \A m \in 1 .. 4 : m \in Int /\ 1 + m - 1 = m
            OBVIOUS
          <6>2. /\ first \in Seq(FieldNames) /\ Len(first) = 4 - 1 + 1
                /\ \A m \in 1 .. 4 - 1 + 1 : first[m] = names[1 + m - 1]
            <7>1. 1 \in 1 .. Len(names) + 1 /\ 4 \in 1 - 1 .. Len(names)
              BY <4>1
            <7>2. names \in Seq(FieldNames)
              BY <4>1
            <7> QED
              BY <7>1, <7>2, SubSeqProperties
          <6> QED
            BY <6>1, <6>2
        <5>4. DOMAIN first = 1 .. 4
          BY <5>3
        <5> HIDE DEF first
        <5> QED
          BY <5>1, <5>2, <5>3, <5>4
      <4>3. {"checksum_present", "reserved0", "version", "protocol_type"} \subseteq FieldsOf("gre")
        BY DEF FieldsOf, Fields
      <4> QED
        BY <3>1, <4>2, <4>3 DEF GreOptionals
    <3>2. CASE ~(h.case = "gre" /\ ~HasOptionals(h))
      BY <3>2 DEF FieldsSent, FieldsOf
    <3> QED
      BY <3>1, <3>2
  <2> QED
    BY <1>1, <2>1 DEF IsGiven
<1> QED
  BY <1>2, <1>3 DEF Serializable

(* Only the value of the field f of the j-th header is another one in q.   *)
OnlyValueDiffers(p, q, j, f) ==
  /\ IsStack(q) /\ q.payload = p.payload
  /\ DOMAIN q.headers = DOMAIN p.headers /\ Len(q.headers) = Len(p.headers)
  /\ \A i \in DOMAIN p.headers :
       /\ i # j => q.headers[i] = p.headers[i]
       /\ q.headers[i].case = p.headers[i].case /\ q.headers[i].options = p.headers[i].options
       /\ ComputedFieldsOf(q.headers[i]) = ComputedFieldsOf(p.headers[i])
       /\ HasOptionals(q.headers[i]) <=> HasOptionals(p.headers[i])
       /\ \A g \in FieldsOf(p.headers[i].case) :
            i # j \/ g # f => q.headers[i].field[g] = p.headers[i].field[g]
  /\ \A i \in 1 .. Len(p.headers) + 1 : SizeFrom(q, i) = SizeFrom(p, i)

LEMMA ComputingLeavesOtherFields ==
  ASSUME NEW p, IsStack(p), NEW j \in DOMAIN p.headers, NEW f, IsComputed(p.headers[j], f), NEW v
  PROVE  /\ OnlyValueDiffers(p, WithValue(p, j, f, v), j, f)
         /\ f \in FieldsOf(p.headers[j].case) /\ WithValue(p, j, f, v).headers[j].field[f] = v
<1> DEFINE q == WithValue(p, j, f, v)
           h == p.headers[j]
           new == WithField(h, f, v)
<1>1. HasFields(h) /\ h.case \in HeaderCases
  BY DEF IsStack, HasFields
<1>2. f \in FieldsOf(h.case)
  BY <1>1, ComputedFieldsAreFields
<1>3. /\ IsStack(q) /\ q.payload = p.payload
      /\ DOMAIN q.headers = DOMAIN p.headers /\ Len(q.headers) = Len(p.headers)
      /\ q.headers[j] = new
      /\ \A i \in DOMAIN p.headers : i # j => q.headers[i] = p.headers[i]
  BY <1>2, ValueIsReplaced
<1>4. /\ HasFields(new) /\ new.case = h.case /\ new.options = h.options /\ new.field[f] = v
      /\ \A g \in FieldsOf(h.case) : g # f => new.field[g] = h.field[g]
  BY <1>1, <1>2, FieldIsReplaced
<1>5. HeaderSize(new) = HeaderSize(h)
  BY <1>1, <1>2, SameHeaderSize
<1> HIDE DEF q, new
<1>6. ComputedFieldsOf(new) = ComputedFieldsOf(h) /\ (HasOptionals(new) <=> HasOptionals(h))
  BY <1>1, <1>4, ComputingKeepsTheList
<1>7. \A i \in 1 .. Len(p.headers) + 1 : SizeFrom(q, i) = SizeFrom(p, i)
  <2>1. \A i \in DOMAIN p.headers : HeaderSize(q.headers[i]) = HeaderSize(p.headers[i])
    BY <1>3, <1>5
  <2> QED
    BY <1>3, <2>1, SameSizes
<1>8. \A i \in DOMAIN p.headers :
        /\ i # j => q.headers[i] = p.headers[i]
        /\ q.headers[i].case = p.headers[i].case /\ q.headers[i].options = p.headers[i].options
        /\ ComputedFieldsOf(q.headers[i]) = ComputedFieldsOf(p.headers[i])
        /\ HasOptionals(q.headers[i]) <=> HasOptionals(p.headers[i])
        /\ \A g \in FieldsOf(p.headers[i].case) :
             i # j \/ g # f => q.headers[i].field[g] = p.headers[i].field[g]
  <2> SUFFICES ASSUME NEW i \in DOMAIN p.headers
               PROVE  /\ i # j => q.headers[i] = p.headers[i]
                      /\ q.headers[i].case = p.headers[i].case /\ q.headers[i].options = p.headers[i].options
                      /\ ComputedFieldsOf(q.headers[i]) = ComputedFieldsOf(p.headers[i])
                      /\ HasOptionals(q.headers[i]) <=> HasOptionals(p.headers[i])
                      /\ \A g \in FieldsOf(p.headers[i].case) :
                           i # j \/ g # f => q.headers[i].field[g] = p.headers[i].field[g]
    OBVIOUS
  <2>1. CASE i = j
    BY <1>3, <1>4, <1>6, <2>1
  <2>2. CASE i # j
    BY <1>3, <2>2
  <2> QED
    BY <2>1, <2>2
<1>9. OnlyValueDiffers(p, q, j, f)
  BY <1>3, <1>7, <1>8 DEF OnlyValueDiffers
<1> QED
  BY <1>2, <1>3, <1>4, <1>9 DEF q

LEMMA SamePrecedingHeader ==
  ASSUME NEW p, NEW q, IsStack(p), NEW i \in DOMAIN p.headers,
         \A m \in DOMAIN p.headers : q.headers[m].case = p.headers[m].case
  PROVE  FindPrecedingIpHeader(q, i) = FindPrecedingIpHeader(p, i)
<1>1. i > 1 => i - 1 \in DOMAIN p.headers
  BY ListsHaveLengths DEF IsStack
<1> QED
  BY <1>1 DEF FindPrecedingIpHeader

(* Headers stay in order when a computed field gets its value.              *)
LEMMA OrderIsKept ==
  ASSUME NEW p, NEW q, IsStack(p), IsStack(q), Len(q.headers) = Len(p.headers),
         \A i \in DOMAIN p.headers :
           /\ q.headers[i].case = p.headers[i].case
           /\ ExpectedHeaderCase(WithShortestOptions(q.headers[i]))
                = ExpectedHeaderCase(WithShortestOptions(p.headers[i])),
         OrderValid(Shortest(p.headers))
  PROVE  OrderValid(Shortest(q.headers))
<1> DEFINE a == Shortest(p.headers)
           b == Shortest(q.headers)
           n == Len(p.headers)
<1>1. /\ DOMAIN p.headers = 1 .. n /\ DOMAIN q.headers = 1 .. n /\ n \in Nat
  BY ListsHaveLengths DEF IsStack
<1>2. /\ Len(a) = n /\ Len(b) = n
      /\ \A i \in 1 .. n : a[i] = WithShortestOptions(p.headers[i]) /\ b[i] = WithShortestOptions(q.headers[i])
      /\ a # << >> <=> n # 0
      /\ b # << >> <=> n # 0
  <2>1. a = [i \in 1 .. n |-> WithShortestOptions(p.headers[i])]
    BY <1>1 DEF Shortest
  <2>2. b = [i \in 1 .. n |-> WithShortestOptions(q.headers[i])]
    BY <1>1 DEF Shortest
  <2> QED
    BY <1>1, <2>1, <2>2
<1>3. \A i \in 1 .. n : a[i].case = b[i].case /\ ExpectedHeaderCase(a[i]) = ExpectedHeaderCase(b[i])
  <2>1. \A i \in 1 .. n : HasFields(p.headers[i]) /\ HasFields(q.headers[i])
    BY <1>1 DEF IsStack
  <2> QED
    BY <1>1, <1>2, <2>1, ShortestOptions
<1>4. OrderValid(a)
  BY DEF a
<1> HIDE DEF a, b, n
<1>5. OrderValid(b)
  BY <1>1, <1>2, <1>3, <1>4 DEF OrderValid
<1> QED
  BY <1>5 DEF b

LEMMA ComputedFieldsOfGre ==
  ASSUME NEW h, h.case = "gre", NEW f, IsComputed(h, f)
  PROVE  HasOptionals(h) /\ f \in GreOptionals
<1>1. PICK k \in DOMAIN ComputedFieldsOf(h) : f = ComputedFieldsOf(h)[k]
  BY DEF IsComputed
<1>2. HasOptionals(h) /\ ComputedFieldsOf(h) = ComputedFields.gre
  BY <1>1 DEF ComputedFieldsOf
<1>3. ComputedFields.gre = <<"checksum", "reserved1">>
  BY DEF ComputedFields
<1> QED
  BY <1>1, <1>2, <1>3 DEF GreOptionals

(* A value that is filled in leaves what the caller has given.              *)
LEMMA StaysCompletable ==
  ASSUME NEW p, IsStack(p), IsCompletable(p), IsPadded(p),
         NEW j \in DOMAIN p.headers, NEW f, IsComputed(p.headers[j], f), NEW v \in Nat,
         f = "reserved1" => v = 0,
         f = "ethertype" => j = Len(p.headers) /\ v <= Mtu /\ p.headers[j].field[f] = Missing
  PROVE  IsCompletable(WithValue(p, j, f, v)) /\ IsPadded(WithValue(p, j, f, v))
<1> DEFINE q == WithValue(p, j, f, v)
           h == p.headers[j]
           new == q.headers[j]
<1>1. /\ IsStack(q) /\ DOMAIN q.headers = DOMAIN p.headers /\ Len(q.headers) = Len(p.headers)
      /\ f \in FieldsOf(h.case) /\ new.field[f] = v
      /\ \A i \in DOMAIN p.headers :
           /\ i # j => q.headers[i] = p.headers[i]
           /\ q.headers[i].case = p.headers[i].case /\ q.headers[i].options = p.headers[i].options
           /\ ComputedFieldsOf(q.headers[i]) = ComputedFieldsOf(p.headers[i])
           /\ HasOptionals(q.headers[i]) <=> HasOptionals(p.headers[i])
           /\ \A g \in FieldsOf(p.headers[i].case) :
                i # j \/ g # f => q.headers[i].field[g] = p.headers[i].field[g]
      /\ \A i \in 1 .. Len(p.headers) + 1 : SizeFrom(q, i) = SizeFrom(p, i)
  <2>1. OnlyValueDiffers(p, q, j, f) /\ f \in FieldsOf(h.case) /\ new.field[f] = v
    BY ComputingLeavesOtherFields
  <2> HIDE DEF q
  <2> QED
    BY <2>1 DEF OnlyValueDiffers
<1>2. DOMAIN p.headers = 1 .. Len(p.headers) /\ Len(p.headers) \in Nat
  BY ListsHaveLengths DEF IsStack
<1>3. HasFields(h) /\ h.case \in HeaderCases
  BY DEF IsStack, HasFields
<1>4. f = "ethertype" <=> h.case = "ethernet"
  BY <1>3, ComputedFieldsOfHeaders DEF IsComputed
<1>5. new = WithField(h, f, v)
  <2>1. q.headers[j] = WithField(h, f, v)
    BY <1>1, ValueIsReplaced
  <2> QED
    BY <2>1
<1> HIDE DEF q
<1>6. ASSUME NEW i \in DOMAIN p.headers PROVE IsGiven(q, i) /\ IsFramed(q, i)
  <2>1. IsGiven(p, i) /\ IsFramed(p, i)
    BY DEF IsCompletable
  <2>2. FindPrecedingIpHeader(q, i) = FindPrecedingIpHeader(p, i)
    BY <1>1, SamePrecedingHeader
  <2>3. i + 1 \in 1 .. Len(p.headers) + 1
    BY <1>2
  <2>4. CASE i # j
    <3>1. q.headers[i] = p.headers[i] /\ SizeFrom(q, i + 1) = SizeFrom(p, i + 1)
      BY <1>1, <2>3, <2>4
    <3> QED
      BY <1>1, <2>1, <2>2, <3>1 DEF IsGiven, IsFramed
  <2>5. CASE i = j
    <3>1. new.case = h.case /\ new.options = h.options /\ (HasOptionals(new) <=> HasOptionals(h))
          /\ ComputedFieldsOf(new) = ComputedFieldsOf(h)
      BY <1>1
    <3>2. \A g \in FieldsOf(h.case) : new.field[g] = h.field[g] \/ (g = f /\ new.field[g] \in Nat)
      BY <1>1
    <3>3. \A g : IsComputed(new, g) <=> IsComputed(h, g)
      BY <3>1 DEF IsComputed
    <3> DEFINE Given(x, g) == \/ x.field[g] \in Nat
                              \/ x.field[g] = Missing /\ IsComputed(x, g)
                              \/ x.field[g] = Missing /\ x.case = "gre" /\ g \in GreOptionals /\ ~HasOptionals(x)
    <3>4. \A g \in FieldsOf(new.case) : Given(new, g)
      <4>1. \A g \in FieldsOf(h.case) : Given(h, g)
        BY <2>1, <2>5 DEF IsGiven
      <4> QED
        BY <3>1, <3>2, <3>3, <4>1
    <3>5. new.case = "gre" =>
            /\ new.field.reserved0 = 0 /\ new.field.version = 0
            /\ HasOptionals(new) => new.field.reserved1 = 0
            /\ ~HasOptionals(new) => \A g \in GreOptionals : new.field[g] = Missing
      <4> SUFFICES ASSUME h.case = "gre"
                   PROVE  /\ new.field.reserved0 = 0 /\ new.field.version = 0
                          /\ HasOptionals(h) /\ new.field.reserved1 = 0
        BY <3>1
      <4>1. HasOptionals(h) /\ f \in GreOptionals
        BY ComputedFieldsOfGre
      <4>2. {"reserved0", "version", "reserved1"} \subseteq FieldsOf(h.case)
        BY DEF FieldsOf, Fields
      <4>3. h.field.reserved0 = 0 /\ h.field.version = 0 /\ h.field.reserved1 = 0
        BY <2>1, <2>5, <4>1 DEF IsGiven
      <4>4. f # "reserved0" /\ f # "version"
        BY <4>1 DEF GreOptionals
      <4>5. new.field.reserved0 = 0 /\ new.field.version = 0
        BY <1>1, <4>2, <4>3, <4>4
      <4>6. new.field.reserved1 = 0
        BY <1>1, <4>2, <4>3
      <4> QED
        BY <4>1, <4>5, <4>6
    <3>6. IsGiven(q, i)
      BY <2>1, <2>2, <2>5, <3>1, <3>4, <3>5 DEF IsGiven
    <3>7. IsFramed(q, i)
      BY <1>1, <1>4, <2>5, <3>1 DEF IsFramed
    <3> QED
      BY <3>6, <3>7
  <2> QED
    BY <2>4, <2>5
<1>7. \A i \in DOMAIN p.headers :
        ExpectedHeaderCase(WithShortestOptions(q.headers[i])) = ExpectedHeaderCase(WithShortestOptions(p.headers[i]))
  <2>1. CASE f # "ethertype"
    <3>1. ExpectedHeaderCase(WithShortestOptions(new)) = ExpectedHeaderCase(WithShortestOptions(h))
      BY <1>3, <1>5, <2>1, ComputingKeepsTheNextHeader
    <3> QED
      BY <1>1, <3>1
  <2>2. CASE f = "ethertype"
    <3>1. h.case = "ethernet" /\ new.case = "ethernet"
      BY <1>1, <1>4, <2>2
    <3>2. WithShortestOptions(h) = h /\ WithShortestOptions(new) = new
      BY <3>1 DEF WithShortestOptions
    <3>3. h.field.ethertype = Missing /\ new.field.ethertype = v /\ v \in 0 .. Mtu
      BY <1>1, <2>2, SizesAreNumbers
    <3>4. ExpectedHeaderCase(h) = "not_set" /\ ExpectedHeaderCase(new) = "not_set"
      <4> HIDE DEF h, new
      <4> QED
        BY <3>1, <3>3, NothingFollowsASize
    <3> QED
      BY <1>1, <3>2, <3>4
  <2> QED
    BY <2>1, <2>2
<1>8. OrderValid(Shortest(q.headers))
  BY <1>1, <1>7, OrderIsKept DEF IsCompletable
<1>9. q.headers # << >>
  <2>1. 1 \in DOMAIN q.headers
    BY <1>1, <1>2
  <2> QED
    BY <2>1
<1>10. IsCompletable(q)
  BY <1>1, <1>6, <1>8, <1>9 DEF IsCompletable
<1>11. IsPadded(q)
  <2>1. \A i \in DOMAIN p.headers : SizeFrom(q, i + 1) = SizeFrom(p, i + 1)
    BY <1>1, <1>2
  <2> QED
    BY <1>1, <2>1 DEF IsPadded
<1> QED
  BY <1>10, <1>11 DEF q

(* UDP and ICMP follow IP or PSP.                                            *)
LEMMA ExpectedOverIp ==
  ASSUME NEW h, h.case \in HeaderCases
  PROVE  /\ ExpectedHeaderCase(h) = "udp" => h.case \in {"ipv4", "ipv6", "hop_by_hop", "psp"}
         /\ ExpectedHeaderCase(h) = "icmp" => h.case \in {"ipv4", "ipv6", "hop_by_hop"}
         /\ ExpectedHeaderCase(h) = "hop_by_hop" => h.case = "ipv6"
<1>1. \A e : NextHeaderForEtherType(e) \notin {"udp", "icmp", "hop_by_hop"}
  BY DEF NextHeaderForEtherType
<1>2. \A e : NextHeaderForPort(e) \notin {"udp", "icmp", "hop_by_hop"}
  BY DEF NextHeaderForPort
<1>3. \A e : NextHeaderForProtocol(e) \notin {"icmp", "hop_by_hop"}
  BY DEF NextHeaderForProtocol
<1>4. \A e : NextHeaderForPsp(e) \notin {"icmp", "hop_by_hop"}
  BY DEF NextHeaderForPsp
<1>5. CASE h.case \in {"ethernet", "vlan", "csig", "csig_wide", "gre"}
  BY <1>1, <1>5 DEF GetNextHeader, ExpectedHeaderCase
<1>6. CASE h.case \in {"packet_in", "ipfix", "udp"}
  BY <1>2, <1>6 DEF GetNextHeader, ExpectedHeaderCase
<1>7. CASE h.case = "psp"
  BY <1>4, <1>7 DEF GetNextHeader, ExpectedHeaderCase
<1>8. CASE h.case \in {"ipv4", "ipv6", "hop_by_hop"}
  BY <1>3, <1>8 DEF GetNextHeader, ExpectedHeaderCase
<1>9. CASE h.case \notin {"ethernet", "vlan", "csig", "csig_wide", "gre", "packet_in", "ipfix", "udp", "psp",
                          "ipv4", "ipv6", "hop_by_hop"}
  BY <1>9 DEF GetNextHeader, ExpectedHeaderCase
<1> QED
  BY <1>5, <1>6, <1>7, <1>8, <1>9

LEMMA OrderOfCompletables ==
  ASSUME NEW p, IsStack(p), IsCompletable(p), NEW i \in 2 .. Len(p.headers)
  PROVE  /\ i \in DOMAIN p.headers /\ i - 1 \in DOMAIN p.headers
         /\ p.headers[i].case = ExpectedHeaderCase(WithShortestOptions(p.headers[i - 1]))
         /\ WithShortestOptions(p.headers[i - 1]).case = p.headers[i - 1].case
         /\ p.headers[i - 1].case \in HeaderCases
<1>1. DOMAIN p.headers = 1 .. Len(p.headers) /\ Len(p.headers) \in Nat
  BY ListsHaveLengths DEF IsStack
<1>2. i \in DOMAIN p.headers /\ i - 1 \in DOMAIN p.headers
  BY <1>1
<1> DEFINE a == Shortest(p.headers)
<1>3. Len(a) = Len(p.headers) /\ \A m \in DOMAIN p.headers : a[m] = WithShortestOptions(p.headers[m])
  <2>1. a = [m \in 1 .. Len(p.headers) |-> WithShortestOptions(p.headers[m])]
    BY <1>1 DEF Shortest
  <2> QED
    BY <1>1, <2>1
<1>4. OrderValid(a)
  BY DEF IsCompletable
<1> HIDE DEF a
<1>5. a[i].case = ExpectedHeaderCase(a[i - 1])
  BY <1>3, <1>4 DEF OrderValid
<1>6. HasFields(p.headers[i]) /\ HasFields(p.headers[i - 1])
  BY <1>2 DEF IsStack
<1>7. WithShortestOptions(p.headers[i]).case = p.headers[i].case
      /\ WithShortestOptions(p.headers[i - 1]).case = p.headers[i - 1].case
  BY <1>6, ShortestOptions
<1> QED
  BY <1>2, <1>3, <1>5, <1>6, <1>7 DEF HasFields

LEMMA PrecedingIp ==
  ASSUME NEW p, IsStack(p), IsCompletable(p), NEW i \in DOMAIN p.headers, p.headers[i].case \in {"udp", "icmp"}
  PROVE  LET ip == FindPrecedingIpHeader(p, i)
         IN  /\ ip \in DOMAIN p.headers /\ ip > 0 /\ i > 1
             /\ p.headers[ip].case \in {"ipv4", "ipv6"} \/ (p.headers[ip].case = "psp" /\ p.headers[i].case = "udp")
<1> DEFINE ip == FindPrecedingIpHeader(p, i)
<1>1. DOMAIN p.headers = 1 .. Len(p.headers) /\ Len(p.headers) \in Nat /\ i \in 1 .. Len(p.headers)
  BY ListsHaveLengths DEF IsStack
<1>2. ip > 0
  BY DEF IsCompletable, IsGiven
<1>3. ip \in DOMAIN p.headers /\ ip \in 0 .. i - 1
  BY <1>2, PrecedingHeader
<1>4. i \in 2 .. Len(p.headers)
  BY <1>1, <1>2, <1>3
<1> DEFINE before_i == p.headers[i - 1]
<1>5. /\ p.headers[i].case = ExpectedHeaderCase(WithShortestOptions(before_i))
      /\ WithShortestOptions(before_i).case = before_i.case /\ before_i.case \in HeaderCases
  BY <1>4, OrderOfCompletables
<1>6. /\ before_i.case \in {"ipv4", "ipv6", "hop_by_hop"} \/ (before_i.case = "psp" /\ p.headers[i].case = "udp")
  <2> HIDE DEF before_i
  <2> QED
    BY <1>5, ExpectedOverIp
<1>7. CASE before_i.case = "hop_by_hop"
  <2>1. ip = i - 2
    BY <1>4, <1>7 DEF FindPrecedingIpHeader
  <2>2. i - 1 \in 2 .. Len(p.headers) /\ (i - 1) - 1 = ip
    BY <1>1, <1>2, <1>4, <2>1
  <2>3. /\ before_i.case = ExpectedHeaderCase(WithShortestOptions(p.headers[(i - 1) - 1]))
        /\ WithShortestOptions(p.headers[(i - 1) - 1]).case = p.headers[(i - 1) - 1].case
        /\ p.headers[(i - 1) - 1].case \in HeaderCases
    BY <2>2, OrderOfCompletables
  <2> HIDE DEF ip, before_i
  <2>4. p.headers[ip].case = "ipv6"
    BY <1>7, <2>2, <2>3, ExpectedOverIp
  <2> QED
    BY <1>2, <1>3, <1>4, <2>4 DEF ip
<1>8. CASE before_i.case # "hop_by_hop"
  <2>1. ip = i - 1
    BY <1>4, <1>8 DEF FindPrecedingIpHeader
  <2> QED
    BY <1>2, <1>3, <1>4, <1>6, <1>8, <2>1
<1> QED
  BY <1>7, <1>8

------------------------------------------------------------------------------
(* What the loop fills in                                                  *)

LEMMA SerializableRests ==
  ASSUME NEW p, IsStack(p), IsTyped(p), NEW i \in 1 .. Len(p.headers) + 1,
         \A m \in DOMAIN p.headers : m >= i => Serializable(p.headers[m])
  PROVE  RawSerializePacket(From(p, i)) # Undefined
<1> DEFINE rest == From(p, i)
<1>1. /\ Len(rest.headers) = Len(p.headers) - i + 1
      /\ \A k \in 1 .. Len(rest.headers) :
           i + k - 1 \in DOMAIN p.headers /\ rest.headers[k] = p.headers[i + k - 1]
      /\ IsStack(rest)
  BY Rest
<1>2. IsTyped(rest)
  BY RestIsTyped
<1> HIDE DEF rest
<1>3. DOMAIN rest.headers = 1 .. Len(rest.headers) /\ Len(rest.headers) \in Nat
  BY <1>1, ListsHaveLengths DEF IsStack
<1>4. \A k \in 1 .. Len(rest.headers) : i + k - 1 >= i
  BY <1>3
<1>5. \A k \in DOMAIN rest.headers : Serializable(rest.headers[k])
  BY <1>1, <1>3, <1>4
<1>6. RawSerializePacket(rest) \in Seq(Nat)
  BY <1>1, <1>2, <1>5, SerializablePackets
<1>7. Undefined \notin Seq(Nat)
  BY MarkersAreNoValues DEF Markers
<1> QED
  BY <1>6, <1>7 DEF rest

(* Addresses and protocols are given by the caller.                         *)
LEMMA GivenAddresses ==
  ASSUME NEW p, IsStack(p), IsCompletable(p), NEW i \in DOMAIN p.headers,
         p.headers[i].case \in {"ipv4", "ipv6"}
  PROVE  /\ p.headers[i].field.addresses \in Nat
         /\ p.headers[i].case = "ipv4" => p.headers[i].field.protocol \in Nat
<1> DEFINE h == p.headers[i]
<1>1. h.case \in HeaderCases /\ IsGiven(p, i)
  BY DEF IsStack, HasFields, IsCompletable
<1>2. "addresses" \in FieldsOf(h.case) /\ (h.case = "ipv4" => "protocol" \in FieldsOf(h.case))
  <2>1. CASE h.case = "ipv4"
    BY <2>1 DEF FieldsOf, Fields
  <2>2. CASE h.case = "ipv6"
    BY <2>2 DEF FieldsOf, Fields
  <2> QED
    BY <2>1, <2>2
<1>3. ~IsComputed(h, "addresses") /\ ~IsComputed(h, "protocol")
  BY <1>1, ComputedFieldsOfHeaders DEF IsComputed
<1> QED
  BY <1>1, <1>2, <1>3 DEF IsGiven

LEMMA DoneFieldsAreNumbers ==
  ASSUME NEW p, IsStack(p), NEW j \in Nat, NEW pos, IsCompletedTo(p, j, pos),
         NEW i \in DOMAIN p.headers, i > j, NEW f, IsComputed(p.headers[i], f)
  PROVE  p.headers[i].field[f] \in Nat
<1>1. PICK k \in DOMAIN ComputedFieldsOf(p.headers[i]) : ComputedFieldsOf(p.headers[i])[k] = f
  BY DEF IsComputed
<1> QED
  BY <1>1 DEF IsCompletedTo, IsDone

LEMMA ListsOfValues ==
  IsList(<< >>) /\ (\A a, b, c : IsList(<<a, b, c>>))
<1>1. << >> \in Seq({})
  OBVIOUS
<1>2. \A a, b, c : <<a, b, c>> \in Seq({a, b, c})
  OBVIOUS
<1> QED
  BY <1>1, <1>2 DEF IsList

(* When the loop gets to a checksum, all that it covers is there.           *)
LEMMA ChecksumsExist ==
  ASSUME NEW p, IsStack(p), IsTyped(p), IsCompletable(p), IsPadded(p), NEW j \in DOMAIN p.headers,
         NEW k \in DOMAIN ComputedFieldsOf(p.headers[j]), ComputedFieldsOf(p.headers[j])[k] = "checksum",
         IsCompletedTo(p, j, k)
  PROVE  HeaderChecksum(p, j) \in Nat \cup {AnyValue}
<1> DEFINE h == p.headers[j]
           q == WithValue(p, j, "checksum", 0)
           new == q.headers[j]
           fields == ComputedFieldsOf(h)
<1>1. HasFields(h) /\ HasValues(h) /\ h.case \in HeaderCases
  BY DEF IsStack, IsTyped, HasFields
<1>2. h.case \in {"ipv4", "udp", "icmp", "gre"} /\ (h.case # "gre" => k = Len(fields))
  BY <1>1, ComputedFieldsOfHeaders
<1>3. DOMAIN p.headers = 1 .. Len(p.headers) /\ Len(p.headers) \in Nat /\ j \in 1 .. Len(p.headers)
  BY ListsHaveLengths DEF IsStack
<1>4. IsComputed(h, "checksum") /\ "checksum" \in FieldsOf(h.case)
  BY <1>2, ChecksumsAreFields DEF IsComputed
<1>5. IsCompletable(q) /\ IsPadded(q)
  BY <1>4, StaysCompletable
<1>6. OnlyValueDiffers(p, q, j, "checksum") /\ new.field.checksum = 0
  BY <1>4, ComputingLeavesOtherFields
<1>7. IsTyped(q)
  BY <1>4, ValueIsTyped
<1>8. new = WithField(h, "checksum", 0)
  BY <1>4, ValueIsReplaced
<1> HIDE DEF q
<1>9. IsStack(q) /\ DOMAIN q.headers = DOMAIN p.headers /\ Len(q.headers) = Len(p.headers)
  BY <1>6 DEF OnlyValueDiffers
<1>10. /\ new.case = h.case /\ ComputedFieldsOf(new) = fields /\ (HasOptionals(new) <=> HasOptionals(h))
       /\ \A g \in FieldsOf(h.case) : g # "checksum" => new.field[g] = h.field[g]
  BY <1>6 DEF OnlyValueDiffers
<1>11. \A g : IsComputed(h, g) /\ g # "checksum" /\ h.case # "gre" => h.field[g] \in Nat
  <2> SUFFICES ASSUME NEW g, IsComputed(h, g), g # "checksum", h.case # "gre" PROVE h.field[g] \in Nat
    OBVIOUS
  <2>1. PICK l \in DOMAIN fields : fields[l] = g
    BY DEF IsComputed
  <2>2. DOMAIN fields = 1 .. Len(fields) /\ Len(fields) \in Nat
    BY <1>1, ComputedFieldsOfAHeader
  <2>3. l # k
    BY <2>1
  <2>4. l < k
    BY <1>2, <2>1, <2>2, <2>3
  <2> QED
    BY <2>1, <2>4 DEF IsCompletedTo, IsDone
<1>12. Serializable(new)
  <2>1. ASSUME NEW g, IsComputed(new, g) PROVE new.field[g] \in Nat
    <3>1. IsComputed(h, g) /\ g \in FieldsOf(h.case)
      BY <1>1, <1>10, <2>1, ComputedFieldsAreFields DEF IsComputed
    <3>2. CASE g = "checksum"
      BY <1>6, <3>2
    <3>3. CASE g # "checksum" /\ h.case # "gre"
      BY <1>10, <1>11, <3>1, <3>3
    <3>4. CASE g # "checksum" /\ h.case = "gre"
      <4>1. HasOptionals(h) /\ g = "reserved1"
        BY <3>1, <3>4, ComputedFieldsOfGre DEF GreOptionals
      <4>2. IsGiven(q, j)
        BY <1>5, <1>9 DEF IsCompletable
      <4> QED
        BY <1>10, <3>4, <4>1, <4>2 DEF IsGiven
    <3> QED
      BY <3>2, <3>3, <3>4
  <2> QED
    BY <1>5, <1>9, <2>1, DoneHeadersAreSerializable
<1>13. ASSUME NEW m \in DOMAIN p.headers, m > j PROVE Serializable(q.headers[m])
  <2>1. q.headers[m] = p.headers[m]
    BY <1>3, <1>6, <1>13 DEF OnlyValueDiffers
  <2>2. \A g : IsComputed(p.headers[m], g) => p.headers[m].field[g] \in Nat
    BY <1>3, <1>13, DoneFieldsAreNumbers
  <2> QED
    BY <2>1, <2>2, DoneHeadersAreSerializable
<1>14. RawSerializePacket(From(q, j)) # Undefined
  <2>1. \A m \in DOMAIN q.headers : m >= j => Serializable(q.headers[m])
    BY <1>3, <1>9, <1>12, <1>13
  <2>2. j \in 1 .. Len(q.headers) + 1
    BY <1>3, <1>9
  <2> QED
    BY <1>7, <1>9, <2>1, <2>2, SerializableRests
<1>15. \A pseudo : IsList(pseudo) /\ (\A m \in DOMAIN pseudo : pseudo[m] \in Nat) => ChecksumFrom(p, j, pseudo) \in Nat
  BY <1>4, <1>14, ChecksumsOfRests DEF q
<1>16. CASE h.case = "ipv4"
  <2> DEFINE one == [headers |-> <<h>>, payload |-> << >>]
             zeroed == WithValue(one, 1, "checksum", 0)
  <2>1. one = [headers |-> one.headers, payload |-> one.payload] /\ one.headers = <<h>>
        /\ one.payload = << >> /\ DOMAIN one.headers = 1 .. 1 /\ one.headers[1] = h /\ <<h>> \in Seq({h})
        /\ Len(one.headers) = 1
    OBVIOUS
  <2>2. HeaderChecksum(p, j) = ChecksumFrom(one, 1, << >>)
    BY <1>16 DEF HeaderChecksum, Ipv4HeaderChecksum
  <2> HIDE DEF one
  <2>3. IsStack(one)
    BY <1>1, <2>1 DEF IsStack, IsList
  <2>4. IsTyped(one)
    <3>1. << >> \in Seq(Nat)
      OBVIOUS
    <3> QED
      BY <1>1, <2>1, <3>1 DEF IsTyped
  <2>5. 1 \in DOMAIN one.headers /\ "checksum" \in FieldsOf(one.headers[1].case)
    BY <1>4, <2>1
  <2>6. /\ IsStack(zeroed) /\ DOMAIN zeroed.headers = DOMAIN one.headers /\ Len(zeroed.headers) = Len(one.headers)
        /\ zeroed.headers[1] = WithField(one.headers[1], "checksum", 0)
    BY <2>3, <2>5, ValueIsReplaced
  <2>7. IsTyped(zeroed)
    BY <2>3, <2>4, <2>5, ValueIsTyped
  <2> HIDE DEF zeroed
  <2>8. zeroed.headers[1] = new
    BY <1>8, <2>1, <2>6
  <2>9. \A m \in DOMAIN zeroed.headers : m >= 1 => Serializable(zeroed.headers[m])
    BY <1>12, <2>1, <2>6, <2>8
  <2>10. 1 \in 1 .. Len(zeroed.headers) + 1
    BY <2>1, <2>6
  <2>11. RawSerializePacket(From(zeroed, 1)) # Undefined
    BY <2>6, <2>7, <2>9, <2>10, SerializableRests
  <2>12. IsList(<< >>) /\ \A m \in DOMAIN << >> : << >>[m] \in Nat
    BY ListsOfValues
  <2>13. ChecksumFrom(one, 1, << >>) \in Nat
    BY <2>3, <2>4, <2>5, <2>11, <2>12, ChecksumsOfRests DEF zeroed
  <2> QED
    BY <2>2, <2>13
<1>17. CASE h.case = "gre"
  <2>1. HeaderChecksum(p, j) = ChecksumFrom(p, j, << >>)
    BY <1>17 DEF HeaderChecksum, GreHeaderChecksum
  <2>2. IsList(<< >>) /\ \A m \in DOMAIN << >> : << >>[m] \in Nat
    BY ListsOfValues
  <2> QED
    BY <1>15, <2>1, <2>2
<1> DEFINE ip == FindPrecedingIpHeader(p, j)
           before_j == p.headers[ip]
<1>18. ASSUME h.case \in {"udp", "icmp"}
       PROVE  /\ ip \in DOMAIN p.headers /\ ip > 0 /\ j > 1 /\ j # 1
              /\ before_j.case \in {"ipv4", "ipv6"} \/ (before_j.case = "psp" /\ h.case = "udp")
              /\ before_j.case \in {"ipv4", "ipv6"} => before_j.field.addresses \in Nat
              /\ before_j.case = "ipv4" => before_j.field.protocol \in Nat
  BY <1>3, <1>18, PrecedingIp, GivenAddresses
<1>19. CASE h.case = "icmp"
  <2>1. HeaderChecksum(p, j) = IcmpHeaderChecksum(p, j)
    BY <1>19 DEF HeaderChecksum
  <2>2. CASE before_j.case = "ipv4"
    <3>1. IcmpHeaderChecksum(p, j) = ChecksumFrom(p, j, << >>)
      BY <1>18, <1>19, <2>2 DEF IcmpHeaderChecksum
    <3>2. IsList(<< >>) /\ \A m \in DOMAIN << >> : << >>[m] \in Nat
      BY ListsOfValues
    <3> QED
      BY <1>15, <2>1, <3>1, <3>2
  <2>3. CASE before_j.case = "ipv6"
    <3> DEFINE pseudo == <<before_j.field.addresses, SizeFrom(p, j), 58>>
    <3>1. IcmpHeaderChecksum(p, j) = ChecksumFrom(p, j, pseudo)
      BY <1>18, <1>19, <2>3 DEF IcmpHeaderChecksum
    <3>2. SizeFrom(p, j) \in Nat /\ before_j.field.addresses \in Nat
      BY <1>3, <1>18, <1>19, <2>3, CompletablePacketsHaveSizes
    <3>3. IsList(pseudo) /\ \A m \in DOMAIN pseudo : pseudo[m] \in Nat
      BY <3>2, ListsOfValues
    <3> QED
      BY <1>15, <2>1, <3>1, <3>3
  <2> QED
    BY <1>18, <1>19, <2>2, <2>3
<1>20. CASE h.case = "udp"
  <2> DEFINE length == h.field.length
  <2>1. HeaderChecksum(p, j) = UdpHeaderChecksum(p, j)
    BY <1>20 DEF HeaderChecksum
  <2>2. length \in Nat
    <3>1. fields = <<"length", "checksum">>
      BY <1>20 DEF ComputedFieldsOf, ComputedFields
    <3>2. IsComputed(h, "length")
      BY <3>1 DEF IsComputed
    <3> QED
      BY <1>11, <1>20, <3>2
  <2>3. CASE before_j.case = "ipv4"
    <3> DEFINE pseudo == <<before_j.field.addresses, before_j.field.protocol, length>>
    <3>1. UdpHeaderChecksum(p, j) = ChecksumFrom(p, j, pseudo)
      BY <1>18, <1>20, <2>3 DEF UdpHeaderChecksum
    <3>2. before_j.field.addresses \in Nat /\ before_j.field.protocol \in Nat
      BY <1>18, <1>20, <2>3
    <3>3. IsList(pseudo) /\ \A m \in DOMAIN pseudo : pseudo[m] \in Nat
      BY <2>2, <3>2, ListsOfValues
    <3> QED
      BY <1>15, <2>1, <3>1, <3>3
  <2>4. CASE before_j.case = "ipv6"
    <3> DEFINE pseudo == <<before_j.field.addresses, length, 17>>
    <3>1. UdpHeaderChecksum(p, j) = ChecksumFrom(p, j, pseudo)
      BY <1>18, <1>20, <2>4 DEF UdpHeaderChecksum
    <3>2. before_j.field.addresses \in Nat
      BY <1>18, <1>20, <2>4
    <3>3. IsList(pseudo) /\ \A m \in DOMAIN pseudo : pseudo[m] \in Nat
      BY <2>2, <3>2, ListsOfValues
    <3> QED
      BY <1>15, <2>1, <3>1, <3>3
  <2>5. CASE before_j.case = "psp"
    <3>1. UdpHeaderChecksum(p, j) = AnyValue
      BY <1>18, <1>20, <2>5 DEF UdpHeaderChecksum
    <3> QED
      BY <2>1, <3>1
  <2> QED
    BY <1>18, <1>20, <2>3, <2>4, <2>5
<1> QED
  BY <1>2, <1>16, <1>17, <1>19, <1>20

(* A field that is missing can be computed when the loop gets to it.        *)
LEMMA GapsCanBeComputed ==
  ASSUME NEW p, IsStack(p), IsTyped(p), IsCompletable(p), IsPadded(p), NEW j \in DOMAIN p.headers,
         NEW k \in DOMAIN ComputedFieldsOf(p.headers[j]), IsCompletedTo(p, j, k),
         NEW f, f = ComputedFieldsOf(p.headers[j])[k], p.headers[j].field[f] = Missing
  PROVE  /\ ComputedValue(p, j, f) \in Nat \cup {AnyValue}
         /\ f = "ethertype" => /\ j = Len(p.headers)
                               /\ ComputedValue(p, j, f) \in 1 .. Mtu
<1> DEFINE h == p.headers[j]
<1>1. HasFields(h) /\ HasValues(h) /\ h.case \in HeaderCases
  BY DEF IsStack, IsTyped, HasFields
<1>2. /\ f \in {"ethertype", "version", "ihl", "checksum", "data_offset"} \cup Lengths \/ f \in DOMAIN ConstantValue
      /\ f = "ethertype" <=> h.case = "ethernet"
  BY <1>1, ComputedFieldsOfHeaders
<1>3. DOMAIN p.headers = 1 .. Len(p.headers) /\ Len(p.headers) \in Nat /\ j \in 1 .. Len(p.headers)
      /\ j \in 1 .. Len(p.headers) + 1 /\ j + 1 \in 1 .. Len(p.headers) + 1
  BY ListsHaveLengths DEF IsStack
<1>4. IsGiven(p, j) /\ IsFramed(p, j)
  BY DEF IsCompletable
<1>5. SizeFrom(p, j) \in Nat /\ SizeFrom(p, j + 1) \in Nat
  BY <1>3, CompletablePacketsHaveSizes
<1>6. Missing \notin Int /\ Undefined \notin Int
  BY MarkersAreNoValues DEF Markers
<1>7. h.options \in Seq(Nat) /\ Len(h.options) \in Nat /\ Len(h.options) <= 10
  BY <1>1, <1>4 DEF HasValues, IsGiven
<1>8. CASE f = "ethertype"
  <2> DEFINE size == SizeFrom(p, j + 1)
  <2>1. j = Len(p.headers) /\ size <= Mtu
    BY <1>2, <1>4, <1>6, <1>8 DEF IsFramed
  <2>2. size >= MinPayload /\ MinPayload >= 1
    BY <1>2, <1>8, SizesAreNumbers DEF IsPadded
  <2>3. ComputedValue(p, j, f) = IF size = Undefined \/ size > Mtu THEN Undefined ELSE size
    BY <1>8 DEF ComputedValue
  <2> HIDE DEF size
  <2>4. size \in Nat
    BY <1>5 DEF size
  <2>5. Mtu \in Nat /\ MinPayload \in Nat
    BY SizesAreNumbers
  <2>6. ComputedValue(p, j, f) = size
    BY <1>6, <2>1, <2>3, <2>4, <2>5
  <2> QED
    BY <2>1, <2>2, <2>4, <2>5, <2>6
<1>9. CASE f = "version"
  <2>1. ComputedValue(p, j, f) \in {4, 6}
    BY <1>9 DEF ComputedValue
  <2> QED
    BY <1>9, <2>1
<1>10. CASE f = "ihl"
  <2> DEFINE words == 5 + Len(h.options)
  <2>1. ComputedValue(p, j, f) = Ihl(h)
    BY <1>10 DEF ComputedValue
  <2>2. Ihl(h) = words % 16
    BY <1>4 DEF Ihl, IsGiven
  <2>3. words \in Nat
    BY <1>7
  <2> HIDE DEF words
  <2>4. words % 16 \in Nat
    BY <2>3
  <2> QED
    BY <1>10, <2>1, <2>2, <2>4
<1>11. CASE f \in Lengths
  <2> DEFINE size == SizeFrom(p, CountedFrom(j, f))
  <2>1. size \in Nat
    BY <1>5 DEF CountedFrom
  <2>2. ComputedValue(p, j, f) = Length(size)
    BY <1>11 DEF ComputedValue, Lengths
  <2> HIDE DEF size
  <2>3. size % 65536 \in Nat
    BY <2>1
  <2>4. Length(size) = size % 65536
    BY <1>6, <2>1 DEF Length, WordLimit
  <2> QED
    BY <1>11, <2>2, <2>3, <2>4 DEF Lengths
<1>12. CASE f = "checksum"
  <2>1. ComputedValue(p, j, f) = HeaderChecksum(p, j)
    BY <1>12 DEF ComputedValue
  <2> QED
    BY <1>12, <2>1, ChecksumsExist
<1>13. CASE f = "data_offset"
  <2>1. ComputedValue(p, j, f) = DataOffset(p, j)
    BY <1>13 DEF ComputedValue
  <2>2. DataOffset(p, j) = 5 + Len(h.options)
    BY <1>5, <1>6, <1>7 DEF DataOffset
  <2> QED
    BY <1>7, <1>13, <2>1, <2>2
<1>14. CASE f \in DOMAIN ConstantValue
  <2>1. ComputedValue(p, j, f) = ConstantValue[f]
    BY <1>14, ConstantsAreNumbers DEF ComputedValue, Lengths
  <2> QED
    BY <1>14, <2>1, ConstantsAreNumbers
<1> QED
  BY <1>2, <1>8, <1>9, <1>10, <1>11, <1>12, <1>13, <1>14

LEMMA ValuesOfGaps ==
  ASSUME NEW p, NEW j, NEW f, p.headers[j].field[f] = Missing,
         f = "ethertype" => j = Len(p.headers) /\ ComputedValue(p, j, f) \in 1 .. Mtu
  PROVE  NewValue(p, j, f, FALSE) = IF ComputedValue(p, j, f) # AnyValue THEN ComputedValue(p, j, f) ELSE 0
<1> DEFINE old == p.headers[j].field[f]
           computed == ComputedValue(p, j, f)
<1>1. Missing # Malformed /\ AnyValue \notin Int
  BY MarkersAreNoValues DEF Markers
<1>2. CASE f = "ethertype"
  <2>1. NewValue(p, j, f, FALSE) = NewEtherType(p, j, FALSE)
    BY <1>2 DEF NewValue
  <2>2. NewEtherType(p, j, FALSE)
          = CASE old = Malformed -> Undefined
              [] old # Malformed /\ (old = Missing \/ FALSE) /\ (IF old = Missing THEN 0 ELSE old) <= Mtu
                   /\ j = Len(p.headers) ->
                   IF computed = (IF old = Missing THEN 0 ELSE old) THEN old ELSE computed
              [] OTHER -> old
    BY <1>2 DEF NewEtherType
  <2>3. old = Missing /\ computed \in 1 .. Mtu /\ j = Len(p.headers)
    BY <1>2
  <2> HIDE DEF computed, old
  <2>4. (IF old = Missing THEN 0 ELSE old) = 0
    BY <2>3
  <2>5. 0 <= Mtu /\ computed # 0 /\ computed # AnyValue
    BY <1>1, <2>3, SizesAreNumbers
  <2>6. NewEtherType(p, j, FALSE) = computed
    BY <1>1, <2>2, <2>3, <2>4, <2>5
  <2> QED
    BY <2>1, <2>5, <2>6 DEF computed
<1>3. CASE f # "ethertype"
  <2>1. NewValue(p, j, f, FALSE)
          = CASE f = "ethertype" -> NewEtherType(p, j, FALSE)
              [] f # "ethertype" /\ old # Missing /\ (~FALSE \/ f = "options_and_padding") -> old
              [] OTHER -> IF computed # AnyValue THEN computed ELSE IF old = Missing THEN 0 ELSE old
    BY DEF NewValue
  <2>2. old = Missing
    OBVIOUS
  <2> HIDE DEF computed, old
  <2>3. NewValue(p, j, f, FALSE) = IF computed # AnyValue THEN computed ELSE 0
    BY <1>3, <2>1, <2>2
  <2> QED
    BY <2>3 DEF computed
<1> QED
  BY <1>2, <1>3

LEMMA ValuesInsteadOfAny ==
  ASSUME NEW x \in Nat \cup {AnyValue}, NEW v, v = IF x # AnyValue THEN x ELSE 0
  PROVE  v \in Nat /\ (x \in 1 .. Mtu => v <= Mtu) /\ (x = 0 => v = 0)
<1>1. Mtu \in Nat
  BY SizesAreNumbers
<1>2. v = x \/ v = 0
  OBVIOUS
<1>3. v \in Nat
  OBVIOUS
<1> QED
  BY <1>1, <1>2, <1>3

(* The value that UpdateMissingComputedFields chooses.                       *)
IsFilledIn(p, i, f, v) == v = NewValue(p, i, f, FALSE)

LEMMA GapsAreFilled ==
  ASSUME NEW p, IsStack(p), IsTyped(p), IsCompletable(p), IsPadded(p), NEW j \in DOMAIN p.headers,
         NEW k \in DOMAIN ComputedFieldsOf(p.headers[j]), IsCompletedTo(p, j, k),
         NEW f, f = ComputedFieldsOf(p.headers[j])[k], NEW v, IsFilledIn(p, j, f, v)
  PROVE  /\ v \in Nat
         /\ p.headers[j].field[f] \in Nat =>
              v = p.headers[j].field[f] /\ (f = "ethertype" \/ f = "reserved1")
         /\ p.headers[j].field[f] \notin Nat => p.headers[j].field[f] = Missing
         /\ f = "ethertype" /\ p.headers[j].field[f] = Missing => j = Len(p.headers) /\ v <= Mtu
         /\ f = "header_extension_length" \/ f = "reserved1" => v = 0
<1> DEFINE h == p.headers[j]
           old == h.field[f]
           computed == ComputedValue(p, j, f)
<1>1. HasFields(h) /\ HasValues(h) /\ h.case \in HeaderCases
  BY DEF IsStack, IsTyped, HasFields
<1>2. /\ f = "ethertype" <=> h.case = "ethernet"
      /\ f = "options_and_padding" => h.case = "hop_by_hop"
  BY <1>1, ComputedFieldsOfHeaders
<1>3. IsComputed(h, f) /\ f \in FieldsOf(h.case)
  BY <1>1, ComputedFieldsAreFields DEF IsComputed
<1>4. IsGiven(p, j)
  BY DEF IsCompletable
<1>5. IsOpen(h, f)
  <2>1. DOMAIN p.headers = 1 .. Len(p.headers) /\ Len(p.headers) \in Nat
    BY ListsHaveLengths DEF IsStack
  <2>2. DOMAIN ComputedFieldsOf(h) = 1 .. Len(ComputedFieldsOf(h)) /\ Len(ComputedFieldsOf(h)) \in Nat
    BY <1>1, ComputedFieldsOfAHeader
  <2>3. ~(j > j \/ (j = j /\ k < k))
    BY <2>1, <2>2
  <2> QED
    BY <2>3 DEF IsCompletedTo
<1>6. Missing \notin Int /\ Undefined \notin Int /\ Missing # Malformed /\ Malformed \notin Int
  BY MarkersAreNoValues DEF Markers
<1>7. old \in Nat \/ old = Missing
  <2>1. \/ old \in Nat
        \/ old = Missing /\ IsComputed(h, f)
        \/ old = Missing /\ h.case = "gre" /\ f \in GreOptionals /\ ~HasOptionals(h)
    BY <1>3, <1>4 DEF IsGiven
  <2> QED
    BY <2>1
<1>8. f = "reserved1" => old = 0
  <2> SUFFICES ASSUME f = "reserved1" PROVE old = 0
    OBVIOUS
  <2>1. h.case = "gre"
    <3>1. h.case \in DOMAIN ComputedFields /\ ComputedFieldsOf(h) = ComputedFields[h.case]
      BY <1>3 DEF IsComputed, ComputedFieldsOf
    <3>2. h.case \in {"ethernet", "ipv4", "ipv6", "hop_by_hop", "udp", "arp", "icmp", "tcp",
                      "gre", "packet_in", "ipfix", "psamp", "ptp"}
      BY <3>1 DEF ComputedFields
    <3> QED
      BY <1>3, <3>2 DEF FieldsOf, Fields
  <2>2. HasOptionals(h)
    BY <1>3, <2>1, ComputedFieldsOfGre
  <2> QED
    BY <1>4, <2>1, <2>2 DEF IsGiven
<1>9. CASE old \in Nat
  <2>1. f = "ethertype" \/ f = "reserved1"
    BY <1>5, <1>6, <1>9 DEF IsOpen
  <2>2. v = old
    <3>1. CASE f = "ethertype"
      <4>1. v = NewEtherType(p, j, FALSE)
        BY <3>1 DEF NewValue, IsFilledIn
      <4> HIDE DEF computed
      <4>2. old # Malformed /\ old # Missing
        BY <1>6, <1>9
      <4> QED
        BY <3>1, <4>1, <4>2 DEF NewEtherType
    <3>2. CASE f # "ethertype"
      <4>1. old # Missing
        BY <1>6, <1>9
      <4> QED
        BY <3>2, <4>1 DEF NewValue, IsFilledIn
    <3> QED
      BY <3>1, <3>2
  <2>3. f # "header_extension_length" /\ old # Missing
    BY <1>6, <1>9, <2>1
  <2> HIDE DEF h, old
  <2> QED
    BY <1>8, <1>9, <2>1, <2>2, <2>3 DEF h, old
<1>10. CASE old = Missing
  <2>1. /\ computed \in Nat \cup {AnyValue}
        /\ f = "ethertype" => j = Len(p.headers) /\ computed \in 1 .. Mtu
    BY <1>10, GapsCanBeComputed
  <2>2. v = IF computed # AnyValue THEN computed ELSE 0
    BY <1>10, <2>1, ValuesOfGaps DEF IsFilledIn
  <2>3. f # "reserved1" /\ old \notin Nat
    BY <1>6, <1>8, <1>10
  <2>4. f = "header_extension_length" => computed = 0
    BY DEF ComputedValue, ConstantValue
  <2>6. /\ v \in Nat
        /\ f = "ethertype" => j = Len(p.headers) /\ v <= Mtu
        /\ f = "header_extension_length" => v = 0
    BY <2>1, <2>2, <2>4, ValuesInsteadOfAny
  <2> HIDE DEF h, old
  <2> QED
    BY <1>10, <2>3, <2>6 DEF h, old
<1> QED
  BY <1>7, <1>9, <1>10

LEMMA SameValue ==
  ASSUME NEW p, IsStack(p), NEW j \in DOMAIN p.headers, NEW f \in FieldsOf(p.headers[j].case)
  PROVE  WithValue(p, j, f, p.headers[j].field[f]) = p
<1> DEFINE h == p.headers[j]
           q == WithValue(p, j, f, h.field[f])
           new == WithField(h, f, h.field[f])
<1>1. /\ IsStack(q) /\ q.payload = p.payload /\ DOMAIN q.headers = DOMAIN p.headers
      /\ q.headers[j] = new
      /\ \A i \in DOMAIN p.headers : i # j => q.headers[i] = p.headers[i]
  BY ValueIsReplaced
<1>2. /\ new.case = h.case /\ new.options = h.options /\ new.field[f] = h.field[f]
      /\ \A g \in FieldsOf(h.case) : g # f => new.field[g] = h.field[g]
  BY FieldIsReplaced DEF IsStack
<1> HIDE DEF q, new
<1>3. \A i \in DOMAIN p.headers :
        LET a == p.headers[i]  b == q.headers[i]
        IN  a.case = b.case /\ a.options = b.options /\ \A g \in FieldsOf(a.case) : a.field[g] = b.field[g]
  BY <1>1, <1>2
<1>4. p = q
  BY <1>1, <1>3, SamePackets
<1> QED
  BY <1>4 DEF q

(* One field: it gets its value, and what was done before stays done.       *)
LEMMA OneFieldIsCompleted ==
  ASSUME NEW p, IsStack(p), IsTyped(p), IsCompletable(p), IsPadded(p), NEW j \in DOMAIN p.headers,
         NEW k \in DOMAIN ComputedFieldsOf(p.headers[j]), IsCompletedTo(p, j, k),
         NEW f, f = ComputedFieldsOf(p.headers[j])[k], NEW v, IsFilledIn(p, j, f, v)
  PROVE  LET q == WithValue(p, j, f, v)
         IN  /\ v \in Nat
             /\ IsCompletable(q) /\ IsPadded(q) /\ IsCompletedTo(q, j, k + 1)
<1> DEFINE h == p.headers[j]
           old == h.field[f]
           q == WithValue(p, j, f, v)
           fields == ComputedFieldsOf(h)
<1>1. HasFields(h) /\ HasValues(h) /\ h.case \in HeaderCases
  BY DEF IsStack, IsTyped, HasFields
<1>2. DOMAIN fields = 1 .. Len(fields) /\ Len(fields) \in Nat /\ k \in 1 .. Len(fields)
      /\ \A m, n \in 1 .. Len(fields) : fields[m] = fields[n] => m = n
  BY <1>1, ComputedFieldsOfAHeader
<1>3. IsComputed(h, f) /\ f \in FieldsOf(h.case)
  BY <1>1, ComputedFieldsAreFields DEF IsComputed
<1>4. DOMAIN p.headers = 1 .. Len(p.headers) /\ Len(p.headers) \in Nat /\ j \in 1 .. Len(p.headers)
  BY ListsHaveLengths DEF IsStack
<1>5. /\ v \in Nat
      /\ old \in Nat => v = old /\ (f = "ethertype" \/ f = "reserved1")
      /\ old \notin Nat => old = Missing
      /\ f = "ethertype" /\ old = Missing => j = Len(p.headers) /\ v <= Mtu
      /\ f = "header_extension_length" \/ f = "reserved1" => v = 0
  BY GapsAreFilled
<1>6. f = "ethertype" <=> h.case = "ethernet"
  BY <1>1, ComputedFieldsOfHeaders
<1>7. IsGiven(p, j) /\ IsOpen(h, f)
  <2>1. ~(j > j \/ (j = j /\ k < k))
    BY <1>2, <1>4
  <2> QED
    BY <2>1 DEF IsCompletedTo, IsCompletable
<1> SUFFICES IsCompletable(q) /\ IsPadded(q) /\ IsCompletedTo(q, j, k + 1)
  BY <1>5
<1>8. CASE old \in Nat
  <2>1. q = p
    BY <1>3, <1>5, <1>8, SameValue
  <2>2. IsDone(p, j, f)
    <3>1. UpToDate(p, j, f)
      <4>1. CASE f = "ethertype"
        BY <1>6, <1>7, <4>1 DEF IsOpen, UpToDate
      <4>2. CASE f = "reserved1"
        <5>1. h.case # "ethernet" /\ old = 0
          BY <1>5, <1>6, <1>8, <4>2
        <5>2. h.case # "hop_by_hop" /\ h.case # "udp"
          <6>1. ASSUME h.case = "hop_by_hop" PROVE FALSE
            <7>1. f \in FieldsOf("hop_by_hop")
              BY <1>3, <6>1
            <7> QED
              BY <4>2, <7>1 DEF FieldsOf, Fields
          <6>2. ASSUME h.case = "udp" PROVE FALSE
            <7>1. f \in FieldsOf("udp")
              BY <1>3, <6>2
            <7> QED
              BY <4>2, <7>1 DEF FieldsOf, Fields
          <6> QED
            BY <6>1, <6>2
        <5>3. ComputedValue(p, j, f) = 0
          BY <4>2 DEF ComputedValue, ConstantValue
        <5>4. ComputedFieldValid(p, j, f)
          BY <5>1, <5>2, <5>3 DEF ComputedFieldValid
        <5> QED
          BY <5>1, <5>4 DEF UpToDate
      <4> QED
        BY <1>5, <1>8, <4>1, <4>2
    <3>2. f # "header_extension_length"
      BY <1>5, <1>8
    <3> QED
      BY <1>8, <3>1, <3>2 DEF IsDone
  <2>3. IsCompletedTo(p, j, k + 1)
    <3>1. \A l \in DOMAIN fields : l < k + 1 <=> l < k \/ l = k
      BY <1>2
    <3>2. \A l \in DOMAIN fields : IF l < k + 1 THEN IsDone(p, j, fields[l]) ELSE IsOpen(h, fields[l])
      <4>1. \A l \in DOMAIN fields : IF j > j \/ (j = j /\ l < k) THEN IsDone(p, j, fields[l]) ELSE IsOpen(h, fields[l])
        BY DEF IsCompletedTo
      <4>2. ~(j > j)
        BY <1>4
      <4> QED
        BY <2>2, <3>1, <4>1, <4>2
    <3> QED
      BY <1>4, <3>2 DEF IsCompletedTo
  <2> QED
    BY <2>1, <2>3
<1>9. CASE old \notin Nat
  <2>1. old = Missing
    BY <1>5, <1>9
  <2>2. IsCompletable(q) /\ IsPadded(q)
    BY <1>3, <1>5, <2>1, StaysCompletable
  <2>3. OnlyValueDiffers(p, q, j, f) /\ q.headers[j].field[f] = v
    BY <1>3, ComputingLeavesOtherFields
  <2>4. UpToDate(q, j, f)
    <3>1. v \notin {Undefined, OutOfBounds}
      BY <1>5, MarkersAreNoValues DEF Markers
    <3>2. IsComputedAnew(p, j, f, FALSE, v)
      BY <2>1, <3>1 DEF IsComputedAnew, IsFilledIn
    <3> QED
      BY <1>3, <3>2, NewValueIsUpToDate
  <2>5. \A i \in DOMAIN p.headers :
          /\ ComputedFieldsOf(q.headers[i]) = ComputedFieldsOf(p.headers[i])
          /\ \A g \in FieldsOf(p.headers[i].case) :
               i # j \/ g # f => q.headers[i].field[g] = p.headers[i].field[g]
    BY <2>3 DEF OnlyValueDiffers
  <2>6. DOMAIN q.headers = DOMAIN p.headers
    BY <2>3 DEF OnlyValueDiffers
  <2>7. ASSUME NEW i \in DOMAIN p.headers, NEW l \in DOMAIN ComputedFieldsOf(p.headers[i])
        PROVE  LET g == ComputedFieldsOf(p.headers[i])[l]
               IN  IF i > j \/ (i = j /\ l < k + 1) THEN IsDone(q, i, g) ELSE IsOpen(q.headers[i], g)
    <3> DEFINE g == ComputedFieldsOf(p.headers[i])[l]
    <3>1. HasFields(p.headers[i]) /\ p.headers[i].case \in HeaderCases
      BY DEF IsStack, HasFields
    <3>2. /\ IsComputed(p.headers[i], g) /\ g \in FieldsOf(p.headers[i].case)
          /\ DOMAIN ComputedFieldsOf(p.headers[i]) = 1 .. Len(ComputedFieldsOf(p.headers[i]))
          /\ Len(ComputedFieldsOf(p.headers[i])) \in Nat
      BY <3>1, ComputedFieldsOfAHeader
    <3>3. IF i > j \/ (i = j /\ l < k) THEN IsDone(p, i, g) ELSE IsOpen(p.headers[i], g)
      BY DEF IsCompletedTo
    <3>4. CASE i = j /\ l = k
      <4>1. g = f /\ l < k + 1
        BY <1>2, <3>4
      <4>2. IsDone(q, j, f)
        BY <1>5, <2>3, <2>4 DEF IsDone
      <4> QED
        BY <3>4, <4>1, <4>2
    <3>5. ASSUME i # j \/ l # k PROVE i # j \/ g # f
      BY <1>2, <3>2, <3>5
    <3>6. CASE (i # j \/ l # k) /\ (i > j \/ (i = j /\ l < k))
      <4>1. IsDone(p, i, g) /\ q.headers[i].field[g] = p.headers[i].field[g]
        BY <2>5, <3>2, <3>3, <3>5, <3>6
      <4>2. i = j => g # f /\ g # "checksum"
        <5> SUFFICES ASSUME i = j, g = "checksum" PROVE FALSE
          BY <3>5, <3>6
        <5>1. l < k
          BY <1>4, <3>6
        <5>2. h.case = "gre"
          <6>1. h.case # "gre" => l = Len(fields)
            BY <1>1, ComputedFieldsOfHeaders
          <6> QED
            BY <1>2, <5>1, <6>1
        <5>3. HasOptionals(h) /\ f \in GreOptionals
          BY <1>3, <5>2, ComputedFieldsOfGre
        <5>4. f = "reserved1"
          BY <3>5, <3>6, <5>1, <5>3 DEF GreOptionals
        <5>5. old = 0
          BY <1>7, <5>2, <5>3, <5>4 DEF IsGiven
        <5> QED
          BY <1>9, <5>5
      <4>3. i >= j
        BY <1>4, <3>6
      <4>4. UpToDate(q, i, g)
        BY <1>3, <3>2, <4>1, <4>2, <4>3, StaysUpToDate DEF IsDone
      <4>5. IsDone(q, i, g)
        <5> HIDE DEF q, g
        <5> QED
          BY <4>1, <4>4 DEF IsDone
      <4> QED
        BY <1>2, <3>2, <3>6, <4>5
    <3>7. CASE (i # j \/ l # k) /\ ~(i > j \/ (i = j /\ l < k))
      <4>1. IsOpen(p.headers[i], g) /\ q.headers[i].field[g] = p.headers[i].field[g]
        BY <2>5, <3>2, <3>3, <3>5, <3>7
      <4>2. IsOpen(q.headers[i], g)
        BY <4>1 DEF IsOpen
      <4>3. ~(i > j \/ (i = j /\ l < k + 1))
        BY <1>2, <1>4, <3>2, <3>7
      <4> QED
        BY <4>2, <4>3
    <3> QED
      BY <3>4, <3>6, <3>7
  <2> HIDE DEF q
  <2>8. IsCompletedTo(q, j, k + 1)
    BY <2>5, <2>6, <2>7 DEF IsCompletedTo
  <2> QED
    BY <2>2, <2>8
<1> QED
  BY <1>8, <1>9

(* When all fields of a header are done, the header before comes next.      *)
LEMMA NextHeaderIsOpen ==
  ASSUME NEW p, IsStack(p), NEW j \in DOMAIN p.headers, NEW pos \in Nat,
         pos > Len(ComputedFieldsOf(p.headers[j])), IsCompletedTo(p, j, pos)
  PROVE  IsCompletedTo(p, j - 1, 1)
<1>1. DOMAIN p.headers = 1 .. Len(p.headers) /\ Len(p.headers) \in Nat
  BY ListsHaveLengths DEF IsStack
<1> SUFFICES ASSUME NEW i \in DOMAIN p.headers, NEW l \in DOMAIN ComputedFieldsOf(p.headers[i])
             PROVE  LET g == ComputedFieldsOf(p.headers[i])[l]
                    IN  IF i > j - 1 \/ (i = j - 1 /\ l < 1) THEN IsDone(p, i, g) ELSE IsOpen(p.headers[i], g)
  BY DEF IsCompletedTo
<1> DEFINE g == ComputedFieldsOf(p.headers[i])[l]
<1>2. p.headers[i].case \in HeaderCases
  BY DEF IsStack, HasFields
<1>3. l \in 1 .. Len(ComputedFieldsOf(p.headers[i])) /\ Len(ComputedFieldsOf(p.headers[i])) \in Nat
  BY <1>2, ComputedFieldsOfAHeader
<1>4. IF i > j \/ (i = j /\ l < pos) THEN IsDone(p, i, g) ELSE IsOpen(p.headers[i], g)
  BY DEF IsCompletedTo
<1>5. (i > j - 1 \/ (i = j - 1 /\ l < 1)) <=> (i > j \/ (i = j /\ l < pos))
  BY <1>1, <1>3
<1> QED
  BY <1>4, <1>5

------------------------------------------------------------------------------
(* From the packet that the caller gives to the one that is padded         *)

(* What the caller leaves to the update is completable, and nothing is done.*)
LEMMA GivenPacketsAreCompletable ==
  ASSUME NEW p, IsStack(p), OnlyComputedFieldsMissing(p)
  PROVE  IsCompletable(p) /\ IsCompletedTo(p, Len(p.headers), 1)
<1>1. DOMAIN p.headers = 1 .. Len(p.headers) /\ Len(p.headers) \in Nat
  BY ListsHaveLengths DEF IsStack
<1>2. ASSUME NEW i \in DOMAIN p.headers
      PROVE  /\ IsGiven(p, i) /\ IsFramed(p, i)
             /\ \A f : IsComputed(p.headers[i], f) => IsOpen(p.headers[i], f)
  <2> DEFINE h == p.headers[i]
  <2>1. HasFields(h) /\ h.case \in HeaderCases
    BY DEF IsStack, HasFields
  <2>2. /\ h.case # "not_set"
        /\ h.options # Malformed /\ Len(h.options) <= 10
        /\ h.case \in {"udp", "icmp"} => FindPrecedingIpHeader(p, i) > 0
        /\ h.case = "gre" => h.field.reserved0 = 0 /\ h.field.version = 0
        /\ h.case = "ethernet" =>
             /\ h.field.ethertype \notin 0 .. Mtu
             /\ h.field.ethertype = Missing => SizeFrom(p, i + 1) <= Mtu
    BY DEF OnlyComputedFieldsMissing
  <2>3. \A f \in FieldsOf(h.case) :
          CASE h.case = "gre" /\ f \in GreOptionals /\ ~HasOptionals(h) -> h.field[f] = Missing
            [] HasOptionals(h) /\ f = "reserved1" -> h.field[f] = 0
            [] IsComputed(h, f) /\ f \notin {"ethertype", "reserved1"} -> h.field[f] = Missing
            [] IsComputed(h, f) /\ f = "ethertype" ->
                 \/ h.field[f] \in Nat
                 \/ h.field[f] = Missing /\ i = Len(p.headers)
            [] OTHER -> h.field[f] \in Nat
    BY DEF OnlyComputedFieldsMissing
  <2>4. \A f : IsComputed(h, f) => f \in FieldsOf(h.case)
    BY <2>1, ComputedFieldsAreFields
  <2>5. \A f : IsComputed(h, f) /\ h.case = "gre" => HasOptionals(h)
    BY ComputedFieldsOfGre
  <2>6. HasOptionals(h) => h.case = "gre"
    BY DEF HasOptionals
  <2>7. \A f : IsComputed(h, f) => (f = "ethertype" <=> h.case = "ethernet")
    BY <2>1, ComputedFieldsOfHeaders DEF IsComputed
  <2>8. h.case = "ethernet" => IsComputed(h, "ethertype")
    <3> SUFFICES ASSUME h.case = "ethernet" PROVE IsComputed(h, "ethertype")
      OBVIOUS
    <3>1. ComputedFieldsOf(h) = <<"ethertype">>
      BY DEF ComputedFieldsOf, ComputedFields
    <3> QED
      BY <3>1 DEF IsComputed
  <2> HIDE DEF h
  <2>9. \A f \in FieldsOf(h.case) :
          \/ h.field[f] \in Nat
          \/ h.field[f] = Missing /\ IsComputed(h, f)
          \/ h.field[f] = Missing /\ h.case = "gre" /\ f \in GreOptionals /\ ~HasOptionals(h)
    <3> SUFFICES ASSUME NEW f \in FieldsOf(h.case)
                 PROVE  \/ h.field[f] \in Nat
                        \/ h.field[f] = Missing /\ IsComputed(h, f)
                        \/ h.field[f] = Missing /\ h.case = "gre" /\ f \in GreOptionals /\ ~HasOptionals(h)
      OBVIOUS
    <3> QED
      BY <2>3, <2>6
  <2>10. h.case = "gre" =>
           /\ h.field.reserved0 = 0 /\ h.field.version = 0
           /\ HasOptionals(h) => h.field.reserved1 = 0
           /\ ~HasOptionals(h) => \A f \in GreOptionals : h.field[f] = Missing
    <3> SUFFICES ASSUME h.case = "gre"
                 PROVE  /\ HasOptionals(h) => h.field.reserved1 = 0
                        /\ ~HasOptionals(h) => \A f \in GreOptionals : h.field[f] = Missing
      BY <2>2 DEF h
    <3>1. "checksum" \in FieldsOf(h.case) /\ "reserved1" \in FieldsOf(h.case)
      BY DEF FieldsOf, Fields
    <3>2. HasOptionals(h) => h.field.reserved1 = 0
      BY <2>3, <3>1
    <3>3. ASSUME ~HasOptionals(h), NEW f \in GreOptionals PROVE h.field[f] = Missing
      <4>1. f \in FieldsOf(h.case)
        BY <3>1, <3>3 DEF GreOptionals
      <4>2. h.case = "gre" /\ f \in GreOptionals /\ ~HasOptionals(h)
        BY <3>3
      <4>3. ~IsComputed(h, f)
        BY <2>5, <4>2
      <4> QED
        BY <2>3, <4>1, <4>2, <4>3
    <3> QED
      BY <3>2, <3>3
  <2>11. IsGiven(p, i)
    BY <2>2, <2>9, <2>10 DEF IsGiven, h
  <2>12. IsFramed(p, i)
    <3> SUFFICES ASSUME h.case = "ethernet"
                 PROVE  \/ h.field.ethertype \in Nat /\ (h.field.ethertype > Mtu \/ i = Len(p.headers))
                        \/ h.field.ethertype = Missing /\ i = Len(p.headers) /\ SizeFrom(p, i + 1) <= Mtu
      BY DEF IsFramed, h
    <3>1. IsComputed(h, "ethertype") /\ "ethertype" \in FieldsOf(h.case)
      BY <2>4, <2>8
    <3>2. h.field.ethertype \in Nat \/ (h.field.ethertype = Missing /\ i = Len(p.headers))
      BY <2>3, <2>6, <3>1
    <3>3. h.field.ethertype \notin 0 .. Mtu /\ (h.field.ethertype = Missing => SizeFrom(p, i + 1) <= Mtu)
      BY <2>2 DEF h
    <3>4. Mtu \in Nat
      BY SizesAreNumbers
    <3>5. h.field.ethertype \in Nat => h.field.ethertype > Mtu
      BY <3>3, <3>4
    <3> QED
      BY <3>2, <3>3, <3>5
  <2>13. ASSUME NEW f, IsComputed(h, f) PROVE IsOpen(h, f)
    <3>1. CASE f = "ethertype"
      BY <2>2, <2>7, <2>13, <3>1 DEF IsOpen, h
    <3>2. CASE f \notin {"ethertype", "reserved1"}
      <4>1. h.field[f] = Missing
        BY <2>3, <2>4, <2>5, <2>13, <3>2
      <4> QED
        BY <3>2, <4>1 DEF IsOpen
    <3>3. CASE f = "reserved1"
      BY <3>3 DEF IsOpen
    <3> QED
      BY <3>1, <3>2, <3>3
  <2> QED
    BY <2>11, <2>12, <2>13 DEF h
<1>3. IsCompletable(p)
  <2>1. p.headers # << >> /\ OrderValid(Shortest(p.headers))
    BY DEF OnlyComputedFieldsMissing, Shortest
  <2> QED
    BY <1>2, <2>1 DEF IsCompletable
<1>4. ASSUME NEW i \in DOMAIN p.headers, NEW k \in DOMAIN ComputedFieldsOf(p.headers[i])
      PROVE  LET f == ComputedFieldsOf(p.headers[i])[k]
             IN  IF i > Len(p.headers) \/ (i = Len(p.headers) /\ k < 1) THEN IsDone(p, i, f)
                 ELSE IsOpen(p.headers[i], f)
  <2>1. p.headers[i].case \in HeaderCases
    BY DEF IsStack, HasFields
  <2>2. k \in 1 .. Len(ComputedFieldsOf(p.headers[i])) /\ Len(ComputedFieldsOf(p.headers[i])) \in Nat
    BY <2>1, ComputedFieldsOfAHeader
  <2>3. ~(i > Len(p.headers) \/ (i = Len(p.headers) /\ k < 1))
    BY <1>1, <2>2
  <2>4. IsComputed(p.headers[i], ComputedFieldsOf(p.headers[i])[k])
    BY DEF IsComputed
  <2> QED
    BY <1>2, <2>3, <2>4
<1> QED
  BY <1>3, <1>4 DEF IsCompletedTo

(* Ethernet comes first, or after a packet-in header, which comes first.    *)
LEMMA EthernetComesFirst ==
  ASSUME NEW p, IsStack(p), IsCompletable(p), NEW i \in 2 .. Len(p.headers), p.headers[i].case = "ethernet"
  PROVE  i = 2 /\ p.headers[1].case = "packet_in"
<1>1. DOMAIN p.headers = 1 .. Len(p.headers) /\ Len(p.headers) \in Nat
  BY ListsHaveLengths DEF IsStack
<1> DEFINE above == WithShortestOptions(p.headers[i - 1])
<1>2. /\ p.headers[i].case = ExpectedHeaderCase(above) /\ above.case = p.headers[i - 1].case
      /\ p.headers[i - 1].case \in HeaderCases
  BY OrderOfCompletables
<1> HIDE DEF above
<1>3. p.headers[i - 1].case = "packet_in"
  BY <1>2, ExpectedHeaders
<1>4. ASSUME i # 2 PROVE FALSE
  <2> DEFINE j == i - 1
             first == WithShortestOptions(p.headers[j - 1])
  <2>1. j \in 2 .. Len(p.headers)
    BY <1>1, <1>4
  <2> HIDE DEF j
  <2>2. /\ p.headers[j].case = ExpectedHeaderCase(first) /\ first.case = p.headers[j - 1].case
        /\ p.headers[j - 1].case \in HeaderCases
    BY <2>1, OrderOfCompletables
  <2> HIDE DEF first
  <2>3. p.headers[j].case # "packet_in"
    BY <2>2, ExpectedHeaders
  <2> QED
    BY <1>3, <2>3 DEF j
<1>5. i = 2
  BY <1>4
<1> QED
  BY <1>3, <1>5

LEMMA OneEthernet ==
  ASSUME NEW p, IsStack(p), IsCompletable(p), NEW i \in DOMAIN p.headers, NEW j \in DOMAIN p.headers,
         p.headers[i].case = "ethernet", p.headers[j].case = "ethernet"
  PROVE  i = j
<1>1. DOMAIN p.headers = 1 .. Len(p.headers) /\ Len(p.headers) \in Nat
  BY ListsHaveLengths DEF IsStack
<1>2. i = 1 \/ (i = 2 /\ p.headers[1].case = "packet_in")
  BY <1>1, EthernetComesFirst
<1>3. j = 1 \/ (j = 2 /\ p.headers[1].case = "packet_in")
  BY <1>1, EthernetComesFirst
<1> QED
  BY <1>2, <1>3

LEMMA EthernetIsFound ==
  ASSUME NEW p, IsStack(p), IsCompletable(p), NEW i \in DOMAIN p.headers
  PROVE  HasEthernet(p, i) <=> p.headers[i].case = "ethernet"
<1>1. DOMAIN p.headers = 1 .. Len(p.headers) /\ Len(p.headers) \in Nat
  BY ListsHaveLengths DEF IsStack
<1>2. ASSUME p.headers[i].case = "ethernet", NEW j \in 1 .. i - 1
      PROVE  p.headers[j].case \notin {"ethernet", "not_set"}
  <2>1. j \in DOMAIN p.headers /\ j # i
    BY <1>1
  <2>2. p.headers[j].case # "not_set"
    BY <2>1 DEF IsCompletable, IsGiven
  <2> QED
    BY <1>2, <2>1, <2>2, OneEthernet
<1> QED
  BY <1>2 DEF HasEthernet

LEMMA Zeros ==
  ASSUME NEW n \in Nat
  PROVE  [k \in 1 .. n |-> 0] \in Seq(Nat) /\ Len([k \in 1 .. n |-> 0]) = n
<1>1. [k \in 1 .. n |-> 0] \in [1 .. n -> Nat]
  OBVIOUS
<1>2. [k \in 1 .. n |-> 0] \in Seq(Nat)
  BY <1>1, SeqDef
<1>3. DOMAIN [k \in 1 .. n |-> 0] = 1 .. n
  OBVIOUS
<1> QED
  BY <1>2, <1>3, LenProperties

(* Padding makes room for the smallest frame, and fills in no field.        *)
LEMMA PaddedPackets ==
  ASSUME NEW p, IsStack(p), IsTyped(p), IsCompletable(p), IsCompletedTo(p, Len(p.headers), 1),
         NEW i \in DOMAIN p.headers, p.headers[i].case = "ethernet"
  PROVE  LET q == Padded(p, i)
         IN  /\ q.headers = p.headers
             /\ IsCompletable(q) /\ IsPadded(q) /\ IsCompletedTo(q, Len(p.headers), 1)
<1> DEFINE q == Padded(p, i)
           size == SizeFrom(p, i + 1)
           zeros == [k \in 1 .. MinPayload - size |-> 0]
<1>1. DOMAIN p.headers = 1 .. Len(p.headers) /\ Len(p.headers) \in Nat /\ i + 1 \in 1 .. Len(p.headers) + 1
  BY ListsHaveLengths DEF IsStack
<1>2. size \in Nat
  BY <1>1, CompletablePacketsHaveSizes
<1>3. MinPayload \in Nat /\ Mtu \in Nat /\ MinPayload <= Mtu
  BY SizesAreNumbers
<1>4. q = IF MinPayload - size <= 0 THEN p ELSE WithTrailer(p, zeros)
  BY DEF Padded, WithTrailer
<1>5. q.headers = p.headers /\ SizeFrom(q, i + 1) >= MinPayload
      /\ (SizeFrom(q, i + 1) = size \/ SizeFrom(q, i + 1) <= Mtu)
  <2>1. CASE MinPayload - size <= 0
    <3>1. q = p /\ SizeFrom(q, i + 1) = size
      BY <1>4, <2>1
    <3> HIDE DEF q, size
    <3> QED
      BY <1>2, <1>3, <2>1, <3>1
  <2>2. CASE ~(MinPayload - size <= 0)
    <3>1. q = WithTrailer(p, zeros)
      BY <1>4, <2>2
    <3>2. MinPayload - size \in Nat
      BY <1>2, <1>3, <2>2
    <3>3. zeros \in Seq(Nat) /\ Len(zeros) = MinPayload - size
      BY <3>2, Zeros
    <3> HIDE DEF zeros
    <3>4. SizeFrom(WithTrailer(p, zeros), i + 1) = size + Len(zeros)
      BY <1>1, <1>2, <3>3, AppendedCellsAreCounted
    <3>5. WithTrailer(p, zeros) = [headers |-> p.headers, payload |-> p.payload \o zeros]
      BY PayloadReplaced DEF WithTrailer
    <3>6. WithTrailer(p, zeros).headers = p.headers
      BY <3>5
    <3> HIDE DEF size, q
    <3> QED
      BY <1>2, <1>3, <3>1, <3>3, <3>4, <3>6
  <2> QED
    BY <2>1, <2>2
<1> HIDE DEF q
<1>6. \A m \in DOMAIN p.headers : p.headers[m].case = "ethernet" => m = i
  BY OneEthernet
<1>7. ASSUME NEW m \in DOMAIN p.headers PROVE IsGiven(q, m) /\ IsFramed(q, m)
  <2>1. IsGiven(p, m) /\ IsFramed(p, m)
    BY DEF IsCompletable
  <2>2. FindPrecedingIpHeader(q, m) = FindPrecedingIpHeader(p, m)
    BY <1>5 DEF FindPrecedingIpHeader
  <2>3. IsGiven(q, m)
    BY <1>5, <2>1, <2>2 DEF IsGiven
  <2>4. IsFramed(q, m)
    <3>1. CASE m = i
      BY <1>5, <2>1, <3>1 DEF IsFramed
    <3>2. CASE m # i
      BY <1>5, <1>6, <3>2 DEF IsFramed
    <3> QED
      BY <3>1, <3>2
  <2> QED
    BY <2>3, <2>4
<1>8. IsCompletable(q)
  BY <1>5, <1>7 DEF IsCompletable
<1>9. IsPadded(q)
  BY <1>5, <1>6 DEF IsPadded
<1>10. IsCompletedTo(q, Len(p.headers), 1)
  <2> SUFFICES ASSUME NEW m \in DOMAIN p.headers, NEW k \in DOMAIN ComputedFieldsOf(p.headers[m])
               PROVE  LET f == ComputedFieldsOf(p.headers[m])[k]
                      IN  IF m > Len(p.headers) \/ (m = Len(p.headers) /\ k < 1) THEN IsDone(q, m, f)
                          ELSE IsOpen(p.headers[m], f)
    BY <1>5 DEF IsCompletedTo
  <2>1. p.headers[m].case \in HeaderCases
    BY DEF IsStack, HasFields
  <2>2. k \in 1 .. Len(ComputedFieldsOf(p.headers[m])) /\ Len(ComputedFieldsOf(p.headers[m])) \in Nat
    BY <2>1, ComputedFieldsOfAHeader
  <2>3. ~(m > Len(p.headers) \/ (m = Len(p.headers) /\ k < 1))
    BY <1>1, <2>2
  <2>4. IsOpen(p.headers[m], ComputedFieldsOf(p.headers[m])[k])
    BY <2>3 DEF IsCompletedTo
  <2> QED
    BY <2>3, <2>4
<1> QED
  BY <1>5, <1>8, <1>9, <1>10 DEF q

------------------------------------------------------------------------------
(* SerializePacket sends completable packets                               *)

(* What the loop ends with is valid and can be sent.                        *)
LEMMA CompletedHeadersAreThere ==
  ASSUME NEW p, IsStack(p), IsCompletable(p), IsCompletedTo(p, 0, 1), NEW i \in DOMAIN p.headers
  PROVE  /\ \A f : IsComputed(p.headers[i], f) => IsDone(p, i, f)
         /\ \A f \in FieldsOf(p.headers[i].case) :
              \/ p.headers[i].field[f] \in Nat
              \/ /\ p.headers[i].field[f] = Missing
                 /\ p.headers[i].case = "gre" /\ f \in GreOptionals /\ ~HasOptionals(p.headers[i])
         /\ FieldsValid(p.headers[i])
<1> DEFINE h == p.headers[i]
<1>1. i > 0
  BY ListsHaveLengths DEF IsStack
<1>2. ASSUME NEW f, IsComputed(h, f) PROVE IsDone(p, i, f)
  <2>1. PICK k \in DOMAIN ComputedFieldsOf(h) : ComputedFieldsOf(h)[k] = f
    BY <1>2 DEF IsComputed
  <2> QED
    BY <1>1, <2>1 DEF IsCompletedTo
<1>3. IsGiven(p, i)
  BY DEF IsCompletable
<1>4. \A f : IsComputed(h, f) => h.field[f] \in Nat
  BY <1>2 DEF IsDone
<1>5. \A f \in FieldsOf(h.case) :
        \/ h.field[f] \in Nat
        \/ h.field[f] = Missing /\ h.case = "gre" /\ f \in GreOptionals /\ ~HasOptionals(h)
  BY <1>3, <1>4 DEF IsGiven
<1>6. FieldsValid(h)
  <2>1. h.case # "not_set" /\ OptionsValid(h)
    BY <1>3 DEF IsGiven, OptionsValid
  <2>2. CASE h.case # "gre"
    BY <1>5, <2>1, <2>2 DEF FieldsValid
  <2>3. CASE h.case = "gre"
    <3>1. {"checksum_present", "reserved0", "version", "checksum", "reserved1"} \subseteq FieldsOf(h.case)
      BY <2>3 DEF FieldsOf, Fields
    <3>2. \A f \in {"checksum_present", "reserved0", "version"} : f \notin GreOptionals
      BY DEF GreOptionals
    <3>3. \A f \in {"checksum_present", "reserved0", "version"} : h.field[f] \in Nat
      BY <1>5, <3>1, <3>2
    <3>4. h.field.reserved0 = 0 /\ h.field.version = 0
      BY <1>3, <2>3 DEF IsGiven
    <3>5. ASSUME NEW f \in GreOptionals PROVE IF HasOptionals(h) THEN h.field[f] \in Nat ELSE h.field[f] = Missing
      <4>1. f \in FieldsOf(h.case)
        BY <3>1 DEF GreOptionals
      <4>2. ~HasOptionals(h) => h.field[f] = Missing
        BY <1>3, <2>3 DEF IsGiven
      <4> QED
        BY <1>5, <4>1, <4>2
    <3>6. GreFieldsValid(h)
      BY <3>3, <3>4, <3>5 DEF GreFieldsValid
    <3> QED
      BY <2>1, <2>3, <3>6 DEF FieldsValid
  <2> QED
    BY <2>2, <2>3
<1> QED
  BY <1>2, <1>5, <1>6

LEMMA CompletedFieldsAreValid ==
  ASSUME NEW p, IsStack(p), IsTyped(p), IsCompletable(p), IsPadded(p), IsCompletedTo(p, 0, 1),
         NEW i \in DOMAIN p.headers, NEW f, IsComputed(p.headers[i], f)
  PROVE  ComputedFieldValid(p, i, f)
<1> DEFINE h == p.headers[i]
<1>1. p.headers[i].field[f] \in Nat /\ UpToDate(p, i, f)
  BY CompletedHeadersAreThere DEF IsDone
<1>2. CASE h.case # "ethernet"
  BY <1>1, <1>2 DEF UpToDate
<1>3. CASE h.case = "ethernet"
  <2>1. DOMAIN p.headers = 1 .. Len(p.headers) /\ Len(p.headers) \in Nat /\ i + 1 \in 1 .. Len(p.headers) + 1
    BY ListsHaveLengths DEF IsStack
  <2>2. f = "ethertype"
    BY <1>3, ComputedFieldsOfHeaders DEF IsComputed, IsStack, HasFields
  <2> DEFINE size == SizeFrom(p, i + 1)
             ethertype == h.field.ethertype
  <2>3. size \in Nat /\ size # Undefined
    BY <2>1, CompletablePacketsHaveSizes, MarkersAreNoValues DEF Markers
  <2>4. ethertype \in Nat
    BY <1>1, <2>2
  <2>5. size >= MinPayload
    BY <1>3 DEF IsPadded
  <2>6. i < Len(p.headers) \/ ethertype \notin 0 .. Mtu \/ ethertype = size
    BY <1>1, <1>3 DEF UpToDate
  <2>7. ethertype > Mtu \/ i = Len(p.headers)
    <3>1. Missing \notin Nat
      BY MarkersAreNoValues DEF Markers
    <3> QED
      BY <1>3, <2>4, <3>1 DEF IsFramed, IsCompletable
  <2> HIDE DEF size, ethertype
  <2>8. IF ethertype <= Mtu THEN ethertype = size ELSE size >= MinPayload
    <3>1. Mtu \in Nat
      BY SizesAreNumbers
    <3> QED
      BY <2>1, <2>4, <2>5, <2>6, <2>7, <3>1
  <2>9. EthernetValid(p, i)
    BY <2>3, <2>8 DEF EthernetValid, size, ethertype
  <2> QED
    BY <1>3, <2>9 DEF ComputedFieldValid
<1> QED
  BY <1>2, <1>3

LEMMA CompletedPacketsAreInOrder ==
  ASSUME NEW p, IsStack(p), IsCompletable(p), IsCompletedTo(p, 0, 1)
  PROVE  OrderValid(p.headers)
<1>1. ASSUME NEW i \in DOMAIN p.headers PROVE WithShortestOptions(p.headers[i]) = p.headers[i]
  <2> DEFINE h == p.headers[i]
  <2>1. HasFields(h)
    BY DEF IsStack
  <2>2. CASE h.case = "hop_by_hop"
    <3>1. ComputedFieldsOf(h) = <<"header_extension_length", "options_and_padding">>
      BY <2>2 DEF ComputedFieldsOf, ComputedFields
    <3>2. IsComputed(h, "header_extension_length")
      BY <3>1 DEF IsComputed
    <3>3. IsDone(p, i, "header_extension_length")
      BY <3>2, CompletedHeadersAreThere
    <3>4. h.field.header_extension_length = 0
      BY <3>3 DEF IsDone
    <3> QED
      BY <2>1, <2>2, <3>4, ShortestOptions
  <2>3. CASE h.case # "hop_by_hop"
    BY <2>3 DEF WithShortestOptions
  <2> QED
    BY <2>2, <2>3
<1>2. p.headers = [i \in DOMAIN p.headers |-> p.headers[i]]
  BY ListsHaveLengths DEF IsStack
<1>3. Shortest(p.headers) = [i \in DOMAIN p.headers |-> p.headers[i]]
  BY <1>1 DEF Shortest
<1> QED
  BY <1>2, <1>3 DEF IsCompletable

LEMMA CompletedPacketsAreValid ==
  ASSUME NEW p, IsStack(p), IsTyped(p), IsCompletable(p), IsPadded(p), IsCompletedTo(p, 0, 1)
  PROVE  PacketValid(p) /\ ~ValidationFails(p) /\ RawSerializePacket(p) # Undefined
<1>1. PacketValid(p)
  <2>1. \A i \in DOMAIN p.headers : \A k \in DOMAIN ComputedFieldsOf(p.headers[i]) :
          ComputedFieldValid(p, i, ComputedFieldsOf(p.headers[i])[k])
    BY CompletedFieldsAreValid DEF IsComputed
  <2>2. \A i \in DOMAIN p.headers : FieldsValid(p.headers[i])
    BY CompletedHeadersAreThere
  <2>3. p.headers # << >> /\ OrderValid(p.headers)
    BY CompletedPacketsAreInOrder DEF IsCompletable
  <2> QED
    BY <2>1, <2>2, <2>3 DEF PacketValid
<1>2. ~ValidationFails(p)
  <2> SUFFICES ASSUME NEW i \in DOMAIN p.headers
               PROVE  /\ p.headers[i].case = "ethernet" => p.headers[i].field.ethertype \in Nat
                      /\ p.headers[i].case \in {"udp", "icmp"} => FindPrecedingIpHeader(p, i) # 0
    BY DEF ValidationFails
  <2>1. p.headers[i].case = "ethernet" => "ethertype" \in FieldsOf(p.headers[i].case)
    BY DEF FieldsOf, Fields
  <2>2. p.headers[i].case = "ethernet" => p.headers[i].field.ethertype \in Nat
    BY <2>1, CompletedHeadersAreThere
  <2>3. p.headers[i].case \in {"udp", "icmp"} => FindPrecedingIpHeader(p, i) > 0
    BY DEF IsCompletable, IsGiven
  <2> QED
    BY <2>2, <2>3
<1>3. RawSerializePacket(p) # Undefined
  <2>1. \A i \in DOMAIN p.headers : \A f : IsComputed(p.headers[i], f) => p.headers[i].field[f] \in Nat
    BY CompletedHeadersAreThere DEF IsDone
  <2>2. \A i \in DOMAIN p.headers : Serializable(p.headers[i])
    BY <2>1, DoneHeadersAreSerializable
  <2>3. RawSerializePacket(p) \in Seq(Nat)
    BY <2>2, SerializablePackets
  <2>4. Undefined \notin Seq(Nat)
    BY MarkersAreNoValues DEF Markers
  <2> QED
    BY <2>3, <2>4
<1> QED
  BY <1>1, <1>2, <1>3

(* A packet on its way through SerializePacket.                             *)
SendsACompletable == call = "SerializePacket" /\ OnlyComputedFieldsMissing(before)

SendInv ==
  SendsACompletable =>
    /\ result \notin {"error", "failed"}
    /\ todo = <<"pad", "missing", "validate">> =>
         packet = before /\ index = Len(packet.headers) /\ position = 1
    /\ todo \in {<<"missing", "validate">>, <<"validate">>} =>
         IsCompletable(packet) /\ IsPadded(packet) /\ IsCompletedTo(packet, index, position)
    /\ todo = <<"validate">> => index = 0

LEMMA SendingSteps ==
  ASSUME UpdateInv, SendsACompletable, todo # << >>
  PROVE  /\ Head(todo) = "pad" => todo = <<"pad", "missing", "validate">> /\ Tail(todo) = <<"missing", "validate">>
         /\ Head(todo) \in {"missing", "all"} =>
              /\ todo = <<"missing", "validate">> /\ Tail(todo) = <<"validate">>
              /\ Overwrite = FALSE
         /\ Head(todo) = "validate" => todo = <<"validate">>
<1>1. todo \in {<<"pad", "missing", "validate">>, <<"missing", "validate">>, <<"validate">>}
  BY DEF UpdateInv, CallSteps, SendsACompletable
<1>2. CASE todo = <<"pad", "missing", "validate">>
  BY <1>2
<1>3. CASE todo = <<"missing", "validate">>
  BY <1>3 DEF Overwrite
<1>4. CASE todo = <<"validate">>
  BY <1>4
<1> QED
  BY <1>1, <1>2, <1>3, <1>4

LEMMA PadKeepsSendInv ==
  ASSUME UpdateInv, StaleInv, SendInv, Pad
  PROVE  SendInv'
<1>1. todo # << >> /\ Head(todo) = "pad" /\ UNCHANGED <<before, call, index, position>>
  BY DEF Pad, loop
<1> SUFFICES ASSUME SendsACompletable
             PROVE  /\ todo' = <<"missing", "validate">> /\ result' = "none"
                    /\ IsCompletable(packet') /\ IsPadded(packet') /\ IsCompletedTo(packet', index, position)
  BY <1>1 DEF SendInv, SendsACompletable
<1>2. todo = <<"pad", "missing", "validate">> /\ Tail(todo) = <<"missing", "validate">>
  BY <1>1, SendingSteps
<1>3. packet = before /\ index = Len(packet.headers) /\ position = 1
  BY <1>2 DEF SendInv
<1>4. IsStack(packet) /\ IsTyped(packet)
  BY DEF UpdateInv, StaleInv
<1>5. IsCompletable(packet) /\ IsCompletedTo(packet, Len(packet.headers), 1)
  BY <1>3, <1>4, GivenPacketsAreCompletable DEF SendsACompletable
<1>6. CASE \E i \in DOMAIN packet.headers : HasEthernet(packet, i)
  <2> DEFINE i == CHOOSE i \in DOMAIN packet.headers : HasEthernet(packet, i)
  <2>1. i \in DOMAIN packet.headers /\ HasEthernet(packet, i)
    BY <1>6
  <2>2. IF SizeFrom(packet, i + 1) = Undefined THEN Stop("error") ELSE Proceed(Padded(packet, i))
    BY <1>6 DEF Pad
  <2> HIDE DEF i
  <2>3. packet.headers[i].case = "ethernet"
    BY <2>1 DEF HasEthernet
  <2>4. i + 1 \in 1 .. Len(packet.headers) + 1
    BY <1>4, <2>1, ListsHaveLengths DEF IsStack
  <2>5. SizeFrom(packet, i + 1) # Undefined
    BY <1>4, <1>5, <2>4, CompletablePacketsHaveSizes, MarkersAreNoValues DEF Markers
  <2>6. packet' = Padded(packet, i) /\ todo' = Tail(todo) /\ (Tail(todo) # << >> => result' = "none")
    BY <2>2, <2>5 DEF Proceed
  <2>7. /\ IsCompletable(Padded(packet, i)) /\ IsPadded(Padded(packet, i))
        /\ IsCompletedTo(Padded(packet, i), Len(packet.headers), 1)
    BY <1>4, <1>5, <2>1, <2>3, PaddedPackets
  <2> QED
    BY <1>2, <1>3, <2>6, <2>7
<1>7. CASE ~ \E i \in DOMAIN packet.headers : HasEthernet(packet, i)
  <2>1. packet' = packet /\ todo' = Tail(todo) /\ (Tail(todo) # << >> => result' = "none")
    BY <1>7 DEF Pad, Proceed
  <2>2. IsPadded(packet)
    BY <1>4, <1>5, <1>7, EthernetIsFound DEF IsPadded
  <2> QED
    BY <1>2, <1>3, <1>5, <2>1, <2>2
<1> QED
  BY <1>6, <1>7

LEMMA UpdateFieldKeepsSendInv ==
  ASSUME UpdateInv, StaleInv, SendInv, UpdateField
  PROVE  SendInv'
<1>1. todo # << >> /\ Head(todo) \in {"missing", "all"} /\ UNCHANGED <<before, call>>
  BY DEF UpdateField, Updating
<1> SUFFICES ASSUME SendsACompletable
             PROVE  /\ todo' = todo /\ result' \notin {"error", "failed"} /\ index' = index
                    /\ IsCompletable(packet') /\ IsPadded(packet') /\ IsCompletedTo(packet', index, position')
  <2>1. ~SendsACompletable => SendInv'
    BY <1>1 DEF SendInv, SendsACompletable
  <2>2. SendsACompletable => todo = <<"missing", "validate">>
    BY <1>1, SendingSteps
  <2> QED
    BY <1>1, <2>1, <2>2 DEF SendInv
<1>2. todo = <<"missing", "validate">> /\ Overwrite = FALSE
  BY <1>1, SendingSteps
<1>3. IsCompletable(packet) /\ IsPadded(packet) /\ IsCompletedTo(packet, index, position) /\ result \notin {"error", "failed"}
  BY <1>2 DEF SendInv
<1>4. IsStack(packet) /\ IsTyped(packet)
  BY DEF UpdateInv, StaleInv
<1> DEFINE h == packet.headers[index]
           f == ComputedFieldsOf(h)[position]
           v == NewValue(packet, index, f, FALSE)
<1>5. index \in DOMAIN packet.headers /\ position <= Len(ComputedFieldsOf(h)) /\ position \in Nat \ {0}
  BY UpdateFieldComputesOrStops DEF UpdateField, UpdateInv
<1>6. position \in DOMAIN ComputedFieldsOf(h)
  <2>1. h.case \in HeaderCases
    BY <1>4, <1>5 DEF IsStack, HasFields
  <2> QED
    BY <1>5, <2>1, ComputedFieldsOfAHeader
<1>7. IsFilledIn(packet, index, f, v)
  BY DEF IsFilledIn
<1>8. UpdateField =>
        CASE v = Undefined -> Stop("error") /\ UNCHANGED <<loop, changes>>
          [] v = OutOfBounds -> Stop("failed") /\ UNCHANGED <<loop, changes>>
          [] OTHER -> /\ packet' = [packet EXCEPT !.headers[index] = WithField(@, f, v)]
                      /\ changes' = Changed(h, f, v)
                      /\ position' = position + 1
                      /\ UNCHANGED <<todo, index, result>>
  BY <1>2 DEF UpdateField
<1> HIDE DEF f, v
<1>9. /\ v \in Nat
      /\ IsCompletable(WithValue(packet, index, f, v)) /\ IsPadded(WithValue(packet, index, f, v))
      /\ IsCompletedTo(WithValue(packet, index, f, v), index, position + 1)
  BY <1>3, <1>4, <1>5, <1>6, <1>7, OneFieldIsCompleted DEF f
<1>10. v # Undefined /\ v # OutOfBounds
  BY <1>9, MarkersAreNoValues DEF Markers
<1>11. packet' = WithValue(packet, index, f, v) /\ position' = position + 1 /\ UNCHANGED <<todo, index, result>>
  BY <1>8, <1>10 DEF WithValue
<1> QED
  BY <1>3, <1>9, <1>11

LEMMA NextHeaderKeepsSendInv ==
  ASSUME UpdateInv, StaleInv, SendInv, NextHeader
  PROVE  SendInv'
<1>1. todo # << >> /\ Head(todo) \in {"missing", "all"} /\ index > 0 /\ UNCHANGED <<before, call>>
  BY DEF NextHeader, Updating
<1> SUFFICES ASSUME SendsACompletable PROVE SendInv'
  BY <1>1 DEF SendInv, SendsACompletable
<1>2. todo = <<"missing", "validate">>
  BY <1>1, SendingSteps
<1>3. IsCompletable(packet) /\ IsPadded(packet) /\ IsCompletedTo(packet, index, position) /\ result \notin {"error", "failed"}
  BY <1>2 DEF SendInv
<1>4. IsStack(packet) /\ index \in DOMAIN packet.headers /\ position \in Nat
  BY <1>1, ListsHaveLengths DEF UpdateInv, IsStack
<1>5. packet.headers[index].case # "not_set"
  BY <1>3, <1>4 DEF IsCompletable, IsGiven
<1>6. /\ position > Len(ComputedFieldsOf(packet.headers[index]))
      /\ index' = index - 1 /\ position' = 1
      /\ UNCHANGED <<packet, todo, result>>
  BY <1>5 DEF NextHeader
<1>7. IsCompletedTo(packet, index - 1, 1)
  BY <1>3, <1>4, <1>6, NextHeaderIsOpen
<1> QED
  BY <1>2, <1>3, <1>6, <1>7 DEF SendInv

LEMMA ValidateKeepsSendInv ==
  ASSUME UpdateInv, StaleInv, SendInv, Validate
  PROVE  SendInv'
<1>1. todo # << >> /\ Head(todo) = "validate" /\ UNCHANGED <<before, call>>
  BY DEF Validate
<1> SUFFICES ASSUME SendsACompletable PROVE todo' = << >> /\ result' = "ok"
  BY <1>1 DEF SendInv, SendsACompletable
<1>2. todo = <<"validate">>
  BY <1>1, SendingSteps
<1>3. IsCompletable(packet) /\ IsPadded(packet) /\ IsCompletedTo(packet, 0, position)
  BY <1>2 DEF SendInv
<1>4. IsStack(packet) /\ IsTyped(packet)
  BY DEF UpdateInv, StaleInv
<1>5. IsCompletedTo(packet, 0, 1)
  <2>1. \A i \in DOMAIN packet.headers : i > 0 /\ i # 0
    BY <1>4, ListsHaveLengths DEF IsStack
  <2> QED
    BY <1>3, <2>1 DEF IsCompletedTo
<1>6. PacketValid(packet) /\ ~ValidationFails(packet) /\ RawSerializePacket(packet) # Undefined
  BY <1>3, <1>4, <1>5, CompletedPacketsAreValid
<1> QED
  BY <1>6 DEF Validate, Stop

LEMMA NextKeepsSendInv ==
  ASSUME UpdateInv, StaleInv, SendInv, [Next]_vars
  PROVE  SendInv'
<1>1. CASE Pad
  BY <1>1, PadKeepsSendInv
<1>2. CASE UpdateField
  BY <1>2, UpdateFieldKeepsSendInv
<1>3. CASE NextHeader
  BY <1>3, NextHeaderKeepsSendInv
<1>4. CASE FinishUpdate
  <2>1. /\ todo # << >> /\ Head(todo) \in {"missing", "all"} /\ index = 0 /\ packet' = packet
        /\ UNCHANGED <<before, call, index, position>> /\ todo' = Tail(todo)
        /\ Tail(todo) # << >> => result' = "none"
    BY <1>4 DEF FinishUpdate, Updating, Proceed, loop
  <2> SUFFICES ASSUME SendsACompletable PROVE SendInv'
    BY <2>1 DEF SendInv, SendsACompletable
  <2>2. todo = <<"missing", "validate">> /\ todo' = <<"validate">>
    BY <2>1, SendingSteps
  <2>3. result' = "none"
    BY <2>1, <2>2
  <2>4. IsCompletable(packet) /\ IsPadded(packet) /\ IsCompletedTo(packet, index, position)
    BY <2>2 DEF SendInv
  <2> QED
    BY <2>1, <2>2, <2>3, <2>4 DEF SendInv
<1>5. CASE Validate
  BY <1>5, ValidateKeepsSendInv
<1>6. CASE UNCHANGED vars \/ Aborted
  <2>1. UNCHANGED <<packet, before, call, todo, index, position, result>>
    BY <1>6 DEF Aborted, vars, loop
  <2> QED
    BY <2>1 DEF SendInv, SendsACompletable
<1>7. ASSUME NEW i \in DOMAIN packet.headers, NEW f \in FieldsOf(packet.headers[i].case),
             NEW value \in EditValues, EditField(i, f, value)
      PROVE  SendInv'
  <2>1. todo = << >> /\ todo' = todo /\ result' = "none"
    BY <1>7 DEF EditField
  <2> QED
    BY <2>1 DEF SendInv
<1>8. ASSUME NEW c \in DOMAIN Calls, Call(c) PROVE SendInv'
  <2>1. /\ packet' = packet /\ before' = packet /\ index' = Len(packet.headers) /\ position' = 1 /\ result' = "none"
        /\ call' = c /\ todo' = Calls[c]
    BY <1>8 DEF Call
  <2>2. c = "SerializePacket" => Calls[c] = <<"pad", "missing", "validate">>
    BY DEF Calls
  <2>3. /\ <<"pad", "missing", "validate">> # <<"missing", "validate">>
        /\ <<"pad", "missing", "validate">> # <<"validate">>
    OBVIOUS
  <2> QED
    BY <2>1, <2>2, <2>3 DEF SendInv, SendsACompletable
<1> QED
  BY <1>1, <1>2, <1>3, <1>4, <1>5, <1>6, <1>7, <1>8 DEF Next, Step

(* SerializePacket: a packet of any headers of which nothing but computed   *)
(* fields is missing is padded, completed, found valid and serialized.      *)
THEOREM CompletablePacketsAreAlwaysSent == Spec => []CompletablePacketsAreSent
<1>1. Init => SendInv
  BY DEF Init, SendInv, SendsACompletable
<1>2. SendInv => CompletablePacketsAreSent
  BY DEF SendInv, SendsACompletable, CompletablePacketsAreSent
<1> QED
  BY <1>1, <1>2, NextKeepsSendInv, ComputedOnceIsEnough, UpdateInvariantHolds, PTL DEF Spec

=============================================================================
