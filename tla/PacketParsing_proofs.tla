------------------------- MODULE PacketParsing_proofs -------------------------
(***************************************************************************)
(* Proofs about the loop that parses a packet: nothing of the input is     *)
(* lost, no supported header is left in the payload, and a valid packet    *)
(* comes back from its serialization.                                      *)
(***************************************************************************)
EXTENDS PacketParsing, SequenceTheorems, WellFoundedInduction, TLAPS

------------------------------------------------------------------------------
(* Recursive functions over an interval                                    *)

LEMMA LeastNatural ==
  ASSUME NEW T \in SUBSET Nat, T # {}
  PROVE  \E n \in T : \A m \in T : n <= m
<1> DEFINE less == {pair \in Nat \X Nat : pair[1] < pair[2]}
<1>1. IsWellFoundedOn(less, Nat)
  BY NatLessThanWellFounded DEF OpToRel
<1>2. PICK n \in T : \A m \in T : ~ (<<m, n>> \in less)
  BY <1>1, WFMin
<1>3. \A m \in T : ~(m < n)
  BY <1>2
<1> QED
  BY <1>3

(* What is true of the first value and stays true from each value to the    *)
(* next is true of all of them; S is the set of what it is true of.         *)
LEMMA IntervalInduction ==
  ASSUME NEW n \in Nat, NEW f, NEW S, f[0] \in S, \A i \in 1 .. n : f[i - 1] \in S => f[i] \in S
  PROVE  \A i \in 0 .. n : f[i] \in S
<1> DEFINE T == {i \in 0 .. n : f[i] \notin S}
<1> SUFFICES ASSUME T # {} PROVE FALSE
  OBVIOUS
<1>1. T \in SUBSET Nat
  OBVIOUS
<1>2. PICK m \in T : \A i \in T : m <= i
  BY <1>1, LeastNatural
<1>3. m \in 1 .. n /\ m - 1 \in 0 .. n /\ ~(m <= m - 1)
  BY <1>1, <1>2
<1> QED
  BY <1>2, <1>3

Iterates(g, n, base, F) == g[0] = base /\ \A i \in 1 .. n : g[i] = F[i][g[i - 1]]

LEMMA Recursion ==
  ASSUME NEW n \in Nat, NEW S, NEW base \in S, NEW F \in [1 .. n -> [S -> S]]
  PROVE  \E g \in [0 .. n -> S] : Iterates(g, n, base, F)
<1> DEFINE Found(m) == \E g \in [0 .. m -> S] : Iterates(g, m, base, F)
           T == {m \in 0 .. n : ~Found(m)}
<1> HIDE DEF Found
<1>a. ASSUME T = {} PROVE Found(n)
  <2>1. n \in 0 .. n
    OBVIOUS
  <2> QED
    BY <1>a, <2>1
<1> USE DEF Found
<1> SUFFICES ASSUME T # {} PROVE FALSE
  <2> HIDE DEF T
  <2> QED
    BY <1>a
<1>1. PICK m \in T : \A i \in T : m <= i
  <2>1. T \in SUBSET Nat
    OBVIOUS
  <2> QED
    BY <2>1, LeastNatural
<1>2. m # 0
  <2>1. Found(0)
    <3> DEFINE g == [i \in 0 .. 0 |-> base]
    <3>1. g \in [0 .. 0 -> S] /\ g[0] = base
      OBVIOUS
    <3>2. \A i \in 1 .. 0 : g[i] = F[i][g[i - 1]]
      OBVIOUS
    <3> HIDE DEF g
    <3> QED
      BY <3>1, <3>2 DEF Iterates
  <2> QED
    BY <1>1, <2>1
<1>3. m \in 1 .. n /\ m - 1 \in 0 .. n /\ ~(m <= m - 1)
  BY <1>1, <1>2
<1>4. PICK g \in [0 .. m - 1 -> S] : g[0] = base /\ \A i \in 1 .. m - 1 : g[i] = F[i][g[i - 1]]
  <2>1. Found(m - 1)
    <3> HIDE DEF Found
    <3> QED
      BY <1>1, <1>3
  <2> QED
    BY <2>1 DEF Iterates
<1> DEFINE h == [i \in 0 .. m |-> IF i = m THEN F[m][g[m - 1]] ELSE g[i]]
<1>5. h \in [0 .. m -> S]
  <2>1. F[m] \in [S -> S] /\ g[m - 1] \in S
    BY <1>3, <1>4
  <2>2. F[m][g[m - 1]] \in S
    BY <2>1
  <2>3. \A i \in 0 .. m : i # m => i \in 0 .. m - 1
    BY <1>3
  <2> QED
    BY <1>4, <2>2, <2>3
<1>6. h[0] = base
  BY <1>2, <1>3, <1>4
<1>7. \A i \in 1 .. m : h[i] = F[i][h[i - 1]]
  <2>1. h[m] = F[m][h[m - 1]]
    BY <1>3
  <2>2. \A i \in 1 .. m : i = m \/ (i \in 1 .. m - 1 /\ i - 1 # m /\ i - 1 \in 0 .. m /\ i # m /\ i \in 0 .. m)
    BY <1>3
  <2> QED
    BY <1>4, <2>1, <2>2
<1> HIDE DEF h
<1>8. Found(m)
  BY <1>5, <1>6, <1>7 DEF Iterates
<1> QED
  BY <1>1, <1>8

------------------------------------------------------------------------------
(* Sequences of sequences, flattened                                       *)

(* g has the beginnings of s, flattened.                                    *)
Flattens(g, s, n) == g[0] = << >> /\ \A i \in 1 .. n : g[i] = g[i - 1] \o s[i]

LEMMA FlatteningExists ==
  ASSUME NEW S, NEW s \in Seq(Seq(S))
  PROVE  \E g \in [0 .. Len(s) -> Seq(S)] : Flattens(g, s, Len(s))
<1> DEFINE n == Len(s)
           F == [i \in 1 .. n |-> [x \in Seq(S) |-> x \o s[i]]]
<1>1. n \in Nat /\ \A k \in 1 .. n : s[k] \in Seq(S)
  OBVIOUS
<1> HIDE DEF n
<1>2. F \in [1 .. n -> [Seq(S) -> Seq(S)]]
  BY <1>1
<1>3. \A k \in 1 .. n : \A x \in Seq(S) : F[k][x] = x \o s[k]
  OBVIOUS
<1> HIDE DEF F
<1>4. PICK g \in [0 .. n -> Seq(S)] : g[0] = << >> /\ \A i \in 1 .. n : g[i] = F[i][g[i - 1]]
  <2>1. << >> \in Seq(S)
    OBVIOUS
  <2>2. \E g \in [0 .. n -> Seq(S)] : Iterates(g, n, << >>, F)
    BY <1>1, <1>2, <2>1, Recursion
  <2> QED
    BY <2>2 DEF Iterates
<1>5. \A k \in 1 .. n : g[k] = g[k - 1] \o s[k]
  <2>1. \A k \in 1 .. n : k - 1 \in 0 .. n
    BY <1>1
  <2> QED
    BY <1>3, <1>4, <2>1
<1>6. Flattens(g, s, n)
  BY <1>4, <1>5 DEF Flattens
<1> QED
  BY <1>6 DEF n

LEMMA FlattenedIs ==
  ASSUME NEW S, NEW s \in Seq(Seq(S)), NEW g \in [0 .. Len(s) -> Seq(S)], Flattens(g, s, Len(s))
  PROVE  FlattenSeq(s) = g[Len(s)]
<1> DEFINE n == Len(s)
           IsFlat(f) == f = [i \in 1 .. n |-> IF i = 1 THEN s[i] ELSE f[i - 1] \o s[i]]
           flat == CHOOSE f : IsFlat(f)
<1>1. n \in Nat /\ \A k \in 1 .. n : s[k] \in Seq(S)
  OBVIOUS
<1>2. FlattenSeq(s) = IF n = 0 THEN s ELSE flat[n]
  BY DEF FlattenSeq
<1>3. g \in [0 .. n -> Seq(S)] /\ g[0] = << >> /\ \A i \in 1 .. n : g[i] = g[i - 1] \o s[i]
  BY DEF Flattens
<1>4. CASE n = 0
  <2>1. s = << >>
    BY <1>4
  <2> QED
    BY <1>2, <1>3, <1>4, <2>1
<1>5. CASE n # 0
  <2> HIDE DEF n
  <2>0. 1 \in 1 .. n /\ 1 - 1 = 0 /\ n \in 1 .. n
    BY <1>1, <1>5
  <2>1. g[1] = s[1]
    <3>1. g[1] = << >> \o s[1]
      BY <1>3, <2>0
    <3>2. s[1] \in Seq(S)
      BY <1>1, <2>0
    <3> QED
      BY <3>1, <3>2, ConcatEmptySeq
  <2>2. IsFlat(flat)
    <3> DEFINE f == [i \in 1 .. n |-> g[i]]
    <3>1. f = [i \in 1 .. n |-> IF i = 1 THEN s[i] ELSE f[i - 1] \o s[i]]
      <4>1. \A i \in 1 .. n : i # 1 => f[i - 1] = g[i - 1]
        BY <1>1
      <4> QED
        BY <1>1, <1>3, <2>1, <4>1
    <3> QED
      BY <3>1
  <2> HIDE DEF flat
  <2>3. \A k \in 1 .. n : flat[k] = IF k = 1 THEN s[k] ELSE flat[k - 1] \o s[k]
    BY <2>2
  <2> DEFINE T == {i \in 1 .. n : flat[i] # g[i]}
  <2>4. T = {}
    <3> SUFFICES ASSUME T # {} PROVE FALSE
      OBVIOUS
    <3>1. T \in SUBSET Nat
      BY <1>1
    <3>2. PICK m \in T : \A i \in T : m <= i
      <4> HIDE DEF T
      <4> QED
        BY <3>1, LeastNatural
    <3>3. m # 1
      BY <2>0, <2>1, <2>3, <3>2
    <3>4. m \in 1 .. n /\ m - 1 \in 1 .. n /\ ~(m <= m - 1)
      BY <1>1, <3>2, <3>3
    <3>5. flat[m - 1] = g[m - 1]
      BY <3>2, <3>4
    <3>6. flat[m] = g[m]
      BY <1>3, <2>3, <3>3, <3>4, <3>5
    <3> QED
      BY <3>2, <3>6
  <2>7. flat[n] = g[n]
    BY <2>0, <2>4
  <2> QED
    BY <1>2, <1>5, <2>7 DEF n
<1> QED
  BY <1>4, <1>5

LEMMA FlatSequence ==
  ASSUME NEW S, NEW s \in Seq(Seq(S))
  PROVE  FlattenSeq(s) \in Seq(S)
<1>1. PICK g \in [0 .. Len(s) -> Seq(S)] : Flattens(g, s, Len(s))
  BY FlatteningExists
<1>2. FlattenSeq(s) = g[Len(s)] /\ Len(s) \in 0 .. Len(s)
  BY <1>1, FlattenedIs
<1> QED
  BY <1>1, <1>2

(* The beginnings of a sequence, flattened one after the other.             *)
LEMMA FlattenedBeginnings ==
  ASSUME NEW S, NEW s \in Seq(Seq(S))
  PROVE  \E g \in [0 .. Len(s) -> Seq(S)] :
           /\ Flattens(g, s, Len(s))
           /\ \A k \in 0 .. Len(s) : FlattenSeq(SubSeq(s, 1, k)) = g[k]
<1>0. Len(s) \in Nat
  OBVIOUS
<1>1. PICK g \in [0 .. Len(s) -> Seq(S)] : Flattens(g, s, Len(s))
  BY FlatteningExists
<1>2. ASSUME NEW k \in 0 .. Len(s) PROVE FlattenSeq(SubSeq(s, 1, k)) = g[k]
  <2> DEFINE t == SubSeq(s, 1, k)
             f == [i \in 0 .. k |-> g[i]]
  <2>1. t \in Seq(Seq(S)) /\ Len(t) = k /\ \A i \in 1 .. k : t[i] = s[i]
    BY <1>0
  <2>2. f \in [0 .. k -> Seq(S)]
    BY <1>0
  <2>3. Flattens(f, t, k)
    <3>1. \A i \in 1 .. k : i \in 1 .. Len(s) /\ f[i] = g[i] /\ f[i - 1] = g[i - 1]
      BY <1>0
    <3>2. f[0] = g[0]
      BY <1>0
    <3> QED
      BY <1>1, <2>1, <3>1, <3>2 DEF Flattens
  <2> HIDE DEF f
  <2>4. FlattenSeq(t) = f[k]
    <3> HIDE DEF t
    <3> QED
      BY <2>1, <2>2, <2>3, FlattenedIs
  <2> QED
    BY <1>0, <2>4 DEF f
<1> QED
  BY <1>1, <1>2

LEMMA FlattenedAppend ==
  ASSUME NEW S, NEW s \in Seq(Seq(S)), NEW x \in Seq(S)
  PROVE  FlattenSeq(Append(s, x)) = FlattenSeq(s) \o x
<1> DEFINE t == Append(s, x)
           n == Len(s)
<1>1. n \in Nat /\ t \in Seq(Seq(S)) /\ Len(t) = n + 1 /\ t[n + 1] = x
  OBVIOUS
<1>2. SubSeq(t, 1, n) = s /\ SubSeq(t, 1, n + 1) = t
  OBVIOUS
<1> HIDE DEF t, n
<1>3. PICK g \in [0 .. n + 1 -> Seq(S)] :
         Flattens(g, t, n + 1) /\ \A k \in 0 .. n + 1 : FlattenSeq(SubSeq(t, 1, k)) = g[k]
  <2>1. \E g \in [0 .. Len(t) -> Seq(S)] :
          /\ Flattens(g, t, Len(t))
          /\ \A k \in 0 .. Len(t) : FlattenSeq(SubSeq(t, 1, k)) = g[k]
    BY <1>1, FlattenedBeginnings
  <2> QED
    BY <1>1, <2>1
<1>4. n + 1 \in 1 .. n + 1 /\ n \in 0 .. n + 1 /\ n + 1 \in 0 .. n + 1 /\ (n + 1) - 1 = n
  BY <1>1
<1>5. g[n + 1] = g[n] \o x
  BY <1>1, <1>3, <1>4 DEF Flattens
<1> QED
  BY <1>2, <1>3, <1>4, <1>5 DEF t

------------------------------------------------------------------------------
(* Kinds of headers and their fields                                       *)

IsListOfNames(names) ==
  /\ Len(names) \in Nat /\ DOMAIN names = 1 .. Len(names)
  /\ \A j, k \in 1 .. Len(names) : names[j] = names[k] => j = k

LEMMA FieldsAreNames ==
  ASSUME NEW c \in HeaderCases
  PROVE  IsListOfNames(Fields[c]) /\ (c # "not_set" => Len(Fields[c]) > 0)
<1>1. c \in {"ethernet", "ipv4", "ipv6", "hop_by_hop", "udp", "tcp", "arp", "icmp", "vlan", "csig",
             "csig_wide", "gre", "packet_in", "ipfix", "psamp", "ptp", "psp", "ib_bth", "not_set"}
  BY DEF HeaderCases, Fields
<1>2. CASE c = "ethernet"
  BY <1>2 DEF Fields, IsListOfNames
<1>3. CASE c = "ipv4"
  BY <1>3 DEF Fields, IsListOfNames
<1>4. CASE c = "ipv6"
  BY <1>4 DEF Fields, IsListOfNames
<1>5. CASE c = "hop_by_hop"
  BY <1>5 DEF Fields, IsListOfNames
<1>6. CASE c = "udp"
  BY <1>6 DEF Fields, IsListOfNames
<1>7. CASE c = "tcp"
  BY <1>7 DEF Fields, IsListOfNames
<1>8. CASE c = "arp"
  BY <1>8 DEF Fields, IsListOfNames
<1>9. CASE c = "icmp"
  BY <1>9 DEF Fields, IsListOfNames
<1>10. CASE c = "vlan"
  BY <1>10 DEF Fields, IsListOfNames
<1>11. CASE c = "csig"
  BY <1>11 DEF Fields, IsListOfNames
<1>12. CASE c = "csig_wide"
  BY <1>12 DEF Fields, IsListOfNames
<1>13. CASE c = "gre"
  BY <1>13 DEF Fields, IsListOfNames
<1>14. CASE c = "packet_in"
  BY <1>14 DEF Fields, IsListOfNames
<1>15. CASE c = "ipfix"
  BY <1>15 DEF Fields, IsListOfNames
<1>16. CASE c = "psamp"
  BY <1>16 DEF Fields, IsListOfNames
<1>17. CASE c = "ptp"
  BY <1>17 DEF Fields, IsListOfNames
<1>18. CASE c = "psp"
  BY <1>18 DEF Fields, IsListOfNames
<1>19. CASE c = "ib_bth"
  BY <1>19 DEF Fields, IsListOfNames
<1>20. CASE c = "not_set"
  BY <1>20 DEF Fields, IsListOfNames
<1> QED
  BY <1>1, <1>2, <1>3, <1>4, <1>5, <1>6, <1>7, <1>8, <1>9, <1>10, <1>11,
     <1>12, <1>13, <1>14, <1>15, <1>16, <1>17, <1>18, <1>19, <1>20

LEMMA FieldsOfGre ==
  /\ "gre" \in HeaderCases
  /\ Len(Fields.gre) = 6
  /\ Fields.gre[1] = "checksum_present"
  /\ SubSeq(Fields.gre, 1, 4) = [k \in 1 .. 4 |-> Fields.gre[k]]
  /\ {Fields.gre[k] : k \in 5 .. 6} = GreOptionals
<1>1. Fields.gre = <<"checksum_present", "reserved0", "version", "protocol_type", "checksum", "reserved1">>
  BY DEF Fields
<1>2. Len(Fields.gre) = 6 /\ Fields.gre[1] = "checksum_present" /\ Fields.gre[5] = "checksum" /\ Fields.gre[6] = "reserved1"
  BY <1>1
<1>3. SubSeq(Fields.gre, 1, 4) = [k \in 1 .. 4 |-> Fields.gre[k]]
  <2> DEFINE names == Fields.gre
             S == {names[k] : k \in 1 .. 6}
             first == SubSeq(names, 1, 4)
  <2>1. \A k \in 1 .. 4 : names[k] \in S
    OBVIOUS
  <2> HIDE DEF names, S
  <2>2. first \in Seq(S) /\ Len(first) = 4 /\ \A i \in 1 .. 4 : first[i] = names[i]
    BY <2>1, SubSeqProperties
  <2> HIDE DEF first
  <2>3. first = [k \in 1 .. 4 |-> names[k]]
    BY <2>2
  <2> QED
    BY <2>3 DEF first, names
<1>4. {Fields.gre[k] : k \in 5 .. 6} = GreOptionals
  <2>1. \A k : k \in 5 .. 6 <=> k = 5 \/ k = 6
    OBVIOUS
  <2> QED
    BY <1>2, <2>1 DEF GreOptionals
<1> QED
  BY <1>2, <1>3, <1>4 DEF HeaderCases, Fields

(* What follows a header is a kind of header, or none.                      *)
LEMMA FollowersAreCases ==
  ASSUME NEW h
  PROVE  ExpectedHeaderCase(h) \in HeaderCases
<1> DEFINE Known == HeaderCases \cup {"unsupported", "error"}
<1>0. HeaderCases = {"ethernet", "ipv4", "ipv6", "hop_by_hop", "udp", "tcp", "arp", "icmp", "vlan", "csig",
             "csig_wide", "gre", "packet_in", "ipfix", "psamp", "ptp", "psp", "ib_bth", "not_set"}
  BY DEF HeaderCases, Fields
<1>1. \A x : NextHeaderForEtherType(x) \in Known
  BY <1>0 DEF NextHeaderForEtherType
<1>2. \A x : NextHeaderForProtocol(x) \in Known
  BY <1>0 DEF NextHeaderForProtocol
<1>3. \A x : NextHeaderForPort(x) \in Known
  BY <1>0 DEF NextHeaderForPort
<1>4. \A x : NextHeaderForPsp(x) \in Known
  BY <1>0 DEF NextHeaderForPsp
<1>5. {"icmp", "hop_by_hop", "unsupported", "ethernet", "psamp", "not_set"} \subseteq Known
  BY <1>0
<1> HIDE DEF Known
<1>6. GetNextHeader(h) \in Known
  BY <1>1, <1>2, <1>3, <1>4, <1>5 DEF GetNextHeader
<1> QED
  BY <1>0, <1>6 DEF Known, ExpectedHeaderCase

------------------------------------------------------------------------------
(* Parsing one header                                                      *)

LEMMA SizesOfFixedParts ==
  ASSUME NEW c \in HeaderCases, NEW d \in Seq(Nat), LongEnough(c, d)
  PROVE  /\ FixedSize(c, d) \in 1 .. Len(Fields[c])
         /\ FixedSize(c, d) <= Len(d)
         /\ c # "gre" => FixedSize(c, d) = Len(Fields[c])
         /\ c = "gre" => FixedSize(c, d) = IF d[1] = 1 THEN 6 ELSE 4
<1>1. c # "not_set" /\ Len(d) \in Nat /\ Len(d) >= FixedSize(c, d)
  BY DEF LongEnough
<1>2. Len(Fields[c]) \in Nat /\ Len(Fields[c]) > 0
  BY <1>1, FieldsAreNames DEF IsListOfNames
<1>3. CASE c = "gre"
  <2>1. Len(Fields[c]) = 6
    BY <1>3, FieldsOfGre
  <2>2. FixedSize(c, d) \in {4, 6}
    BY <1>3, <2>1 DEF FixedSize
  <2>3. d # << >>
    BY <1>1, <2>2
  <2> QED
    BY <1>1, <1>3, <2>1, <2>2, <2>3 DEF FixedSize
<1>4. CASE c # "gre"
  BY <1>1, <1>2, <1>4 DEF FixedSize
<1> QED
  BY <1>3, <1>4

LEMMA WordsAnnounced ==
  ASSUME NEW c, NEW field, NEW rest \in Nat,
         c = "ipv4" => field.ihl \in Nat, c = "tcp" => field.data_offset \in Nat
  PROVE  /\ OptionsAnnounced(c, field, rest) \in 0 .. rest
         /\ c \notin {"ipv4", "tcp"} => OptionsAnnounced(c, field, rest) = 0
<1>1. \A n \in Nat : (n % 16) - 5 \in Int
  OBVIOUS
<1> DEFINE words == CASE c = "ipv4" -> (field.ihl % 16) - 5
                      [] c = "tcp"  -> (field.data_offset % 16) - 5
                      [] OTHER      -> 0
<1>2. words \in Int /\ (c \notin {"ipv4", "tcp"} => words = 0)
  <2>1. CASE c = "ipv4"
    BY <1>1, <2>1
  <2>2. CASE c = "tcp"
    BY <1>1, <2>2
  <2>3. CASE c \notin {"ipv4", "tcp"}
    BY <2>3
  <2> QED
    BY <2>1, <2>2, <2>3
<1>3. OptionsAnnounced(c, field, rest) = IF words <= 0 THEN 0 ELSE IF words < rest THEN words ELSE rest
  BY DEF OptionsAnnounced
<1> HIDE DEF words
<1> QED
  BY <1>2, <1>3

(* The fixed part holds the first fields, the options follow.               *)
IsParsed(h, c, d) ==
  /\ h = [case |-> c, field |-> h.field, options |-> h.options]
  /\ h.field = [f \in FieldsOf(c) |-> h.field[f]]
  /\ \A k \in 1 .. Len(Fields[c]) :
       h.field[Fields[c][k]] = IF k <= FixedSize(c, d) THEN d[k] ELSE Missing
  /\ h.options = SubSeq(d, FixedSize(c, d) + 1,
                        FixedSize(c, d) + OptionsAnnounced(c, h.field, Len(d) - FixedSize(c, d)))

LEMMA ParsedParts ==
  ASSUME NEW c \in HeaderCases, NEW d
  PROVE  IsParsed(ParseHeader(c, d), c, d)
<1> DEFINE F == Fields[c]
           size == FixedSize(c, d)
           index == [f \in FieldsOf(c) |-> CHOOSE k \in DOMAIN F : F[k] = f]
           field == [f \in FieldsOf(c) |-> IF index[f] <= size THEN d[index[f]] ELSE Missing]
           options == SubSeq(d, size + 1, size + OptionsAnnounced(c, field, Len(d) - size))
           h == [case |-> c, field |-> field, options |-> options]
<1>1. ParseHeader(c, d) = h
  BY DEF ParseHeader
<1>2. Len(F) \in Nat /\ DOMAIN F = 1 .. Len(F) /\ \A j, k \in 1 .. Len(F) : F[j] = F[k] => j = k
  BY FieldsAreNames DEF IsListOfNames
<1>3. \A k \in 1 .. Len(F) : F[k] \in FieldsOf(c)
  BY <1>2 DEF FieldsOf
<1>4. ASSUME NEW k \in 1 .. Len(F) PROVE index[F[k]] = k
  <2>1. index[F[k]] = CHOOSE j \in DOMAIN F : F[j] = F[k]
    BY <1>3
  <2> HIDE DEF F, index
  <2>2. \E j \in DOMAIN F : F[j] = F[k]
    BY <1>2
  <2>3. index[F[k]] \in DOMAIN F /\ F[index[F[k]]] = F[k]
    BY <2>1, <2>2
  <2> QED
    BY <1>2, <2>3
<1> HIDE DEF index
<1>5. ASSUME NEW k \in 1 .. Len(F) PROVE field[F[k]] = IF k <= size THEN d[k] ELSE Missing
  <2> DEFINE f == F[k]
  <2>1. f \in FieldsOf(c) /\ index[f] = k
    BY <1>3, <1>4
  <2> HIDE DEF f, size
  <2>2. field[f] = IF k <= size THEN d[k] ELSE Missing
    BY <2>1
  <2> QED
    BY <2>2 DEF f
<1>6. h.field = field /\ h.options = options /\ h.case = c
  OBVIOUS
<1>7. field = [f \in FieldsOf(c) |-> field[f]]
  OBVIOUS
<1> HIDE DEF field, options, size, F
<1>8. IsParsed(h, c, d)
  BY <1>5, <1>6, <1>7 DEF IsParsed, options, F, size
<1> QED
  BY <1>1, <1>8 DEF size

------------------------------------------------------------------------------
(* Parsing takes what serialization gives                                  *)

(* How many of its fields a header sends.                                   *)
SentSize(h) == IF h.case = "gre" /\ ~HasOptionals(h) THEN 4 ELSE Len(Fields[h.case])

FixedPart(h) == [k \in 1 .. SentSize(h) |-> h.field[Fields[h.case][k]]]

LEMMA SerializedParts ==
  ASSUME NEW h, h.case \in HeaderCases
  PROVE  /\ SentSize(h) \in 0 .. Len(Fields[h.case])
         /\ SerializeHeader(h) = FixedPart(h) \o h.options
         /\ Serializable(h) <=> /\ h.case # "not_set" /\ h.options # Malformed
                                /\ \A k \in 1 .. SentSize(h) : h.field[Fields[h.case][k]] \in Nat
<1> DEFINE F == Fields[h.case]
           sent == FieldsSent(h)
           n == SentSize(h)
<1>1. n \in 0 .. Len(F) /\ DOMAIN sent = 1 .. n /\ \A k \in 1 .. n : sent[k] = F[k]
  <2>1. CASE h.case = "gre" /\ ~HasOptionals(h)
    <3>1. n = 4 /\ Len(F) = 6 /\ sent = [k \in 1 .. 4 |-> F[k]]
      BY <2>1, FieldsOfGre DEF SentSize, FieldsSent
    <3> QED
      BY <3>1
  <2>2. CASE ~(h.case = "gre" /\ ~HasOptionals(h))
    <3>1. n = Len(F) /\ sent = F
      BY <2>2 DEF SentSize, FieldsSent
    <3>2. Len(F) \in Nat /\ DOMAIN F = 1 .. Len(F)
      BY FieldsAreNames DEF IsListOfNames
    <3> QED
      BY <3>1, <3>2
  <2> QED
    BY <2>1, <2>2
<1> HIDE DEF sent, n, F
<1>2. [k \in DOMAIN sent |-> h.field[sent[k]]] = [k \in 1 .. n |-> h.field[F[k]]]
  BY <1>1
<1>3. SerializeHeader(h) = FixedPart(h) \o h.options
  BY <1>2 DEF SerializeHeader, FixedPart, sent, n, F
<1>4. (\A k \in DOMAIN sent : h.field[sent[k]] \in Nat) <=> \A k \in 1 .. n : h.field[F[k]] \in Nat
  BY <1>1
<1> QED
  BY <1>1, <1>3, <1>4 DEF Serializable, sent, n, F

(* What was parsed sends as many fields as were parsed.                     *)
LEMMA ParsedSize ==
  ASSUME NEW c \in HeaderCases, NEW d \in Seq(Nat), LongEnough(c, d),
         NEW h, IsParsed(h, c, d)
  PROVE  h.case = c /\ SentSize(h) = FixedSize(c, d)
<1>1. h.case = c
  BY DEF IsParsed
<1>2. CASE c = "gre"
  <2>1. 1 \in 1 .. Len(Fields[c]) /\ Fields[c][1] = "checksum_present" /\ 1 <= FixedSize(c, d)
    BY <1>2, FieldsOfGre, SizesOfFixedParts
  <2>2. h.field["checksum_present"] = d[1]
    BY <2>1 DEF IsParsed
  <2>3. HasOptionals(h) <=> d[1] = 1
    BY <1>1, <1>2, <2>2 DEF HasOptionals
  <2> QED
    BY <1>1, <1>2, <2>3, FieldsOfGre, SizesOfFixedParts DEF SentSize
<1>3. CASE c # "gre"
  BY <1>1, <1>3, SizesOfFixedParts DEF SentSize
<1> QED
  BY <1>1, <1>2, <1>3

(* ParseHeader takes the cells off the front of the data that serializing   *)
(* the header puts there.                                                   *)
LEMMA ParsedHeader ==
  ASSUME NEW c \in HeaderCases, NEW d \in Seq(Nat), LongEnough(c, d), NEW h, IsParsed(h, c, d)
  PROVE  /\ h.case = c /\ IsHeader(h) /\ Serializable(h)
         /\ SerializeHeader(h) \in Seq(Nat)
         /\ SubSeq(d, Len(SerializeHeader(h)) + 1, Len(d)) \in Seq(Nat)
         /\ d = SerializeHeader(h) \o SubSeq(d, Len(SerializeHeader(h)) + 1, Len(d))
<1> DEFINE size == FixedSize(c, d)
           F == Fields[c]
           words == OptionsAnnounced(c, h.field, Len(d) - size)
           m == size + words
<1>1. /\ h = [case |-> c, field |-> h.field, options |-> h.options]
      /\ h.field = [f \in FieldsOf(c) |-> h.field[f]]
      /\ \A k \in 1 .. Len(F) : h.field[F[k]] = IF k <= size THEN d[k] ELSE Missing
      /\ h.options = SubSeq(d, size + 1, m)
  BY DEF IsParsed
<1>2. h.case = c /\ SentSize(h) = size
  BY ParsedSize
<1>3. size \in 1 .. Len(F) /\ size <= Len(d) /\ c # "not_set" /\ (c # "gre" => size = Len(F))
  BY SizesOfFixedParts DEF LongEnough
<1>4. Len(F) \in Nat /\ DOMAIN F = 1 .. Len(F)
  <2>1. IsListOfNames(F)
    BY FieldsAreNames
  <2> QED
    BY <2>1 DEF IsListOfNames
<1>4a. m = size + words
  OBVIOUS
<1>4b. words = OptionsAnnounced(c, h.field, Len(d) - size)
  OBVIOUS
<1>4c. FieldsOf(c) = {F[k] : k \in DOMAIN F}
  BY DEF FieldsOf
<1> HIDE DEF m, size, words, F
<1>5. Len(d) \in Nat /\ \A i \in 1 .. Len(d) : d[i] \in Nat
  <2>1. Len(d) \in Nat
    OBVIOUS
  <2>2. \A i \in 1 .. Len(d) : d[i] \in Nat
    OBVIOUS
  <2> QED
    BY <2>1, <2>2
<1>6. size \in Nat /\ 1 <= size /\ size <= Len(d) /\ size <= Len(F)
  <2>1. Len(F) \in Nat /\ size \in 1 .. Len(F)
    BY <1>3, <1>4
  <2>2. size \in Nat /\ 1 <= size /\ size <= Len(F)
    BY <2>1
  <2> QED
    BY <1>3, <2>2
<1>7. ASSUME NEW k \in 1 .. Len(F)
      PROVE  h.field[F[k]] \in Nat \cup {Missing} /\ (k <= size => h.field[F[k]] = d[k] /\ d[k] \in Nat)
  <2>1. h.field[F[k]] = IF k <= size THEN d[k] ELSE Missing
    BY <1>1
  <2>2. k <= size => k \in 1 .. Len(d)
    BY <1>4, <1>5, <1>6
  <2> QED
    BY <1>5, <2>1, <2>2
<1>7a. \A k \in 1 .. size : h.field[F[k]] = d[k] /\ h.field[F[k]] \in Nat
  <2>1. \A k \in 1 .. size : k \in 1 .. Len(F) /\ k <= size
    BY <1>4, <1>6
  <2> QED
    BY <1>7, <2>1
<1>7b. words \in 0 .. Len(d) - size /\ (c \notin {"ipv4", "tcp"} => words = 0)
  <2>1. \A f \in FieldsOf(c) : c # "gre" => h.field[f] \in Nat
    BY <1>3, <1>4, <1>4c, <1>6, <1>7
  <2>2. c = "ipv4" => "ihl" \in FieldsOf(c)
    BY DEF FieldsOf, Fields
  <2>3. c = "tcp" => "data_offset" \in FieldsOf(c)
    BY DEF FieldsOf, Fields
  <2>4. Len(d) - size \in Nat
    BY <1>5, <1>6
  <2>5. (c = "ipv4" => h.field.ihl \in Nat) /\ (c = "tcp" => h.field.data_offset \in Nat)
    BY <2>1, <2>2, <2>3
  <2>6. OptionsAnnounced(c, h.field, Len(d) - size) \in 0 .. Len(d) - size
        /\ (c \notin {"ipv4", "tcp"} => OptionsAnnounced(c, h.field, Len(d) - size) = 0)
    BY <2>4, <2>5, WordsAnnounced
  <2> QED
    BY <1>4b, <2>6
<1>8a. size \in Nat /\ m \in Nat /\ Len(d) \in Nat /\ 1 <= size /\ size <= m /\ m <= Len(d)
  BY <1>4a, <1>5, <1>6, <1>7b
<1>8. words = 0 => m = size
  BY <1>4a, <1>6
<1>9. h.options \in Seq(Nat) /\ (words = 0 => h.options = << >>)
  <2>1. \A i \in size + 1 .. m : d[i] \in Nat
    BY <1>5, <1>8a
  <2>2. h.options \in Seq(Nat) /\ Len(h.options) = IF size + 1 <= m THEN m - (size + 1) + 1 ELSE 0
    BY <1>1, <1>8a, <2>1, SubSeqProperties
  <2>3. words = 0 => Len(h.options) = 0
    BY <1>8, <1>8a, <2>2
  <2> QED
    BY <2>2, <2>3
<1>10. IsHeader(h)
  <2>1. \A f \in FieldsOf(c) : h.field[f] \in Nat \cup {Missing, Malformed}
    BY <1>4, <1>4c, <1>7
  <2>2. h.field = [f \in FieldsOf(c) |-> h.field[f]]
    BY <1>1
  <2>3. h.field \in [FieldsOf(c) -> Nat \cup {Missing, Malformed}]
    BY <2>1, <2>2
  <2>4. h = [case |-> c, field |-> h.field, options |-> h.options]
    BY <1>1
  <2>5. h \in [case    : HeaderCases,
               field   : [FieldsOf(c) -> Nat \cup {Missing, Malformed}],
               options : Seq(Nat) \cup {Malformed}]
    BY <1>9, <2>3, <2>4
  <2> QED
    BY <1>2, <1>7b, <1>9, <2>5 DEF IsHeader
<1>11. Serializable(h)
  <2>1. h.options # Malformed
    BY <1>9, MarkersAreNoValues DEF Markers
  <2> QED
    BY <1>2, <1>3, <1>7a, <2>1, SerializedParts DEF F
<1>12. SerializeHeader(h) = SubSeq(d, 1, m) /\ SerializeHeader(h) \in Seq(Nat) /\ Len(SerializeHeader(h)) = m
  <2>1. FixedPart(h) = [k \in 1 .. size |-> d[k]]
    BY <1>2, <1>7a DEF FixedPart, F
  <2>2. FixedPart(h) = SubSeq(d, 1, size)
    <3>1. \A k \in 1 .. size : d[k] \in Nat
      BY <1>5, <1>8a
    <3>2. SubSeq(d, 1, size) \in Seq(Nat) /\ Len(SubSeq(d, 1, size)) = size
          /\ \A i \in 1 .. size : SubSeq(d, 1, size)[i] = d[i]
      BY <1>8a, <3>1, SubSeqProperties
    <3> DEFINE first == SubSeq(d, 1, size)
    <3>3. first \in Seq(Nat) /\ Len(first) = size /\ \A i \in 1 .. size : first[i] = d[i]
      BY <3>2
    <3> HIDE DEF first
    <3>4. first = [k \in 1 .. size |-> d[k]]
      BY <3>3
    <3> QED
      BY <2>1, <3>4 DEF first
  <2>3. SerializeHeader(h) = SubSeq(d, 1, size) \o SubSeq(d, size + 1, m)
    BY <1>1, <1>2, <2>2, SerializedParts
  <2>4. SubSeq(d, 1, size) \o SubSeq(d, size + 1, m) = SubSeq(d, 1, m)
    <3>1. 1 \in 1 .. Len(d) + 1 /\ size \in 1 - 1 .. Len(d) /\ m \in size .. Len(d)
      BY <1>5, <1>8a
    <3> QED
      BY <3>1, ConcatAdjacentSubSeq
  <2>5. \A k \in 1 .. m : d[k] \in Nat
    BY <1>5, <1>8a
  <2>6. SubSeq(d, 1, m) \in Seq(Nat) /\ Len(SubSeq(d, 1, m)) = m
    BY <1>8a, <2>5, SubSeqProperties
  <2> QED
    BY <2>3, <2>4, <2>6
<1>13. d = SubSeq(d, 1, m) \o SubSeq(d, m + 1, Len(d)) /\ SubSeq(d, m + 1, Len(d)) \in Seq(Nat)
  <2>1. 1 \in 1 .. Len(d) + 1 /\ m \in 1 - 1 .. Len(d) /\ Len(d) \in m .. Len(d)
    BY <1>5, <1>8a
  <2>2. SubSeq(d, 1, m) \o SubSeq(d, m + 1, Len(d)) = SubSeq(d, 1, Len(d))
    BY <2>1, ConcatAdjacentSubSeq
  <2>3. SubSeq(d, 1, Len(d)) = d
    BY SubSeqFull
  <2>4. m + 1 \in Int /\ Len(d) \in Int /\ \A i \in m + 1 .. Len(d) : d[i] \in Nat
    BY <1>5, <1>8a
  <2>5. SubSeq(d, m + 1, Len(d)) \in Seq(Nat)
    BY <2>4, SubSeqProperties
  <2> QED
    BY <2>2, <2>3, <2>5
<1> QED
  BY <1>2, <1>10, <1>11, <1>12, <1>13

LEMMA SameCells ==
  ASSUME NEW s \in Seq(Nat), NEW t \in Seq(Nat), Len(s) = Len(t), \A i \in 1 .. Len(s) : s[i] = t[i]
  PROVE  s = t
  OBVIOUS

LEMMA CellsFrom ==
  ASSUME NEW d, NEW n \in Nat, NEW m \in Nat, \A i \in n + 1 .. n + m : d[i] \in Nat
  PROVE  /\ SubSeq(d, n + 1, n + m) \in Seq(Nat)
         /\ Len(SubSeq(d, n + 1, n + m)) = m
         /\ \A i \in 1 .. m : SubSeq(d, n + 1, n + m)[i] = d[n + i]
<1> DEFINE a == n + 1
           b == n + m
<1>1. a \in Int /\ b \in Int /\ \A i \in a .. b : d[i] \in Nat
  OBVIOUS
<1>2. b - a + 1 = m /\ (a <= b <=> m # 0) /\ \A i \in 1 .. m : a + i - 1 = n + i
  OBVIOUS
<1> HIDE DEF a, b
<1>3. /\ SubSeq(d, a, b) \in Seq(Nat)
      /\ Len(SubSeq(d, a, b)) = IF a <= b THEN b - a + 1 ELSE 0
      /\ \A i \in 1 .. b - a + 1 : SubSeq(d, a, b)[i] = d[a + i - 1]
  BY <1>1, SubSeqProperties
<1>4. Len(SubSeq(d, a, b)) = m /\ \A i \in 1 .. m : SubSeq(d, a, b)[i] = d[n + i]
  BY <1>2, <1>3
<1> QED
  BY <1>3, <1>4 DEF a, b

(* The first cells are the fields, those behind them the options.           *)
LEMMA SerializedCells ==
  ASSUME NEW h, IsHeader(h), Serializable(h), NEW rest \in Seq(Nat), NEW d, d = SerializeHeader(h) \o rest
  PROVE  /\ SerializeHeader(h) \in Seq(Nat) /\ d \in Seq(Nat)
         /\ h.options \in Seq(Nat)
         /\ SentSize(h) \in Nat
         /\ Len(d) = SentSize(h) + Len(h.options) + Len(rest)
         /\ \A k \in 1 .. SentSize(h) : d[k] = h.field[Fields[h.case][k]]
         /\ SubSeq(d, SentSize(h) + 1, SentSize(h) + Len(h.options)) = h.options
<1> DEFINE n == SentSize(h)
           F == Fields[h.case]
           fixed == FixedPart(h)
           options == h.options
           m == Len(options)
<1>1. h.case \in HeaderCases /\ options \in Seq(Nat) \cup {Malformed}
  BY DEF IsHeader
<1>2. Len(F) \in Nat
  BY <1>1, FieldsAreNames DEF IsListOfNames
<1>3. n \in 0 .. Len(F) /\ SerializeHeader(h) = fixed \o options
  BY <1>1, SerializedParts
<1>4. options # Malformed /\ \A k \in 1 .. n : h.field[F[k]] \in Nat
  BY <1>1, SerializedParts
<1>5. fixed = [k \in 1 .. n |-> h.field[F[k]]]
  BY DEF FixedPart
<1> HIDE DEF n, F, fixed, options
<1>6. n \in Nat /\ options \in Seq(Nat) /\ Len(options) \in Nat /\ Len(rest) \in Nat
  BY <1>1, <1>2, <1>3, <1>4
<1>7. fixed \in Seq(Nat) /\ Len(fixed) = n /\ \A k \in 1 .. n : fixed[k] = h.field[F[k]]
  BY <1>4, <1>5, <1>6
<1> DEFINE whole == fixed \o options
<1>8. whole \in Seq(Nat) /\ Len(whole) = n + m
      /\ \A i \in 1 .. n + m : whole[i] = IF i <= n THEN fixed[i] ELSE options[i - n]
  BY <1>6, <1>7, ConcatProperties
<1>9. d = whole \o rest
  BY <1>3
<1> HIDE DEF whole
<1>10. d \in Seq(Nat) /\ Len(d) = n + m + Len(rest) /\ \A i \in 1 .. n + m : d[i] = whole[i]
  <2>1. whole \o rest \in Seq(Nat) /\ Len(whole \o rest) = Len(whole) + Len(rest)
        /\ \A i \in 1 .. Len(whole) + Len(rest) :
             (whole \o rest)[i] = IF i <= Len(whole) THEN whole[i] ELSE rest[i - Len(whole)]
    BY <1>8, ConcatProperties
  <2>2. \A i \in 1 .. n + m : i \in 1 .. Len(whole) + Len(rest) /\ i <= Len(whole)
    BY <1>6, <1>8
  <2> QED
    BY <1>8, <1>9, <2>1, <2>2
<1>11. \A k \in 1 .. n : d[k] = h.field[F[k]]
  <2>1. \A k \in 1 .. n : k \in 1 .. n + m /\ k <= n
    BY <1>6
  <2> QED
    BY <1>7, <1>8, <1>10, <2>1
<1>11a. m \in Nat /\ Len(options) = m
  BY <1>6
<1> HIDE DEF m
<1>12. SubSeq(d, n + 1, n + m) = options
  <2> DEFINE last == SubSeq(d, n + 1, n + m)
  <2>1. \A i \in n + 1 .. n + m : i \in 1 .. Len(d)
    BY <1>6, <1>10, <1>11a
  <2>2. \A i \in n + 1 .. n + m : d[i] \in Nat
    BY <1>10, <2>1
  <2>3. last \in Seq(Nat) /\ Len(last) = m /\ \A i \in 1 .. m : last[i] = d[n + i]
    BY <1>6, <1>11a, <2>2, CellsFrom
  <2> HIDE DEF last
  <2>5. \A i \in 1 .. m : d[n + i] = options[i]
    <3>1. \A i \in 1 .. m : n + i \in 1 .. n + m /\ ~(n + i <= n) /\ (n + i) - n = i
      BY <1>6, <1>11a
    <3> QED
      BY <1>8, <1>10, <1>11a, <3>1 DEF m
  <2>6. last = options
    BY <1>6, <1>11a, <2>3, <2>5, SameCells
  <2> QED
    BY <2>6 DEF last
<1> QED
  BY <1>3, <1>6, <1>8, <1>10, <1>11, <1>12 DEF n, F, fixed, options, whole, m

(* The words of options are those that the header announces, which four     *)
(* bits can say of ten at most.                                             *)
AnnouncesItsOptions(h) ==
  /\ h.case = "ipv4" => h.field.ihl = 5 + Len(h.options) /\ Len(h.options) <= 10
  /\ h.case = "tcp" => h.field.data_offset = 5 + Len(h.options) /\ Len(h.options) <= 10

LEMMA OptionsAreAnnounced ==
  ASSUME NEW h, IsHeader(h), h.options \in Seq(Nat), AnnouncesItsOptions(h), NEW rest \in Nat,
         Len(h.options) <= rest
  PROVE  OptionsAnnounced(h.case, h.field, rest) = Len(h.options)
<1> DEFINE m == Len(h.options)
<1>1. m \in Nat
  OBVIOUS
<1>2. \A x \in 0 .. 10 : ((5 + x) % 16) - 5 = x
  OBVIOUS
<1>3. CASE h.case = "ipv4"
  <2>0. h.field.ihl = 5 + m /\ m <= 10
    BY <1>3 DEF AnnouncesItsOptions
  <2> HIDE DEF m
  <2>1. h.field.ihl = 5 + m /\ m \in 0 .. 10
    BY <1>1, <2>0
  <2>2. (h.field.ihl % 16) - 5 = m
    BY <1>2, <2>1
  <2>3. OptionsAnnounced(h.case, h.field, rest) = IF m <= 0 THEN 0 ELSE IF m < rest THEN m ELSE rest
    BY <1>3, <2>2 DEF OptionsAnnounced
  <2> QED
    BY <1>1, <2>3 DEF m
<1>4. CASE h.case = "tcp"
  <2>0. h.field.data_offset = 5 + m /\ m <= 10
    BY <1>4 DEF AnnouncesItsOptions
  <2> HIDE DEF m
  <2>1. h.field.data_offset = 5 + m /\ m \in 0 .. 10
    BY <1>1, <2>0
  <2>2. (h.field.data_offset % 16) - 5 = m
    BY <1>2, <2>1
  <2>3. OptionsAnnounced(h.case, h.field, rest) = IF m <= 0 THEN 0 ELSE IF m < rest THEN m ELSE rest
    BY <1>4, <2>2 DEF OptionsAnnounced
  <2> QED
    BY <1>1, <2>3 DEF m
<1>5. CASE h.case \notin {"ipv4", "tcp"}
  <2>1. h.options = << >>
    BY <1>5 DEF IsHeader
  <2>2. OptionsAnnounced(h.case, h.field, rest) = 0
    BY <1>5 DEF OptionsAnnounced
  <2> QED
    BY <2>1, <2>2
<1> QED
  BY <1>3, <1>4, <1>5

(* ParseHeader gives back the header that was serialized, whatever follows. *)
LEMMA HeaderComesBack ==
  ASSUME NEW h, IsHeader(h), Serializable(h), FieldsValid(h), AnnouncesItsOptions(h),
         NEW rest \in Seq(Nat), NEW d, d = SerializeHeader(h) \o rest
  PROVE  LongEnough(h.case, d) /\ ParseHeader(h.case, d) = h
<1> DEFINE c == h.case
           n == SentSize(h)
           F == Fields[c]
           m == Len(h.options)
           g == ParseHeader(c, d)
<1>1. /\ d \in Seq(Nat) /\ n \in Nat /\ h.options \in Seq(Nat)
      /\ Len(d) = n + m + Len(rest)
      /\ \A k \in 1 .. n : d[k] = h.field[F[k]]
      /\ SubSeq(d, n + 1, n + m) = h.options
  BY SerializedCells
<1>2. c \in HeaderCases /\ c # "not_set"
  BY DEF IsHeader, FieldsValid
<1>3. Len(F) \in Nat /\ DOMAIN F = 1 .. Len(F) /\ Len(F) > 0
  BY <1>2, FieldsAreNames DEF IsListOfNames
<1>4. m \in Nat /\ Len(rest) \in Nat
  BY <1>1
<1>5. FixedSize(c, d) = n /\ (c = "gre" => n \in {4, 6})
  <2>1. CASE c = "gre"
    <3>1. Len(F) = 6 /\ F[1] = "checksum_present"
      BY <2>1, FieldsOfGre
    <3>2. n = IF h.field.checksum_present = 1 THEN 6 ELSE 4
      BY <2>1, <3>1 DEF SentSize, HasOptionals
    <3>3. 1 \in 1 .. n /\ Len(d) # 0
      <4>1. n = 6 \/ n = 4
        BY <3>2
      <4>2. Len(d) = n + m + Len(rest)
        BY <1>1
      <4> HIDE DEF n, m
      <4> QED
        BY <1>4, <4>1, <4>2
    <3>4. d[1] = h.field.checksum_present /\ d # << >>
      BY <1>1, <3>1, <3>3
    <3> QED
      BY <2>1, <3>1, <3>2, <3>4 DEF FixedSize
  <2>2. CASE c # "gre"
    BY <2>2 DEF FixedSize, SentSize
  <2> QED
    BY <2>1, <2>2
<1>6. LongEnough(c, d)
  BY <1>1, <1>2, <1>4, <1>5 DEF LongEnough
<1>7. IsParsed(g, c, d)
  BY <1>2, ParsedParts
<1>8. /\ g = [case |-> c, field |-> g.field, options |-> g.options]
      /\ g.field = [f \in FieldsOf(c) |-> g.field[f]]
  BY <1>7 DEF IsParsed
<1>9. \A k \in 1 .. Len(F) : g.field[F[k]] = IF k <= n THEN d[k] ELSE Missing
  BY <1>5, <1>7 DEF IsParsed
<1>10. g.options = SubSeq(d, n + 1, n + OptionsAnnounced(c, g.field, Len(d) - n))
  BY <1>5, <1>7 DEF IsParsed
<1>11. /\ h.field = [f \in FieldsOf(c) |-> h.field[f]]
       /\ h = [case |-> c, field |-> h.field, options |-> h.options]
  BY DEF IsHeader
<1> HIDE DEF g
<1>12. ASSUME NEW k \in 1 .. Len(F) PROVE g.field[F[k]] = h.field[F[k]]
  <2>1. CASE k <= n
    BY <1>1, <1>3, <1>9, <2>1
  <2>2. CASE ~(k <= n)
    <3>1. c = "gre" /\ ~HasOptionals(h) /\ n = 4 /\ Len(F) = 6
      BY <1>3, <2>2, FieldsOfGre DEF SentSize
    <3>2. k \in 5 .. 6
      BY <2>2, <3>1
    <3>3. F[k] \in GreOptionals
      BY <3>1, <3>2, FieldsOfGre
    <3>4. h.field[F[k]] = Missing
      BY <3>1, <3>3 DEF FieldsValid, GreFieldsValid
    <3> QED
      BY <1>9, <2>2, <3>4
  <2> QED
    BY <2>1, <2>2
<1>13. g.field = h.field
  <2>1. \A f \in FieldsOf(c) : g.field[f] = h.field[f]
    BY <1>3, <1>12 DEF FieldsOf
  <2> QED
    BY <1>8, <1>11, <2>1
<1>14. g.options = h.options
  <2>1. Len(d) - n = m + Len(rest)
    BY <1>1, <1>4
  <2>2. m + Len(rest) \in Nat /\ m <= m + Len(rest)
    BY <1>4
  <2> DEFINE room == m + Len(rest)
  <2> HIDE DEF room
  <2>3. OptionsAnnounced(c, h.field, room) = m
    BY <1>1, <2>2, OptionsAreAnnounced DEF room
  <2> QED
    BY <1>1, <1>10, <1>13, <2>1, <2>3 DEF room
<1> QED
  BY <1>6, <1>8, <1>11, <1>13, <1>14 DEF g

------------------------------------------------------------------------------
(* The invariant of parsing                                                *)

Serialized(headers) == [i \in DOMAIN headers |-> SerializeHeader(headers[i])]

Demanded ==
  IF packet.headers = << >> THEN first_header
  ELSE ExpectedHeaderCase(packet.headers[Len(packet.headers)])

(* The headers parsed so far and the data left are the input, and what is   *)
(* parsed next is what the last header demands.                             *)
ParsingInv ==
  /\ input \in Seq(Nat) /\ data \in Seq(Nat) /\ first_header \in HeaderCases
  /\ status \in {"parsing", "done", "failed"}
  /\ IsPacket(packet)
  /\ \A i \in 1 .. Len(packet.headers) : Serializable(packet.headers[i])
  /\ input = FlattenSeq(Serialized(packet.headers)) \o data
  /\ packet.payload = IF status = "parsing" THEN << >> ELSE data
  /\ next_header = Demanded
  /\ status # "parsing" => ~LongEnough(next_header, data)
  /\ status = "done" /\ next_header # "not_set" => reasons_invalid

IsList(s) == Len(s) \in Nat /\ s = [i \in 1 .. Len(s) |-> s[i]]

LEMMA SerializedHeaders ==
  ASSUME NEW s, IsList(s), \A i \in 1 .. Len(s) : IsHeader(s[i]) /\ Serializable(s[i])
  PROVE  /\ Serialized(s) \in Seq(Seq(Nat)) /\ Len(Serialized(s)) = Len(s)
         /\ \A i \in 1 .. Len(s) : Serialized(s)[i] = SerializeHeader(s[i])
<1> DEFINE n == Len(s)
<1>1. n \in Nat /\ DOMAIN s = 1 .. n
  BY DEF IsList
<1>2. ASSUME NEW i \in 1 .. n PROVE SerializeHeader(s[i]) \in Seq(Nat)
  <2> DEFINE h == s[i]
             d == SerializeHeader(h) \o << >>
  <2>1. IsHeader(h) /\ Serializable(h)
    OBVIOUS
  <2>2. << >> \in Seq(Nat)
    OBVIOUS
  <2>3. d = SerializeHeader(h) \o << >>
    OBVIOUS
  <2> HIDE DEF h, d
  <2>4. SerializeHeader(h) \in Seq(Nat)
    BY <2>1, <2>2, <2>3, SerializedCells
  <2> QED
    BY <2>4 DEF h
<1>3. Serialized(s) = [i \in 1 .. n |-> SerializeHeader(s[i])]
  BY <1>1 DEF Serialized
<1> HIDE DEF n
<1> QED
  BY <1>1, <1>2, <1>3 DEF n

LEMMA AppendedHeader ==
  ASSUME NEW s, IsList(s), NEW h
  PROVE  /\ IsList(Append(s, h)) /\ Len(Append(s, h)) = Len(s) + 1
         /\ Append(s, h)[Len(s) + 1] = h
         /\ \A i \in 1 .. Len(s) : Append(s, h)[i] = s[i]
<1> DEFINE n == Len(s)
           S == {s[i] : i \in 1 .. n} \cup {h}
           t == Append(s, h)
<1>1. n \in Nat /\ s = [i \in 1 .. n |-> s[i]] /\ h \in S
  BY DEF IsList
<1>2. s \in Seq(S)
  <2>1. \A i \in 1 .. n : s[i] \in S
    OBVIOUS
  <2>2. [i \in 1 .. n |-> s[i]] \in Seq(S)
    <3> HIDE DEF S, n
    <3> QED
      BY <1>1, <2>1
  <2> QED
    BY <1>1, <2>2
<1> HIDE DEF S, n
<1>3. /\ t \in Seq(S) /\ Len(t) = Len(s) + 1
      /\ \A i \in 1 .. Len(s) : t[i] = s[i]
      /\ t[Len(s) + 1] = h
  BY <1>1, <1>2, AppendProperties
<1> HIDE DEF t
<1>4. IsList(t)
  BY <1>3 DEF IsList
<1> QED
  BY <1>3, <1>4 DEF t

LEMMA SerializedAppend ==
  ASSUME NEW s, IsList(s), \A i \in 1 .. Len(s) : IsHeader(s[i]) /\ Serializable(s[i]),
         NEW h, IsHeader(h), Serializable(h)
  PROVE  FlattenSeq(Serialized(Append(s, h))) = FlattenSeq(Serialized(s)) \o SerializeHeader(h)
<1> DEFINE n == Len(s)
           t == Append(s, h)
           a == Serialized(s)
           x == SerializeHeader(h)
           b == Serialized(t)
<1>1. n \in Nat /\ IsList(t) /\ Len(t) = n + 1 /\ t[n + 1] = h /\ \A i \in 1 .. n : t[i] = s[i]
  BY AppendedHeader DEF IsList
<1>2. a \in Seq(Seq(Nat)) /\ Len(a) = n /\ \A i \in 1 .. n : a[i] = SerializeHeader(s[i])
  BY SerializedHeaders
<1> HIDE DEF t
<1>3. \A i \in 1 .. Len(t) : IsHeader(t[i]) /\ Serializable(t[i])
  BY <1>1
<1>4. b \in Seq(Seq(Nat)) /\ Len(b) = n + 1 /\ \A i \in 1 .. n + 1 : b[i] = SerializeHeader(t[i])
  BY <1>1, <1>3, SerializedHeaders
<1> HIDE DEF a, b, n
<1>5. b[n + 1] = x /\ x \in Seq(Nat)
  <2>1. n + 1 \in 1 .. n + 1
    BY <1>1
  <2> QED
    BY <1>1, <1>4, <2>1
<1> HIDE DEF x
<1>6. b = Append(a, x)
  <2> DEFINE c == Append(a, x)
  <2>1. c \in Seq(Seq(Nat)) /\ Len(c) = n + 1 /\ c[n + 1] = x /\ \A i \in 1 .. n : c[i] = a[i]
    BY <1>2, <1>5, AppendProperties
  <2> HIDE DEF c
  <2>2. \A i \in 1 .. n + 1 : b[i] = c[i]
    <3>1. \A i \in 1 .. n + 1 : i = n + 1 \/ i \in 1 .. n
      BY <1>1
    <3> QED
      BY <1>1, <1>2, <1>4, <1>5, <2>1, <3>1
  <2>3. b = [i \in 1 .. n + 1 |-> b[i]] /\ c = [i \in 1 .. n + 1 |-> c[i]]
    BY <1>4, <2>1
  <2>4. b = c
    BY <2>2, <2>3
  <2> QED
    BY <2>4 DEF c
<1>7. FlattenSeq(Append(a, x)) = FlattenSeq(a) \o x
  BY <1>2, <1>5, FlattenedAppend
<1> QED
  BY <1>6, <1>7 DEF a, b, x, t

LEMMA NoHeaders ==
  IsList(<< >>) /\ FlattenSeq(Serialized(<< >>)) = << >>
<1>1. IsList(<< >>) /\ Len(<< >>) = 0
  BY DEF IsList
<1>2. Serialized(<< >>) \in Seq(Seq(Nat)) /\ Len(Serialized(<< >>)) = 0
  BY <1>1, SerializedHeaders
<1>3. FlattenSeq(Serialized(<< >>)) = Serialized(<< >>)
  BY <1>2 DEF FlattenSeq
<1> QED
  BY <1>1, <1>2, <1>3

LEMMA InitialParsingInv == Init => ParsingInv
<1> SUFFICES ASSUME Init PROVE ParsingInv
  OBVIOUS
<1>1. /\ input \in Seq(Nat) /\ data = input /\ first_header \in HeaderCases
      /\ status = "parsing" /\ next_header = first_header
  BY InputsAreCells, FirstHeadersExist DEF Init
<1>2. packet = [headers |-> << >>, payload |-> << >>]
  BY DEF Init
<1>3. packet.headers = << >> /\ packet.payload = << >>
  BY <1>2
<1>4. Len(packet.headers) = 0 /\ packet.payload \in Seq(Nat)
  BY <1>3
<1>5. IsPacket(packet)
  <2>1. packet = [headers |-> packet.headers, payload |-> packet.payload]
    BY <1>2, <1>3
  <2>2. packet.headers = [i \in 1 .. 0 |-> packet.headers[i]]
    BY <1>3
  <2>3. \A i \in 1 .. 0 : IsHeader(packet.headers[i])
    OBVIOUS
  <2> QED
    BY <1>4, <2>1, <2>2, <2>3 DEF IsPacket
<1>6. \A i \in 1 .. Len(packet.headers) : Serializable(packet.headers[i])
  BY <1>4
<1>7. input = FlattenSeq(Serialized(packet.headers)) \o data
  <2>1. << >> \o input = input
    BY <1>1, ConcatEmptySeq
  <2> QED
    BY <1>1, <1>3, <2>1, NoHeaders
<1>8. next_header = Demanded
  BY <1>1, <1>3 DEF Demanded
<1> QED
  BY <1>1, <1>3, <1>5, <1>6, <1>7, <1>8 DEF ParsingInv

LEMMA PacketsAreLists ==
  ASSUME NEW p, IsPacket(p)
  PROVE  IsList(p.headers) /\ \A i \in 1 .. Len(p.headers) : IsHeader(p.headers[i])
  BY DEF IsPacket, IsList

LEMMA ParseNextHeaderKeepsParsingInv ==
  ASSUME ParsingInv, ParseNextHeader
  PROVE  ParsingInv'
<1> DEFINE h == ParseHeader(next_header, data)
           x == SerializeHeader(h)
           rest == SubSeq(data, Len(x) + 1, Len(data))
           s == packet.headers
           t == Append(s, h)
<1>1. /\ status = "parsing" /\ next_header # "not_set" /\ LongEnough(next_header, data)
      /\ packet' = [packet EXCEPT !.headers = t]
      /\ data' = rest
      /\ next_header' = ExpectedHeaderCase(h)
      /\ UNCHANGED <<input, first_header, reasons_invalid, status>>
  BY DEF ParseNextHeader
<1>2. /\ input \in Seq(Nat) /\ data \in Seq(Nat) /\ first_header \in HeaderCases
      /\ IsPacket(packet) /\ \A i \in 1 .. Len(s) : Serializable(s[i])
      /\ input = FlattenSeq(Serialized(s)) \o data
      /\ packet.payload = << >>
      /\ next_header = Demanded
  BY <1>1 DEF ParsingInv
<1>3. next_header \in HeaderCases
  BY <1>2, FollowersAreCases DEF Demanded
<1>4. IsList(s) /\ \A i \in 1 .. Len(s) : IsHeader(s[i])
  BY <1>2, PacketsAreLists
<1>5. IsParsed(h, next_header, data)
  BY <1>3, ParsedParts
<1> HIDE DEF h
<1>6. IsHeader(h) /\ Serializable(h) /\ x \in Seq(Nat) /\ rest \in Seq(Nat) /\ data = x \o rest
  BY <1>1, <1>2, <1>3, <1>5, ParsedHeader
<1>7. /\ IsList(t) /\ Len(t) = Len(s) + 1 /\ t[Len(s) + 1] = h
      /\ \A i \in 1 .. Len(s) : t[i] = s[i]
  BY <1>4, AppendedHeader
<1>8. FlattenSeq(Serialized(t)) = FlattenSeq(Serialized(s)) \o x
  BY <1>2, <1>4, <1>6, SerializedAppend
<1>9. FlattenSeq(Serialized(s)) \in Seq(Nat)
  BY <1>2, <1>4, SerializedHeaders, FlatSequence
<1> HIDE DEF t, rest
<1>10. /\ packet'.headers = t /\ packet'.payload = << >>
       /\ packet' = [headers |-> t, payload |-> << >>]
  <2>1. packet = [headers |-> s, payload |-> << >>]
    BY <1>2 DEF IsPacket
  <2> HIDE DEF s
  <2> QED
    BY <1>1, <2>1
<1>11. \A i \in 1 .. Len(t) : IsHeader(t[i]) /\ Serializable(t[i])
  <2>1. \A i \in 1 .. Len(t) : i = Len(s) + 1 \/ i \in 1 .. Len(s)
    BY <1>4, <1>7 DEF IsList
  <2> QED
    BY <1>2, <1>4, <1>6, <1>7, <2>1
<1>12. IsPacket(packet')
  <2> DEFINE q == packet'
  <2>1. q.headers = t /\ q.payload = << >> /\ q = [headers |-> q.headers, payload |-> q.payload]
    BY <1>10
  <2> HIDE DEF q
  <2>2. q.payload \in Seq(Nat)
    BY <2>1
  <2>3. Len(t) \in Nat /\ t = [i \in 1 .. Len(t) |-> t[i]]
    BY <1>7 DEF IsList
  <2>4. IsPacket(q)
    BY <1>11, <2>1, <2>2, <2>3 DEF IsPacket
  <2> QED
    BY <2>4 DEF q
<1>13. input' = FlattenSeq(Serialized(t)) \o rest
  <2> DEFINE flat == FlattenSeq(Serialized(s))
  <2>1. (flat \o x) \o rest = flat \o (x \o rest)
    <3>1. flat \in Seq(Nat) /\ x \in Seq(Nat) /\ rest \in Seq(Nat)
      BY <1>6, <1>9
    <3> HIDE DEF flat, x
    <3> QED
      BY <3>1, ConcatAssociative
  <2> QED
    BY <1>1, <1>2, <1>6, <1>8, <2>1
<1>14. Demanded' = ExpectedHeaderCase(h)
  <2>1. t # << >> /\ t[Len(t)] = h
    BY <1>4, <1>7 DEF IsList
  <2> QED
    BY <1>10, <2>1 DEF Demanded
<1>15. \A i \in 1 .. Len(packet'.headers) : Serializable(packet'.headers[i])
  BY <1>10, <1>11
<1>16. input' = FlattenSeq(Serialized(packet'.headers)) \o data'
  BY <1>1, <1>10, <1>13
<1> QED
  BY <1>1, <1>2, <1>6, <1>10, <1>12, <1>14, <1>15, <1>16 DEF ParsingInv

LEMMA ParsePayloadKeepsParsingInv ==
  ASSUME ParsingInv, ParsePayload
  PROVE  ParsingInv'
<1> DEFINE s == packet.headers
           result == [packet EXCEPT !.payload = data]
<1>1. /\ status = "parsing" /\ (next_header # "not_set" => ~LongEnough(next_header, data))
      /\ packet' = result
      /\ status' \in {"done", "failed"}
      /\ status' = "done" => reasons_invalid' = (next_header # "not_set" \/ ~PacketValid(result))
      /\ UNCHANGED <<input, first_header, data, next_header>>
  BY DEF ParsePayload
<1>2. /\ input \in Seq(Nat) /\ data \in Seq(Nat) /\ first_header \in HeaderCases
      /\ IsPacket(packet) /\ \A i \in 1 .. Len(s) : Serializable(s[i])
      /\ input = FlattenSeq(Serialized(s)) \o data
      /\ next_header = Demanded
  BY DEF ParsingInv
<1>3. packet'.headers = s /\ packet'.payload = data /\ packet' = [headers |-> s, payload |-> data]
  <2>1. packet = [headers |-> s, payload |-> packet.payload]
    BY <1>2 DEF IsPacket
  <2> HIDE DEF s
  <2> QED
    BY <1>1, <2>1
<1>4. IsPacket(packet')
  BY <1>2, <1>3 DEF IsPacket
<1>5. Demanded' = Demanded
  BY <1>1, <1>3 DEF Demanded
<1>6. ~LongEnough(next_header, data)
  BY <1>1 DEF LongEnough
<1>7. \A i \in 1 .. Len(packet'.headers) : Serializable(packet'.headers[i])
  BY <1>2, <1>3
<1>8. input' = FlattenSeq(Serialized(packet'.headers)) \o data'
  BY <1>1, <1>2, <1>3
<1>9. status' # "parsing" /\ packet'.payload = data'
  BY <1>1, <1>3
<1>10. status' = "done" /\ next_header' # "not_set" => reasons_invalid'
  BY <1>1
<1>11. ~LongEnough(next_header', data')
  BY <1>1, <1>6
<1> QED
  BY <1>1, <1>2, <1>4, <1>5, <1>7, <1>8, <1>9, <1>10, <1>11 DEF ParsingInv

(* ParsePacket: at any time, for data of any cells, the headers parsed and  *)
(* the data left are the input, and every header is the one demanded.       *)
THEOREM ParsingInvariantHolds == Spec => []ParsingInv
<1>1. ParsingInv /\ [Next]_vars => ParsingInv'
  <2> SUFFICES ASSUME ParsingInv, [Next]_vars PROVE ParsingInv'
    OBVIOUS
  <2>1. CASE UNCHANGED vars
    BY <2>1 DEF vars, ParsingInv, Demanded
  <2> QED
    BY <2>1, ParseNextHeaderKeepsParsingInv, ParsePayloadKeepsParsingInv DEF Next
<1> QED
  BY <1>1, InitialParsingInv, PTL DEF Spec

(* ParsePacket, RawSerializePacket: whatever the data, what was parsed,     *)
(* serialized, is what was taken, and in the end all of it.                 *)
THEOREM ParsingIsAlwaysLossless == Spec => []ParsingIsLossless
<1>1. ParsingInv => ParsingIsLossless
  <2> SUFFICES ASSUME ParsingInv PROVE ParsingIsLossless
    OBVIOUS
  <2> DEFINE s == packet.headers
             flat == FlattenSeq(Serialized(s))
             m == Len(flat)
  <2>1. /\ input \in Seq(Nat) /\ data \in Seq(Nat) /\ IsPacket(packet)
        /\ \A i \in 1 .. Len(s) : Serializable(s[i])
        /\ input = flat \o data
        /\ packet.payload = IF status = "parsing" THEN << >> ELSE data
    BY DEF ParsingInv
  <2>2. IsList(s) /\ \A i \in 1 .. Len(s) : IsHeader(s[i])
    BY <2>1, PacketsAreLists
  <2>3. flat \in Seq(Nat)
    BY <2>1, <2>2, SerializedHeaders, FlatSequence
  <2>4. RawSerializePacket(packet) = flat \o packet.payload
    <3>1. DOMAIN s = 1 .. Len(s)
      BY <2>2 DEF IsList
    <3> QED
      BY <2>1, <3>1 DEF RawSerializePacket, Serialized
  <2> HIDE DEF flat, s
  <2>5. Len(input) = m + Len(data) /\ m \in Nat /\ Len(data) \in Nat
    BY <2>1, <2>3, ConcatProperties
  <2>6. Len(input) - Len(data) = m
    BY <2>5
  <2>7. SubSeq(input, 1, m) = flat
    <3> DEFINE first == SubSeq(input, 1, m)
    <3>1. \A i \in 1 .. m : input[i] = flat[i] /\ input[i] \in Nat
      BY <2>1, <2>3, <2>5
    <3>2. first \in Seq(Nat) /\ Len(first) = m /\ \A i \in 1 .. m : first[i] = input[i]
      <4>1. \A i \in 0 + 1 .. 0 + m : input[i] \in Nat
        BY <2>5, <3>1
      <4>2. /\ SubSeq(input, 0 + 1, 0 + m) \in Seq(Nat)
            /\ Len(SubSeq(input, 0 + 1, 0 + m)) = m
            /\ \A i \in 1 .. m : SubSeq(input, 0 + 1, 0 + m)[i] = input[0 + i]
        BY <2>5, <4>1, CellsFrom
      <4>3. 0 + 1 = 1 /\ 0 + m = m /\ \A i \in 1 .. m : 0 + i = i
        BY <2>5
      <4> QED
        BY <4>2, <4>3
    <3> HIDE DEF first
    <3>3. first = flat
      BY <2>3, <3>1, <3>2, SameCells
    <3> QED
      BY <3>3 DEF first
  <2>8. CASE status = "parsing"
    BY <2>1, <2>3, <2>4, <2>6, <2>7, <2>8, ConcatEmptySeq DEF ParsingIsLossless
  <2>9. CASE status # "parsing"
    BY <2>1, <2>4, <2>9 DEF ParsingIsLossless
  <2> QED
    BY <2>8, <2>9
<1> QED
  BY <1>1, ParsingInvariantHolds, PTL

(* ParsePacket: whatever the data, a supported header that is demanded is   *)
(* left in the payload only if the data is too short for it, and then the   *)
(* packet is said to be invalid.                                            *)
THEOREM SupportedHeadersAreAlwaysParsed == Spec => []SupportedHeadersAreParsed
<1>1. ParsingInv => SupportedHeadersAreParsed
  BY DEF ParsingInv, Demanded, SupportedHeadersAreParsed
<1> QED
  BY <1>1, ParsingInvariantHolds, PTL

------------------------------------------------------------------------------
(* Valid packets come back                                                 *)

(* x \o y, under a name that the provers do not expand by themselves.        *)
Joined(x, y) == x \o y

LEMMA JoinedLists ==
  ASSUME NEW S, NEW x \in Seq(S), NEW y \in Seq(S)
  PROVE  Joined(x, y) \in Seq(S)
  BY ConcatProperties DEF Joined

LEMMA JoinedTwice ==
  ASSUME NEW S, NEW x \in Seq(S), NEW y \in Seq(S), NEW z \in Seq(S)
  PROVE  Joined(Joined(x, y), z) = Joined(x, Joined(y, z))
<1>1. (x \o y) \o z = x \o (y \o z)
  BY ConcatAssociative
<1> QED
  BY <1>1 DEF Joined

LEMMA SameBehind ==
  ASSUME NEW S, NEW x \in Seq(S), NEW y \in Seq(S), NEW z \in Seq(S),
         Joined(x, y) = Joined(x, z)
  PROVE  y = z
<1>1. x \o y = x \o z
  BY DEF Joined
<1> QED
  BY <1>1, ConcatSimplifications

(* The beginnings of a flattened list, of which each continues the earlier  *)
(* ones.                                                                    *)
AreBeginnings(g, s, n) ==
  /\ \A i \in 1 .. n : s[i] \in Seq(Nat)
  /\ g \in [0 .. n -> Seq(Nat)]
  /\ Flattens(g, s, n)

ContinuesAt(g, k, m) == \E t \in Seq(Nat) : g[m] = Joined(g[k], t)

LEMMA BeginningsContinue ==
  ASSUME NEW n \in Nat, NEW g, NEW s, AreBeginnings(g, s, n),
         NEW k \in 0 .. n, NEW m \in 0 .. n, k <= m
  PROVE  ContinuesAt(g, k, m)
<1> DEFINE S == Nat
<1>0. /\ \A i \in 1 .. n : s[i] \in Seq(S)
      /\ g \in [0 .. n -> Seq(S)]
      /\ Flattens(g, s, n)
  BY DEF AreBeginnings
<1> DEFINE Continues(i) == \E t \in Seq(S) : g[i] = Joined(g[k], t)
           T == {i \in k .. n : ~Continues(i)}
<1>1. \A i \in 1 .. n : s[i] \in Seq(S) /\ g[i] = Joined(g[i - 1], s[i])
  BY <1>0 DEF Flattens, Joined
<1>1a. m \in k .. n /\ \A i \in 0 .. n : g[i] \in Seq(S)
  BY <1>0
<1> SUFFICES ASSUME T # {} PROVE FALSE
  BY <1>1a DEF ContinuesAt
<1>2. T \in SUBSET Nat
  BY <1>1a
<1>3. PICK i \in T : \A j \in T : i <= j
  <2> HIDE DEF T
  <2> QED
    BY <1>2, LeastNatural
<1>4. Continues(k)
  <2>1. g[k] = Joined(g[k], << >>) /\ << >> \in Seq(S)
    BY <1>1a, ConcatEmptySeq DEF Joined
  <2> QED
    BY <2>1
<1> HIDE DEF Continues
<1>5. i \in 1 .. n /\ i - 1 \in k .. n /\ i - 1 \in 0 .. n /\ ~(i <= i - 1)
  <2>1. i \in k .. n /\ ~Continues(i)
    BY <1>3
  <2>2. i # k
    BY <1>4, <2>1
  <2> QED
    BY <2>1, <2>2
<1>6. Continues(i - 1)
  BY <1>3, <1>5
<1>7. PICK t \in Seq(S) : g[i - 1] = Joined(g[k], t)
  BY <1>6 DEF Continues
<1>8. g[i] = Joined(Joined(g[k], t), s[i])
  BY <1>1, <1>5, <1>7
<1>9. Joined(Joined(g[k], t), s[i]) = Joined(g[k], Joined(t, s[i])) /\ Joined(t, s[i]) \in Seq(S)
  <2> DEFINE begin == g[k]
             next  == s[i]
  <2>1. begin \in Seq(S) /\ next \in Seq(S)
    BY <1>1, <1>1a, <1>5
  <2> HIDE DEF begin, next, T
  <2>2. Joined(Joined(begin, t), next) = Joined(begin, Joined(t, next))
    BY <2>1, JoinedTwice
  <2>3. Joined(t, next) \in Seq(S)
    BY <2>1, JoinedLists
  <2> QED
    BY <2>2, <2>3 DEF begin, next
<1>10. Continues(i)
  BY <1>8, <1>9 DEF Continues
<1> QED
  BY <1>3, <1>10

(* The lists of options that ihl has room for.                              *)
HasFewOptions(h) == h.case = "ipv4" /\ h.options # Malformed => Len(h.options) <= 10

(* A valid packet that is the input, in its serialization.                  *)
IsInput(p) ==
  /\ p.headers # << >> /\ p.headers[1].case = first_header
  /\ ~ValidationFails(p) /\ PacketValid(p)
  /\ RawSerializePacket(p) = input

LEMMA ValidHeadersAnnounceTheirOptions ==
  ASSUME NEW p, IsPacket(p), PacketValid(p), NEW i \in 1 .. Len(p.headers), HasFewOptions(p.headers[i])
  PROVE  FieldsValid(p.headers[i]) /\ AnnouncesItsOptions(p.headers[i])
<1> DEFINE h == p.headers[i]
           m == Len(h.options)
<1>1. i \in DOMAIN p.headers /\ IsHeader(h)
  BY DEF IsPacket
<1>2. FieldsValid(h) /\ \A k \in DOMAIN ComputedFieldsOf(h) : ComputedFieldValid(p, i, ComputedFieldsOf(h)[k])
  BY <1>1 DEF PacketValid
<1>3. h.options \in Seq(Nat)
  BY <1>1, <1>2 DEF IsHeader, FieldsValid, OptionsValid
<1>4. h.options # Malformed
  BY <1>2 DEF FieldsValid, OptionsValid
<1>5. ASSUME h.case = "ipv4" PROVE h.field.ihl = 5 + m /\ m <= 10
  <2>1. ComputedFieldsOf(h) = <<"version", "ihl", "total_length", "checksum">>
    BY <1>5 DEF ComputedFieldsOf, ComputedFields
  <2>2. 2 \in DOMAIN ComputedFieldsOf(h) /\ ComputedFieldsOf(h)[2] = "ihl"
    BY <2>1
  <2>3. ComputedFieldValid(p, i, "ihl")
    BY <1>2, <2>2
  <2>4. h.field["ihl"] = ComputedValue(p, i, "ihl")
    BY <1>5, <2>3 DEF ComputedFieldValid
  <2>5. ComputedValue(p, i, "ihl") = Ihl(h)
    BY DEF ComputedValue
  <2>6. Ihl(h) = (5 + m) % 16
    BY <1>4 DEF Ihl
  <2>7. m \in Nat /\ m <= 10
    BY <1>3, <1>4, <1>5 DEF HasFewOptions
  <2>8. \A x \in 0 .. 10 : (5 + x) % 16 = 5 + x
    OBVIOUS
  <2> HIDE DEF m
  <2>9. (5 + m) % 16 = 5 + m
    BY <2>7, <2>8
  <2> QED
    BY <2>4, <2>5, <2>6, <2>7, <2>9
<1>6. ASSUME h.case = "tcp" PROVE h.field.data_offset = 5 + m /\ m <= 10
  <2>1. ComputedFieldsOf(h) = <<"data_offset">>
    BY <1>6 DEF ComputedFieldsOf, ComputedFields
  <2>2. 1 \in DOMAIN ComputedFieldsOf(h) /\ ComputedFieldsOf(h)[1] = "data_offset"
    BY <2>1
  <2>3. ComputedFieldValid(p, i, "data_offset")
    BY <1>2, <2>2
  <2>4. h.field["data_offset"] = ComputedValue(p, i, "data_offset")
    BY <1>6, <2>3 DEF ComputedFieldValid
  <2>5. ComputedValue(p, i, "data_offset") = DataOffset(p, i)
    BY DEF ComputedValue
  <2>6. h.field["data_offset"] \in Nat
    <3>1. "data_offset" \in FieldsOf(h.case)
      BY <1>6 DEF FieldsOf, Fields
    <3> QED
      BY <1>2, <1>6, <3>1 DEF FieldsValid
  <2>7. Undefined \notin Int
    BY MarkersAreNoValues DEF Markers
  <2>8. DataOffset(p, i) \in {Undefined, 5 + m}
    BY DEF DataOffset
  <2>9. m <= 10
    BY <1>2, <1>6 DEF FieldsValid, OptionsValid
  <2> HIDE DEF m
  <2> QED
    BY <2>4, <2>5, <2>6, <2>7, <2>8, <2>9
<1> QED
  BY <1>2, <1>5, <1>6 DEF AnnouncesItsOptions

(* What is left to be parsed, when as many headers have come back.          *)
LEMMA RestComesBack ==
  ASSUME ParsingInv, NEW p, IsPacket(p), IsInput(p),
         \A i \in 1 .. Len(p.headers) : HasFewOptions(p.headers[i]),
         Len(packet.headers) <= Len(p.headers),
         \A i \in 1 .. Len(packet.headers) : packet.headers[i] = p.headers[i]
  PROVE  LET k == Len(packet.headers)
             n == Len(p.headers)
         IN  /\ k < n => /\ next_header = p.headers[k + 1].case
                         /\ next_header # "not_set"
                         /\ LongEnough(next_header, data)
                         /\ ParseHeader(next_header, data) = p.headers[k + 1]
             /\ k = n => next_header = "not_set" /\ data = p.payload
<1> DEFINE s == packet.headers
           k == Len(s)
           n == Len(p.headers)
           a == Serialized(p.headers)
<1>1. /\ input \in Seq(Nat) /\ data \in Seq(Nat) /\ IsPacket(packet)
      /\ \A i \in 1 .. k : Serializable(s[i])
      /\ input = FlattenSeq(Serialized(s)) \o data
      /\ next_header = Demanded
  BY DEF ParsingInv
<1>2. IsList(s) /\ IsList(p.headers) /\ \A i \in 1 .. n : IsHeader(p.headers[i])
  BY <1>1, PacketsAreLists
<1>3. k \in Nat /\ n \in Nat /\ k <= n /\ DOMAIN p.headers = 1 .. n /\ n # 0
  <2>1. k \in Nat /\ n \in Nat /\ p.headers = [i \in 1 .. n |-> p.headers[i]]
    BY <1>2 DEF IsList
  <2>2. p.headers # << >>
    BY DEF IsInput
  <2>3. n # 0
    BY <2>1, <2>2
  <2> QED
    BY <2>1, <2>3
<1>4. /\ \A i \in 1 .. n : Serializable(p.headers[i])
      /\ input = FlattenSeq(a) \o p.payload
  <2>1. Undefined \notin Seq(Nat) /\ RawSerializePacket(p) = input
    BY MarkersAreNoValues DEF IsInput, Markers
  <2>2. RawSerializePacket(p) # Undefined
    BY <1>1, <2>1
  <2>3. \A i \in DOMAIN p.headers : Serializable(p.headers[i])
    BY <2>2 DEF RawSerializePacket
  <2>4. RawSerializePacket(p) = FlattenSeq(a) \o p.payload
    BY <2>3 DEF RawSerializePacket, Serialized
  <2> QED
    BY <1>3, <2>1, <2>3, <2>4
<1>5. a \in Seq(Seq(Nat)) /\ Len(a) = n /\ \A i \in 1 .. n : a[i] = SerializeHeader(p.headers[i])
  BY <1>2, <1>4, SerializedHeaders
<1>6. PICK g \in [0 .. n -> Seq(Nat)] :
         Flattens(g, a, n) /\ \A i \in 0 .. n : FlattenSeq(SubSeq(a, 1, i)) = g[i]
  <2>1. \E g \in [0 .. Len(a) -> Seq(Nat)] :
          Flattens(g, a, Len(a)) /\ \A i \in 0 .. Len(a) : FlattenSeq(SubSeq(a, 1, i)) = g[i]
    BY <1>5, FlattenedBeginnings
  <2> QED
    BY <1>5, <2>1
<1>7. FlattenSeq(a) = g[n]
  <2>1. SubSeq(a, 1, n) = a
    BY <1>5, SubSeqFull
  <2>2. n \in 0 .. n
    BY <1>3
  <2>3. FlattenSeq(SubSeq(a, 1, n)) = g[n]
    BY <1>6, <2>2
  <2> QED
    BY <2>1, <2>3
<1>8. FlattenSeq(Serialized(s)) = g[k]
  <2> DEFINE b == Serialized(s)
             c == SubSeq(a, 1, k)
  <2>0. \A i \in 1 .. k : i \in 1 .. n /\ s[i] = p.headers[i]
    BY <1>3
  <2>1. b \in Seq(Seq(Nat)) /\ Len(b) = k /\ \A i \in 1 .. k : b[i] = SerializeHeader(s[i])
    BY <1>1, <1>2, <1>4, <2>0, SerializedHeaders
  <2>2. c \in Seq(Seq(Nat)) /\ Len(c) = k /\ \A i \in 1 .. k : c[i] = a[i]
    BY <1>3, <1>5
  <2> HIDE DEF b, c, a, k, n
  <2>3. \A i \in 1 .. k : b[i] = c[i]
    BY <1>5, <2>0, <2>1, <2>2
  <2>4. b = [i \in 1 .. k |-> b[i]] /\ c = [i \in 1 .. k |-> c[i]]
    BY <2>1, <2>2
  <2>5. b = c
    BY <2>3, <2>4
  <2> QED
    BY <1>3, <1>6, <2>5 DEF b, c
<1>9. p.payload \in Seq(Nat) /\ g[k] \in Seq(Nat) /\ g[n] \in Seq(Nat)
  BY <1>3, <1>6 DEF IsPacket
<1>10. g[k] \o data = g[n] \o p.payload
  BY <1>1, <1>4, <1>7, <1>8
<1>11. ASSUME k = n PROVE next_header = "not_set" /\ data = p.payload
  <2>1. data = p.payload
    <3>1. \A x, y, z \in Seq(Nat) : x \o y = x \o z => y = z
      BY ConcatSimplifications
    <3>2. g[k] \o data = g[k] \o p.payload
      BY <1>10, <1>11
    <3> HIDE DEF k, n
    <3> QED
      BY <1>1, <1>9, <3>1, <3>2
  <2>2. s # << >> /\ s[k] = p.headers[n]
    BY <1>3, <1>11
  <2>3. ExpectedHeaderCase(p.headers[n]) = "not_set"
    BY DEF IsInput, PacketValid, OrderValid
  <2> QED
    BY <1>1, <1>11, <2>1, <2>2, <2>3 DEF Demanded
<1>12. ASSUME k < n
       PROVE  /\ next_header = p.headers[k + 1].case
              /\ next_header # "not_set"
              /\ LongEnough(next_header, data)
              /\ ParseHeader(next_header, data) = p.headers[k + 1]
  <2> DEFINE h == p.headers[k + 1]
             x == SerializeHeader(h)
  <2>1. k + 1 \in 1 .. n /\ k + 1 \in 0 .. n /\ (k + 1) - 1 = k /\ n \in 0 .. n /\ k + 1 <= n
    BY <1>3, <1>12
  <2>2. IsHeader(h) /\ Serializable(h) /\ FieldsValid(h) /\ AnnouncesItsOptions(h)
    BY <1>2, <1>4, <2>1, ValidHeadersAnnounceTheirOptions DEF IsInput
  <2>3. g[k + 1] = Joined(g[k], x)
    BY <1>5, <1>6, <2>1 DEF Flattens, Joined
  <2>4. PICK t \in Seq(Nat) : g[n] = Joined(g[k + 1], t)
    <3> DEFINE j == k + 1
    <3>1. \A i \in 1 .. n : a[i] \in Seq(Nat)
      BY <1>3, <1>5
    <3>2. n \in Nat /\ Flattens(g, a, n)
      BY <1>3, <1>6
    <3>3. j \in 0 .. n /\ n \in 0 .. n /\ j <= n
      BY <2>1
    <3>4. AreBeginnings(g, a, n)
      BY <1>6, <3>1, <3>2 DEF AreBeginnings
    <3> HIDE DEF a, j, n, k
    <3>5. ContinuesAt(g, j, n)
      BY <3>2, <3>3, <3>4, BeginningsContinue
    <3> QED
      BY <3>5 DEF j, ContinuesAt
  <2>5. x \in Seq(Nat)
    BY <1>5, <2>1
  <2>6. data = x \o (t \o p.payload) /\ t \o p.payload \in Seq(Nat)
    <3> DEFINE begin == g[k]
               back  == p.payload
               rest  == Joined(t, back)
    <3>1. begin \in Seq(Nat) /\ back \in Seq(Nat)
      BY <1>9
    <3>2. Joined(begin, data) = Joined(Joined(Joined(begin, x), t), back)
      BY <1>10, <2>3, <2>4 DEF Joined
    <3> HIDE DEF begin, x, back
    <3>3. Joined(begin, x) \in Seq(Nat)
      BY <2>5, <3>1, JoinedLists
    <3>4. Joined(Joined(Joined(begin, x), t), back) = Joined(Joined(begin, x), rest)
      BY <3>1, <3>3, JoinedTwice
    <3>5. rest \in Seq(Nat)
      BY <3>1, JoinedLists
    <3> HIDE DEF rest
    <3>6. Joined(Joined(begin, x), rest) = Joined(begin, Joined(x, rest))
      BY <2>5, <3>1, <3>5, JoinedTwice
    <3>7. Joined(x, rest) \in Seq(Nat)
      BY <2>5, <3>5, JoinedLists
    <3>8. data = Joined(x, rest)
      BY <1>1, <3>1, <3>2, <3>4, <3>6, <3>7, SameBehind
    <3> QED
      BY <3>5, <3>8 DEF rest, back, Joined
  <2>7. LongEnough(h.case, data) /\ ParseHeader(h.case, data) = h
    <3> DEFINE rest == t \o p.payload
    <3>1. data = x \o rest /\ rest \in Seq(Nat)
      BY <2>6
    <3> HIDE DEF h, rest
    <3> QED
      BY <2>2, <3>1, HeaderComesBack
  <2>8. next_header = h.case
    <3>1. CASE k = 0
      <4>1. s = << >> /\ p.headers[1].case = first_header
        BY <1>2, <3>1 DEF IsList, IsInput
      <4> QED
        BY <1>1, <3>1, <4>1 DEF Demanded
    <3>2. CASE k # 0
      <4>1. s # << >> /\ s[k] = p.headers[k] /\ k + 1 \in 2 .. n
        BY <1>3, <2>1, <3>2
      <4>2. h.case = ExpectedHeaderCase(p.headers[(k + 1) - 1])
        BY <4>1 DEF IsInput, PacketValid, OrderValid
      <4> QED
        BY <1>1, <2>1, <4>1, <4>2 DEF Demanded
    <3> QED
      BY <3>1, <3>2
  <2> QED
    BY <2>2, <2>7, <2>8 DEF FieldsValid
<1> QED
  BY <1>11, <1>12

(* The headers parsed so far are the first of the packet's, and in the end  *)
(* the packet is back and said to be valid.                                 *)
ComesBack(p) ==
  /\ Len(packet.headers) <= Len(p.headers)
  /\ \A i \in 1 .. Len(packet.headers) : packet.headers[i] = p.headers[i]
  /\ status = "done" => packet = p /\ ~reasons_invalid

RoundTripInv ==
  /\ ParsingInv
  /\ \A p \in Sent : IsInput(p) => ComesBack(p)

LEMMA ParseNextHeaderBringsBack ==
  ASSUME ParsingInv, ParseNextHeader, NEW p, IsPacket(p), IsInput(p), ComesBack(p),
         \A i \in 1 .. Len(p.headers) : HasFewOptions(p.headers[i])
  PROVE  ComesBack(p)'
<1> DEFINE h == ParseHeader(next_header, data)
           s == packet.headers
           k == Len(s)
           n == Len(p.headers)
           t == Append(s, h)
<1>1. /\ status = "parsing" /\ status' = status /\ next_header # "not_set"
      /\ LongEnough(next_header, data)
      /\ packet' = [packet EXCEPT !.headers = t]
  BY DEF ParseNextHeader
<1>2. k <= n /\ \A i \in 1 .. k : s[i] = p.headers[i]
  BY DEF ComesBack
<1>3. /\ k < n => h = p.headers[k + 1]
      /\ k = n => next_header = "not_set"
  BY <1>2, RestComesBack
<1>4. IsPacket(packet) /\ IsList(s) /\ k \in Nat
  BY PacketsAreLists DEF ParsingInv, IsList
<1>5. n \in Nat
  BY DEF IsPacket
<1> HIDE DEF h
<1>6. k < n /\ k + 1 <= n /\ h = p.headers[k + 1]
  BY <1>1, <1>2, <1>3, <1>4, <1>5
<1>7. Len(t) = k + 1 /\ t[k + 1] = h /\ \A i \in 1 .. k : t[i] = s[i]
  BY <1>4, AppendedHeader
<1> HIDE DEF t
<1>8. packet'.headers = t
  <2>1. packet = [headers |-> s, payload |-> packet.payload]
    BY <1>4 DEF IsPacket
  <2> HIDE DEF s
  <2> QED
    BY <1>1, <2>1
<1>9. \A i \in 1 .. Len(t) : t[i] = p.headers[i]
  <2>1. \A i \in 1 .. Len(t) : i = k + 1 \/ i \in 1 .. k
    BY <1>4, <1>7
  <2> QED
    BY <1>2, <1>6, <1>7, <2>1
<1>10. Len(packet'.headers) <= Len(p.headers)
  BY <1>6, <1>7, <1>8
<1>11. status' # "done"
  BY <1>1
<1> QED
  BY <1>8, <1>9, <1>10, <1>11 DEF ComesBack

LEMMA ParsePayloadBringsBack ==
  ASSUME ParsingInv, ParsePayload, NEW p, IsPacket(p), IsInput(p), ComesBack(p),
         \A i \in 1 .. Len(p.headers) : HasFewOptions(p.headers[i])
  PROVE  ComesBack(p)'
<1> DEFINE s == packet.headers
           k == Len(s)
           n == Len(p.headers)
           result == [packet EXCEPT !.payload = data]
<1>1. /\ next_header # "not_set" => ~LongEnough(next_header, data)
      /\ packet' = result
      /\ status' = "done" => reasons_invalid' = (next_header # "not_set" \/ ~PacketValid(result))
  BY DEF ParsePayload
<1>2. k <= n /\ \A i \in 1 .. k : s[i] = p.headers[i]
  BY DEF ComesBack
<1>3. /\ k < n => next_header # "not_set" /\ LongEnough(next_header, data)
      /\ k = n => next_header = "not_set" /\ data = p.payload
  BY <1>2, RestComesBack
<1>4. IsPacket(packet) /\ IsList(s) /\ k \in Nat
  BY PacketsAreLists DEF ParsingInv, IsList
<1>5. n \in Nat /\ IsList(p.headers) /\ p = [headers |-> p.headers, payload |-> p.payload]
  BY PacketsAreLists DEF IsPacket
<1>6. k = n /\ next_header = "not_set" /\ data = p.payload
  BY <1>1, <1>2, <1>3, <1>4, <1>5
<1>7. s = p.headers
  <2>1. s = [i \in 1 .. n |-> s[i]] /\ p.headers = [i \in 1 .. n |-> p.headers[i]]
    BY <1>4, <1>5, <1>6 DEF IsList
  <2>2. \A i \in 1 .. n : s[i] = p.headers[i]
    BY <1>2, <1>6
  <2>3. [i \in 1 .. n |-> s[i]] = [i \in 1 .. n |-> p.headers[i]]
    BY <2>2
  <2> HIDE DEF s, n
  <2> QED
    BY <2>1, <2>3
<1>8. result = p
  <2>1. packet = [headers |-> s, payload |-> packet.payload]
    BY <1>4 DEF IsPacket
  <2>2. result = [headers |-> s, payload |-> data]
    <3> HIDE DEF s
    <3> QED
      BY <2>1
  <2> QED
    BY <1>5, <1>6, <1>7, <2>2
<1> HIDE DEF result
<1>9. status' = "done" => ~reasons_invalid'
  BY <1>1, <1>6, <1>8 DEF IsInput
<1>10. packet' = p
  BY <1>1, <1>8
<1> QED
  BY <1>5, <1>9, <1>10 DEF ComesBack

(* ParsePacket, RawSerializePacket, PacketInvalidReasons: a valid packet,   *)
(* whose IPv4 headers have at most ten words of options, comes back from    *)
(* its serialization as it was, and is found valid.  With eleven words the  *)
(* length of the header does not fit its field, and it does not come back.  *)
THEOREM ValidPacketsComeBack ==
  ASSUME \A p \in Sent : \A i \in 1 .. Len(p.headers) : HasFewOptions(p.headers[i])
  PROVE  Spec => []PacketsComeBack
<1>1. Init => RoundTripInv
  <2> SUFFICES ASSUME Init, NEW p \in Sent PROVE ComesBack(p)
    BY InitialParsingInv DEF RoundTripInv
  <2>1. packet.headers = << >> /\ status = "parsing"
    BY DEF Init
  <2>2. Len(packet.headers) = 0
    BY <2>1
  <2>3. Len(p.headers) \in Nat
    BY SentArePackets DEF IsPacket
  <2> QED
    BY <2>1, <2>2, <2>3 DEF ComesBack
<1>2. RoundTripInv /\ [Next]_vars => RoundTripInv'
  <2> SUFFICES ASSUME RoundTripInv, [Next]_vars PROVE RoundTripInv'
    OBVIOUS
  <2>1. CASE UNCHANGED vars
    BY <2>1 DEF vars, RoundTripInv, ParsingInv, Demanded, IsInput, ComesBack
  <2>2. CASE Next
    <3>1. ParsingInv /\ ParsingInv'
      BY <2>2, ParseNextHeaderKeepsParsingInv, ParsePayloadKeepsParsingInv DEF Next, RoundTripInv
    <3>2. input' = input /\ first_header' = first_header
      BY <2>2 DEF Next, ParseNextHeader, ParsePayload
    <3>3. ASSUME NEW p \in Sent, IsInput(p)' PROVE ComesBack(p)'
      <4>1. IsInput(p)
        BY <3>2, <3>3 DEF IsInput
      <4>2. ComesBack(p) /\ IsPacket(p)
        BY <4>1, SentArePackets DEF RoundTripInv
      <4>3. \A i \in 1 .. Len(p.headers) : HasFewOptions(p.headers[i])
        OBVIOUS
      <4>4. CASE ParseNextHeader
        BY <3>1, <4>1, <4>2, <4>3, <4>4, ParseNextHeaderBringsBack
      <4>5. CASE ParsePayload
        BY <3>1, <4>1, <4>2, <4>3, <4>5, ParsePayloadBringsBack
      <4> QED
        BY <2>2, <4>4, <4>5 DEF Next
    <3> QED
      BY <3>1, <3>3 DEF RoundTripInv
  <2> QED
    BY <2>1, <2>2
<1>3. RoundTripInv => PacketsComeBack
  BY DEF RoundTripInv, ComesBack, IsInput, PacketsComeBack
<1> QED
  BY <1>1, <1>2, <1>3, PTL DEF Spec

=============================================================================
