--------------------------- MODULE Translation_proofs ---------------------------
(***************************************************************************)
(* Proofs about the translation between PI and IR: for every program, all  *)
(* options and all messages, what was translated in one direction is       *)
(* translated back in the other, and is what it was.                       *)
(***************************************************************************)
EXTENDS TranslationTerms, FiniteSetTheorems, SequenceTheorems, WellFoundedInduction, TLAPS

------------------------------------------------------------------------------
(* Powers of two                                                           *)

LEMMA LeastNatural ==
  ASSUME NEW T \in SUBSET Nat, T # {}
  PROVE  \E n \in T : \A m \in T : n <= m
<1> DEFINE less == {pair \in Nat \X Nat : pair[1] < pair[2]}
<1>1. IsWellFoundedOn(less, Nat)
  BY NatLessThanWellFounded DEF OpToRel
<1>2. PICK n \in T : \A m \in T : ~ (<<m, n>> \in less)
  BY <1>1, WFMin
<1>3. \A m \in T : ~(m < n)
  BY <1>2
<1> QED
  BY <1>3

(* The powers up to a number.                                               *)
ArePowers(powers, n) ==
  powers = [i \in 0 .. n |-> IF i = 0 THEN 1 ELSE 2 * powers[i - 1]]

LEMMA PowersAreFound ==
  ASSUME NEW n \in Nat
  PROVE  \E powers : ArePowers(powers, n)
<1> DEFINE T == {m \in Nat : ~ \E powers : ArePowers(powers, m)}
<1> SUFFICES ASSUME T # {} PROVE FALSE
  OBVIOUS
<1>1. PICK m \in T : \A k \in T : m <= k
  BY LeastNatural
<1>2. CASE m = 0
  <2> DEFINE one == [i \in 0 .. 0 |-> 1]
  <2>1. ArePowers(one, 0)
    BY DEF ArePowers
  <2> QED
    BY <1>1, <1>2, <2>1
<1>3. CASE m # 0
  <2>1. m \in Nat /\ m - 1 \in Nat /\ m - 1 \notin T
    BY <1>1, <1>3
  <2>2. PICK old : ArePowers(old, m - 1)
    BY <2>1
  <2> DEFINE powers == [i \in 0 .. m |-> IF i = m THEN 2 * old[m - 1] ELSE old[i]]
  <2>3. \A i \in 0 .. m : powers[i] = IF i = 0 THEN 1 ELSE 2 * powers[i - 1]
    <3> SUFFICES ASSUME NEW i \in 0 .. m
                 PROVE  powers[i] = IF i = 0 THEN 1 ELSE 2 * powers[i - 1]
      OBVIOUS
    <3>1. CASE i = m
      BY <1>3, <2>1, <3>1
    <3>2. CASE i # m
      <4>1. i \in 0 .. (m - 1)
        BY <2>1, <3>2
      <4>2. old[i] = IF i = 0 THEN 1 ELSE 2 * old[i - 1]
        BY <2>2, <4>1 DEF ArePowers
      <4> QED
        BY <2>1, <3>2, <4>1, <4>2
    <3> QED
      BY <3>1, <3>2
  <2>4. powers = [i \in 0 .. m |-> powers[i]]
    OBVIOUS
  <2> HIDE DEF powers
  <2>5. ArePowers(powers, m)
    BY <2>3, <2>4 DEF ArePowers
  <2> QED
    BY <1>1, <2>5
<1> QED
  BY <1>2, <1>3

LEMMA PowersAgree ==
  ASSUME NEW m \in Nat, NEW n \in Nat, NEW powers, ArePowers(powers, m),
         NEW others, ArePowers(others, n), NEW i \in 0 .. m, i \in 0 .. n
  PROVE  powers[i] = others[i]
<1> DEFINE T == {k \in 0 .. m : k <= n /\ powers[k] # others[k]}
<1> SUFFICES ASSUME T # {} PROVE FALSE
  OBVIOUS
<1>0. T \in SUBSET Nat
  OBVIOUS
<1>1. PICK k \in T : \A j \in T : k <= j
  BY <1>0, LeastNatural
<1>2. k \in 0 .. m /\ k \in 0 .. n
  OBVIOUS
<1>3. powers[k] = (IF k = 0 THEN 1 ELSE 2 * powers[k - 1]) /\ others[k] = IF k = 0 THEN 1 ELSE 2 * others[k - 1]
  BY <1>2 DEF ArePowers
<1>4. CASE k # 0
  <2>1. k - 1 \in 0 .. m /\ k - 1 <= n /\ k - 1 \notin T
    BY <1>1, <1>2, <1>4
  <2> QED
    BY <1>1, <1>3, <1>4, <2>1
<1> QED
  BY <1>1, <1>3, <1>4

LEMMA TwoToIsDefined ==
  TwoTo = [n \in Nat |-> IF n = 0 THEN 1 ELSE 2 * TwoTo[n - 1]]
<1> DEFINE IsTwoTo(f) == f = [n \in Nat |-> IF n = 0 THEN 1 ELSE 2 * f[n - 1]]
           up[n \in Nat] == CHOOSE powers : ArePowers(powers, n)
           two == [n \in Nat |-> up[n][n]]
<1>1. \A n \in Nat : ArePowers(up[n], n)
  BY PowersAreFound
<1> HIDE DEF up
<1>2. \A n \in Nat : two[n] = IF n = 0 THEN 1 ELSE 2 * two[n - 1]
  <2> SUFFICES ASSUME NEW n \in Nat
               PROVE  up[n][n] = IF n = 0 THEN 1 ELSE 2 * up[n - 1][n - 1]
    OBVIOUS
  <2>0. \A i \in 0 .. n : up[n][i] = IF i = 0 THEN 1 ELSE 2 * up[n][i - 1]
    BY <1>1 DEF ArePowers
  <2>1. up[n][n] = IF n = 0 THEN 1 ELSE 2 * up[n][n - 1]
    BY <2>0
  <2>2. CASE n # 0
    <3>1. n - 1 \in Nat /\ n - 1 \in 0 .. n /\ n - 1 \in 0 .. (n - 1)
      BY <2>2
    <3>2. up[n][n - 1] = up[n - 1][n - 1]
      BY <1>1, <3>1, PowersAgree
    <3> QED
      BY <2>1, <2>2, <3>2
  <2> QED
    BY <2>1, <2>2
<1>3. two = [n \in Nat |-> two[n]]
  OBVIOUS
<1> HIDE DEF two
<1>4. two = [n \in Nat |-> IF n = 0 THEN 1 ELSE 2 * two[n - 1]]
  BY <1>2, <1>3
<1>5. IsTwoTo(two)
  BY <1>4
<1>6. TwoTo = CHOOSE f : IsTwoTo(f)
  BY DEF TwoTo
<1>7. IsTwoTo(TwoTo)
  BY <1>5, <1>6
<1> QED
  BY <1>7

LEMMA TwoToNext ==
  /\ TwoTo[0] = 1
  /\ \A n \in Nat : TwoTo[n + 1] = 2 * TwoTo[n]
<1>1. TwoTo[0] = 1
  BY TwoToIsDefined
<1>2. ASSUME NEW n \in Nat PROVE TwoTo[n + 1] = 2 * TwoTo[n]
  <2>1. n + 1 \in Nat /\ n + 1 # 0 /\ (n + 1) - 1 = n
    OBVIOUS
  <2>2. \A m \in Nat : TwoTo[m] = IF m = 0 THEN 1 ELSE 2 * TwoTo[m - 1]
    BY TwoToIsDefined
  <2> QED
    BY <2>1, <2>2
<1> QED
  BY <1>1, <1>2

LEMMA TwoToIsPositive ==
  \A n \in Nat : TwoTo[n] \in Nat \ {0}
<1> DEFINE T == {n \in Nat : TwoTo[n] \notin Nat \ {0}}
<1> SUFFICES ASSUME T # {} PROVE FALSE
  OBVIOUS
<1>0. T \in SUBSET Nat
  OBVIOUS
<1>1. PICK n \in T : \A m \in T : n <= m
  BY <1>0, LeastNatural
<1>2. CASE n # 0
  <2>1. n - 1 \in Nat /\ n - 1 \notin T /\ (n - 1) + 1 = n
    BY <1>1, <1>2
  <2>2. TwoTo[n] = 2 * TwoTo[n - 1]
    BY <2>1, TwoToNext
  <2> QED
    BY <1>1, <2>1, <2>2
<1> QED
  BY <1>1, <1>2, TwoToNext

(* Powers of two of sums are products.                                      *)
LEMMA TwoToOfSums ==
  ASSUME NEW m \in Nat
  PROVE  \A n \in Nat : TwoTo[m + n] = TwoTo[m] * TwoTo[n]
<1> DEFINE T == {n \in Nat : TwoTo[m + n] # TwoTo[m] * TwoTo[n]}
<1> SUFFICES ASSUME T # {} PROVE FALSE
  OBVIOUS
<1>0. T \in SUBSET Nat
  OBVIOUS
<1>1. PICK n \in T : \A k \in T : n <= k
  BY <1>0, LeastNatural
<1>2. TwoTo[m] \in Nat
  BY TwoToIsPositive
<1>3. CASE n = 0
  <2>1. TwoTo[m + 0] = TwoTo[m] * 1
    BY <1>2
  <2> QED
    BY <1>1, <1>3, <2>1, TwoToNext
<1>4. CASE n # 0
  <2> DEFINE k == n - 1
  <2>1. k \in Nat /\ k \notin T /\ n = k + 1
    BY <1>1, <1>4
  <2>2. TwoTo[m + k] = TwoTo[m] * TwoTo[k]
    BY <2>1
  <2>3. m + k \in Nat /\ m + n = (m + k) + 1
    BY <2>1
  <2> HIDE DEF k
  <2>4. TwoTo[m + n] = 2 * TwoTo[m + k] /\ TwoTo[n] = 2 * TwoTo[k]
    BY <2>1, <2>3, TwoToNext
  <2>5. TwoTo[k] \in Nat
    BY <2>1, TwoToIsPositive
  <2>6. 2 * (TwoTo[m] * TwoTo[k]) = TwoTo[m] * (2 * TwoTo[k])
    BY <1>2, <2>5
  <2> QED
    BY <1>1, <2>2, <2>4, <2>6
<1> QED
  BY <1>3, <1>4

LEMMA TwoToIsMonotonic ==
  ASSUME NEW m \in Nat, NEW n \in Nat, m <= n
  PROVE  TwoTo[m] <= TwoTo[n]
<1> DEFINE k == n - m
<1>1. k \in Nat /\ n = m + k
  OBVIOUS
<1> HIDE DEF k
<1>2. TwoTo[n] = TwoTo[m] * TwoTo[k]
  BY <1>1, TwoToOfSums
<1>3. TwoTo[m] \in Nat /\ TwoTo[k] \in Nat /\ TwoTo[k] >= 1
  BY <1>1, TwoToIsPositive
<1>4. \A a, b \in Nat : b >= 1 => a <= a * b
  OBVIOUS
<1> QED
  BY <1>2, <1>3, <1>4

------------------------------------------------------------------------------
(* Lengths                                                                 *)

LEMMA QuotientIsFound ==
  ASSUME NEW m \in Nat, NEW n \in Nat \ {0}
  PROVE  \E q \in Nat : \E r \in 0 .. (n - 1) : m = n * q + r
<1> DEFINE T == {k \in Nat : ~ \E q \in Nat : \E r \in 0 .. (n - 1) : k = n * q + r}
<1> SUFFICES ASSUME T # {} PROVE FALSE
  OBVIOUS
<1>0. T \in SUBSET Nat
  OBVIOUS
<1>1. PICK k \in T : \A j \in T : k <= j
  BY <1>0, LeastNatural
<1>2. CASE k < n
  <2>1. k \in 0 .. (n - 1) /\ k = n * 0 + k
    BY <1>0, <1>2
  <2> QED
    BY <2>1
<1>3. CASE k >= n
  <2>0. k \in Nat /\ n \in Nat /\ n > 0
    OBVIOUS
  <2>1. k - n \in Nat /\ ~(k <= k - n)
    BY <1>3, <2>0
  <2>6. k - n \notin T
    BY <1>1, <2>1
  <2>2. PICK q \in Nat : \E r \in 0 .. (n - 1) : k - n = n * q + r
    BY <2>1, <2>6
  <2>3. PICK r \in 0 .. (n - 1) : k - n = n * q + r
    BY <2>2
  <2>4. n * (q + 1) = n * q + n
    OBVIOUS
  <2>5. k = n * (q + 1) + r /\ q + 1 \in Nat
    BY <1>0, <2>3, <2>4
  <2> QED
    BY <2>5
<1> QED
  BY <1>0, <1>2, <1>3

LEMMA QuotientIsUnique ==
  ASSUME NEW n \in Nat \ {0}, NEW q \in Nat, NEW r \in Nat, r < n
  PROVE  (n * q + r) \div n = q /\ (n * q + r) % n = r
  OBVIOUS

LEMMA MultiplesAreDivided ==
  ASSUME NEW n \in Nat \ {0}, NEW q \in Nat
  PROVE  (q * n) \div n = q /\ (q * n) % n = 0
<1>1. 0 \in Nat /\ 0 < n /\ n * q + 0 = q * n
  OBVIOUS
<1>2. (n * q + 0) \div n = q /\ (n * q + 0) % n = 0
  BY <1>1, QuotientIsUnique
<1> QED
  BY <1>1, <1>2

Quotient(m, n) == m \div n
Rest(m, n) == m % n

LEMMA QuotientAndRest ==
  ASSUME NEW m \in Nat, NEW n \in Nat \ {0}
  PROVE  /\ Quotient(m, n) \in Nat /\ Rest(m, n) \in Nat /\ Rest(m, n) < n
         /\ m = n * Quotient(m, n) + Rest(m, n)
<1>1. PICK q \in Nat : \E r \in 0 .. (n - 1) : m = n * q + r
  BY QuotientIsFound
<1>2. PICK r \in 0 .. (n - 1) : m = n * q + r
  BY <1>1
<1>3. r \in Nat /\ r < n
  OBVIOUS
<1>4. (n * q + r) \div n = q /\ (n * q + r) % n = r
  BY <1>3, QuotientIsUnique
<1>5. Quotient(m, n) = q /\ Rest(m, n) = r
  BY <1>2, <1>4 DEF Quotient, Rest
<1> QED
  BY <1>2, <1>3, <1>5

LEMMA CeilingIsEnough ==
  ASSUME NEW m \in Nat, NEW n \in Nat \ {0}
  PROVE  /\ Ceiling(m, n) \in Nat /\ m <= n * Ceiling(m, n)
         /\ Ceiling(m, n) = 0 <=> m = 0
<1> DEFINE k == m + n - 1
<1>1. k \in Nat
  OBVIOUS
<1>2. /\ Quotient(k, n) \in Nat /\ Rest(k, n) \in Nat /\ Rest(k, n) < n
      /\ k = n * Quotient(k, n) + Rest(k, n)
  BY <1>1, QuotientAndRest
<1>3. Ceiling(m, n) = Quotient(k, n)
  BY DEF Ceiling, Quotient
<1> QED
  BY <1>2, <1>3

------------------------------------------------------------------------------
(* Values                                                                  *)

(* What stands for an error is no function, so no message or part of one.   *)
ErrorsAreNoMessages == \A m \in {Refused, None} : m # [n \in DOMAIN m |-> m[n]]

LEMMA RecordsAreNoErrors ==
  ASSUME ErrorsAreNoMessages, NEW message, NEW fields, IsRecord(message, fields)
  PROVE  message \notin {Refused, None}
<1>1. DOMAIN message = fields
  BY DEF IsRecord
<1>2. message = [n \in DOMAIN message |-> message[n]]
  BY <1>1 DEF IsRecord
<1> QED
  BY <1>2 DEF ErrorsAreNoMessages

LEMMA PartsOfBytes ==
  ASSUME NEW size, NEW number
  PROVE  Bytes(size, number).size = size /\ Bytes(size, number).number = number
  BY DEF Bytes

LEMMA BytesAreNoErrors ==
  ASSUME ErrorsAreNoMessages, NEW size, NEW number
  PROVE  Bytes(size, number) \notin {Refused, None}
<1>1. IsRecord(Bytes(size, number), {"size", "number"})
  BY DEF Bytes, IsRecord
<1> QED
  BY <1>1, RecordsAreNoErrors

LEMMA IrValuesAreNoErrors ==
  ASSUME ErrorsAreNoMessages, NEW format, NEW size, NEW number
  PROVE  IrValue(format, size, number) \notin {Refused, None}
<1>1. IsRecord(IrValue(format, size, number), {"format", "size", "number"})
  BY DEF IrValue, IsRecord
<1> QED
  BY <1>1, RecordsAreNoErrors

LEMMA PartsOfIrValue ==
  ASSUME NEW format, NEW size, NEW number
  PROVE  /\ IrValue(format, size, number).format = format
         /\ IrValue(format, size, number).size = size
         /\ IrValue(format, size, number).number = number
         /\ IsRecord(IrValue(format, size, number), {"format", "size", "number"})
  BY DEF IrValue, IsRecord

LEMMA IrValueIsItsParts ==
  ASSUME NEW value, IsIrValue(value)
  PROVE  value = IrValue(value.format, value.size, value.number)
  BY DEF IsIrValue, IsRecord, IrValue

LEMMA BytesAreTheirParts ==
  ASSUME NEW bytes, IsBytes(bytes)
  PROVE  bytes = Bytes(bytes.size, bytes.number)
  BY DEF IsBytes, IsRecord, Bytes

LEMMA BytesHaveBits ==
  BitsPerByte \in Nat \ {0} /\ BitsPerNibble \in Nat \ {0}
  BY BitsAreCounted DEF BitsPerByte

LEMMA NumbersFitIntoTheirBytes ==
  ASSUME NEW bits \in Nat, NEW number \in Nat, number < TwoTo[bits]
  PROVE  number < TwoTo[BitsPerByte * Ceiling(bits, BitsPerByte)]
<1>1. /\ Ceiling(bits, BitsPerByte) \in Nat
      /\ bits <= BitsPerByte * Ceiling(bits, BitsPerByte)
  BY BytesHaveBits, CeilingIsEnough
<1> DEFINE more == BitsPerByte * Ceiling(bits, BitsPerByte)
<1>2. more \in Nat
  BY <1>1, BytesHaveBits
<1>3. bits <= more
  BY <1>1
<1> HIDE DEF more
<1>4. TwoTo[bits] <= TwoTo[more]
  BY <1>2, <1>3, TwoToIsMonotonic
<1>5. TwoTo[bits] \in Nat /\ TwoTo[more] \in Nat
  BY <1>2, TwoToIsPositive
<1>6. number < TwoTo[more]
  BY <1>4, <1>5
<1> QED
  BY <1>6 DEF more

LEMMA CanonicalStringsAreNotEmpty ==
  ASSUME NEW size \in Nat \ {0}, NEW number \in Nat, number < TwoTo[BitsPerByte * size]
  PROVE  \E n \in Nat \ {0} : ArbitraryToCanonicalByteString(Bytes(size, number)) = Bytes(n, number)
<1> DEFINE sizes == {n \in 1 .. size : number < TwoTo[BitsPerByte * n]}
<1>1. sizes \in SUBSET Nat /\ size \in sizes
  OBVIOUS
<1>2. PICK n \in sizes : \A m \in sizes : n <= m
  BY <1>1, LeastNatural
<1>3. Min(sizes) \in sizes
  BY <1>2 DEF Min
<1>4. Min(sizes) \in Nat \ {0}
  BY <1>3
<1>5. ArbitraryToCanonicalByteString(Bytes(size, number)) = [Bytes(size, number) EXCEPT !.size = Min(sizes)]
  BY PartsOfBytes DEF ArbitraryToCanonicalByteString
<1>6. \A m : [Bytes(size, number) EXCEPT !.size = m] = Bytes(m, number)
  BY DEF Bytes
<1> QED
  BY <1>4, <1>5, <1>6

LEMMA AddressesHaveBits ==
  ASSUME NEW format \in AddressFormats
  PROVE  AddressBits[format] \in Nat \ {0}
  BY BitsAreCounted DEF AddressFormats

LEMMA RefusedOrNot ==
  ASSUME ErrorsAreNoMessages, NEW size, NEW number, NEW format
  PROVE  Bytes(size, number) # Refused /\ IrValue(format, size, number) # Refused
  BY BytesAreNoErrors, IrValuesAreNoErrors

LEMMA NormalizedHexadecimal ==
  ASSUME ErrorsAreNoMessages,
         NEW definition, IsDefinition(definition), definition.format = "HEX_STRING",
         NEW value, IsIrValue(value), value.format = definition.format,
         IrValueToNormalizedByteString(value, definition.bitwidth) # Refused
  PROVE  /\ IrValueToNormalizedByteString(value, definition.bitwidth) =
              Bytes(WireSize(definition), value.number)
         /\ value.number \in Nat /\ value.number < TwoTo[definition.bitwidth]
         /\ ReadsAs(definition, value.number, value)
<1> DEFINE bits == definition.bitwidth
<1>0. /\ value.format = "HEX_STRING" /\ value.number \in Nat
      /\ WireSize(definition) = Ceiling(bits, BitsPerByte)
  BY DEF IsIrValue, WireSize, AddressFormats
<1>1. IrValueToNormalizedByteString(value, bits) =
        IF value.size = Ceiling(bits, BitsPerNibble)
        THEN ArbitraryToNormalizedByteString(Bytes(value.size, value.number), bits) ELSE Refused
  BY <1>0 DEF IrValueToNormalizedByteString
<1>2. /\ value.size = Ceiling(bits, BitsPerNibble)
      /\ ArbitraryToNormalizedByteString(Bytes(value.size, value.number), bits) # Refused
  BY <1>1
<1>3. /\ Fits(Bytes(value.size, value.number), bits)
      /\ IrValueToNormalizedByteString(value, bits) = Bytes(Ceiling(bits, BitsPerByte), value.number)
  BY <1>1, <1>2, PartsOfBytes DEF ArbitraryToNormalizedByteString
<1>4. value.number < TwoTo[bits]
  BY <1>3, PartsOfBytes DEF Fits
<1>5. ASSUME NEW size \in Nat \ {0} PROVE IrValueOf(definition, Bytes(size, value.number)) = value
  <2>1. Fits(Bytes(size, value.number), bits)
    BY <1>4, PartsOfBytes DEF Fits
  <2>2. IrValueOf(definition, Bytes(size, value.number)) =
          IrValue("HEX_STRING", Ceiling(bits, BitsPerNibble), value.number)
    BY <2>1, PartsOfBytes DEF IrValueOf, ArbitraryByteStringToIrValue
  <2> QED
    BY <1>0, <1>2, <2>2, IrValueIsItsParts
<1> QED
  BY <1>0, <1>3, <1>4, <1>5 DEF ReadsAs

LEMMA NormalizedAddress ==
  ASSUME ErrorsAreNoMessages,
         NEW definition, IsDefinition(definition), definition.format \in {"MAC_ADDRESS", "IPV4_ADDRESS"},
         NEW value, IsIrValue(value), value.format = definition.format,
         IrValueToNormalizedByteString(value, definition.bitwidth) # Refused
  PROVE  /\ IrValueToNormalizedByteString(value, definition.bitwidth) =
              Bytes(WireSize(definition), value.number)
         /\ value.number \in Nat /\ value.number < TwoTo[definition.bitwidth]
         /\ ReadsAs(definition, value.number, value)
<1> DEFINE bits == definition.bitwidth
<1>0. /\ definition.format \in AddressFormats /\ value.format \in AddressFormats
      /\ value.number \in Nat /\ bits = AddressBits[definition.format]
  BY DEF IsIrValue, IsDefinition, AddressFormats
<1>1. IrValueToNormalizedByteString(value, bits) =
        IF value.format \in AddressFormats /\ value.size = AddressBits[value.format]
        THEN Bytes(Ceiling(value.size, BitsPerByte), value.number) ELSE Refused
  BY <1>0 DEF IrValueToNormalizedByteString
<1>2. value.size = AddressBits[definition.format]
  BY <1>1
<1>3. IrValueToNormalizedByteString(value, bits) = Bytes(WireSize(definition), value.number)
  BY <1>0, <1>1, <1>2 DEF WireSize
<1>4. value.number < TwoTo[bits]
  BY <1>0, <1>2 DEF IsIrValue
<1>5. ASSUME NEW size \in Nat \ {0} PROVE IrValueOf(definition, Bytes(size, value.number)) = value
  <2>1. Fits(Bytes(size, value.number), AddressBits[definition.format])
    BY <1>0, <1>4, PartsOfBytes DEF Fits
  <2>2. IrValueOf(definition, Bytes(size, value.number)) =
          IrValue(definition.format, AddressBits[definition.format], value.number)
    BY <2>1, PartsOfBytes DEF IrValueOf, ArbitraryByteStringToIrValue
  <2> QED
    BY <1>0, <1>2, <2>2, IrValueIsItsParts
<1> QED
  BY <1>0, <1>3, <1>4, <1>5 DEF ReadsAs

LEMMA UpperPartOfAnAddress ==
  ASSUME NEW bits \in Nat, NEW all \in Nat, bits <= all, NEW n \in Nat,
         n < TwoTo[all], n % TwoTo[all - bits] = 0
  PROVE  /\ n \div TwoTo[all - bits] \in Nat
         /\ n \div TwoTo[all - bits] < TwoTo[bits]
         /\ n \div TwoTo[all - bits] < TwoTo[all]
         /\ (n \div TwoTo[all - bits]) * TwoTo[all - bits] = n
<1> DEFINE low == all - bits
<1>1. low \in Nat /\ all = bits + low
  OBVIOUS
<1> HIDE DEF low
<1> DEFINE unit == TwoTo[low]
           q    == Quotient(n, unit)
<1>2. unit \in Nat \ {0} /\ TwoTo[bits] \in Nat /\ TwoTo[all] \in Nat
  BY <1>1, TwoToIsPositive
<1>3. TwoTo[all] = TwoTo[bits] * unit
  BY <1>1, TwoToOfSums
<1> HIDE DEF unit
<1>4. /\ q \in Nat /\ Rest(n, unit) \in Nat
      /\ n = unit * q + Rest(n, unit)
  BY <1>2, QuotientAndRest
<1>5. Rest(n, unit) = 0
  BY DEF Rest, unit, low
<1> HIDE DEF q
<1>6. n = q * unit
  BY <1>2, <1>4, <1>5
<1>7. q < TwoTo[bits]
  <2>1. \A a, b, c \in Nat : c # 0 /\ a >= b => a * c >= b * c
    OBVIOUS
  <2>2. ~(q >= TwoTo[bits])
    BY <1>2, <1>3, <1>4, <1>6, <2>1
  <2> QED
    BY <1>2, <1>4, <2>2
<1>8. TwoTo[bits] <= TwoTo[all]
  BY TwoToIsMonotonic
<1>9. q < TwoTo[all]
  BY <1>2, <1>4, <1>7, <1>8
<1>10. n \div TwoTo[all - bits] = q
  BY DEF q, unit, low, Quotient
<1>11. q * TwoTo[all - bits] = n
  BY <1>6 DEF unit, low
<1> QED
  BY <1>4, <1>7, <1>9, <1>10, <1>11

LEMMA AddressOfAnUpperPart ==
  ASSUME NEW bits \in Nat, NEW all \in Nat, bits <= all, NEW n \in Nat, n < TwoTo[bits]
  PROVE  /\ n * TwoTo[all - bits] \in Nat /\ n * TwoTo[all - bits] < TwoTo[all]
         /\ (n * TwoTo[all - bits]) % TwoTo[all - bits] = 0
         /\ (n * TwoTo[all - bits]) \div TwoTo[all - bits] = n
<1> DEFINE low == all - bits
<1>1. low \in Nat /\ all = bits + low
  OBVIOUS
<1> HIDE DEF low
<1> DEFINE unit == TwoTo[low]
<1>2. unit \in Nat \ {0} /\ TwoTo[bits] \in Nat /\ TwoTo[all] \in Nat
  BY <1>1, TwoToIsPositive
<1>3. TwoTo[all] = TwoTo[bits] * unit
  BY <1>1, TwoToOfSums
<1> HIDE DEF unit
<1>4. n * unit \in Nat /\ n * unit < TwoTo[all]
  <2>1. \A a, b, c \in Nat : c # 0 /\ a < b => a * c \in Nat /\ a * c < b * c
    OBVIOUS
  <2> QED
    BY <1>2, <1>3, <2>1
<1>5. (n * unit) \div unit = n /\ (n * unit) % unit = 0
  BY <1>2, MultiplesAreDivided
<1>6. TwoTo[all - bits] = unit
  BY DEF unit, low
<1> QED
  BY <1>4, <1>5, <1>6

LEMMA NormalizedIpv6Address ==
  ASSUME ErrorsAreNoMessages,
         NEW definition, IsDefinition(definition), definition.format = "IPV6_ADDRESS",
         NEW value, IsIrValue(value), value.format = definition.format,
         IrValueToNormalizedByteString(value, definition.bitwidth) # Refused
  PROVE  \E n \in Nat :
           /\ IrValueToNormalizedByteString(value, definition.bitwidth) = Bytes(WireSize(definition), n)
           /\ n < TwoTo[definition.bitwidth]
           /\ ReadsAs(definition, n, value)
<1> DEFINE bits == definition.bitwidth
           all  == AddressBits[definition.format]
           n    == value.number \div TwoTo[all - bits]
<1>0. /\ definition.format \in AddressFormats /\ value.format = "IPV6_ADDRESS"
      /\ value.number \in Nat /\ bits \in Nat /\ bits <= all
  BY DEF IsIrValue, IsDefinition, AddressFormats
<1>1. all \in Nat
  BY <1>0, AddressesHaveBits
<1>2. IrValueToNormalizedByteString(value, bits) =
        IF /\ value.format \in AddressFormats /\ value.size = AddressBits[value.format]
           /\ LowerBits(value, bits) = 0
        THEN Bytes(Ceiling(value.size, BitsPerByte), UpperBits(value, bits))
        ELSE Refused
  BY <1>0 DEF IrValueToNormalizedByteString
<1>3. value.size = all /\ value.number % TwoTo[all - bits] = 0 /\ UpperBits(value, bits) = n
  <2>1. value.size = all /\ LowerBits(value, bits) = 0
    BY <1>0, <1>2
  <2>2. ~(bits > value.size)
    BY <1>0, <1>1, <2>1
  <2> QED
    BY <2>1, <2>2 DEF LowerBits, UpperBits
<1>4. value.number < TwoTo[all]
  BY <1>0, <1>3 DEF IsIrValue
<1>5. n \in Nat /\ n < TwoTo[bits] /\ n < TwoTo[all] /\ n * TwoTo[all - bits] = value.number
  BY <1>0, <1>1, <1>3, <1>4, UpperPartOfAnAddress
<1>6. IrValueToNormalizedByteString(value, bits) = Bytes(WireSize(definition), n)
  BY <1>0, <1>2, <1>3 DEF WireSize
<1> HIDE DEF n
<1>7. ASSUME NEW size \in Nat \ {0} PROVE IrValueOf(definition, Bytes(size, n)) = value
  <2>1. Fits(Bytes(size, n), all) /\ Fits(Bytes(size, n), bits)
    BY <1>5, PartsOfBytes DEF Fits
  <2>2. IrValueOf(definition, Bytes(size, n)) =
          IrValue(definition.format, all, n * TwoTo[all - bits])
    BY <2>1, PartsOfBytes DEF IrValueOf, ArbitraryByteStringToIrValue
  <2>3. IrValueOf(definition, Bytes(size, n)) = IrValue(value.format, value.size, value.number)
    BY <1>0, <1>3, <1>5, <2>2
  <2> QED
    BY <2>3, IrValueIsItsParts
<1> QED
  BY <1>5, <1>6, <1>7 DEF ReadsAs

(* A value of the IR, as bytes, is a number of the bits of its field, and   *)
(* whoever reads that number gets the value.                                *)
LEMMA NormalizedIrValue ==
  ASSUME ErrorsAreNoMessages,
         NEW definition, IsDefinition(definition), definition.format # "STRING",
         NEW value, IsIrValue(value), value.format = definition.format,
         IrValueToNormalizedByteString(value, definition.bitwidth) # Refused
  PROVE  \E n \in Nat :
           /\ IrValueToNormalizedByteString(value, definition.bitwidth) = Bytes(WireSize(definition), n)
           /\ n < TwoTo[definition.bitwidth]
           /\ ReadsAs(definition, n, value)
<1>1. CASE definition.format = "HEX_STRING"
  BY <1>1, NormalizedHexadecimal
<1>2. CASE definition.format \in {"MAC_ADDRESS", "IPV4_ADDRESS"}
  BY <1>2, NormalizedAddress
<1>3. CASE definition.format = "IPV6_ADDRESS"
  BY <1>3, NormalizedIpv6Address
<1> QED
  BY <1>1, <1>2, <1>3 DEF IsDefinition, AddressFormats

LEMMA NormalizedStringsHoldTheirNumber ==
  ASSUME NEW definition, IsDefinition(definition), definition.format # "STRING",
         NEW n \in Nat, n < TwoTo[definition.bitwidth], WireSize(definition) # 0
  PROVE  \E size \in Nat \ {0} :
           ArbitraryToCanonicalByteString(Bytes(WireSize(definition), n)) = Bytes(size, n)
<1> DEFINE bits == IF definition.format \in AddressFormats THEN AddressBits[definition.format]
                   ELSE definition.bitwidth
<1>1. bits \in Nat /\ definition.bitwidth \in Nat /\ definition.bitwidth <= bits
  <2>1. CASE definition.format \in AddressFormats
    BY <2>1, AddressesHaveBits DEF IsDefinition, AddressFormats
  <2> QED
    BY <2>1 DEF IsDefinition
<1>2. WireSize(definition) = Ceiling(bits, BitsPerByte)
  BY DEF WireSize
<1> HIDE DEF bits
<1>3. TwoTo[definition.bitwidth] <= TwoTo[bits]
  BY <1>1, TwoToIsMonotonic
<1>4. n < TwoTo[bits]
  BY <1>1, <1>3, TwoToIsPositive
<1>5. n < TwoTo[BitsPerByte * WireSize(definition)]
  BY <1>1, <1>2, <1>4, NumbersFitIntoTheirBytes
<1>6. WireSize(definition) \in Nat
  BY <1>1, <1>2, BytesHaveBits, CeilingIsEnough
<1> QED
  BY <1>5, <1>6, CanonicalStringsAreNotEmpty

LEMMA WireSizeIsNotZero ==
  ASSUME NEW definition, IsDefinition(definition), definition.format # "STRING"
  PROVE  WireSize(definition) \in Nat \ {0}
<1>1. CASE definition.format \in AddressFormats
  <2>1. AddressBits[definition.format] \in Nat \ {0}
    BY <1>1, AddressesHaveBits
  <2> QED
    BY <1>1, <2>1, BytesHaveBits, CeilingIsEnough DEF WireSize
<1>2. CASE definition.format \notin AddressFormats
  <2>1. definition.bitwidth \in Nat \ {0}
    BY <1>2 DEF IsDefinition
  <2> QED
    BY <1>2, <2>1, BytesHaveBits, CeilingIsEnough DEF WireSize
<1> QED
  BY <1>1, <1>2

LEMMA PiHexadecimal ==
  ASSUME ErrorsAreNoMessages,
         NEW definition, IsDefinition(definition), definition.format = "HEX_STRING",
         NEW bytes, IsBytes(bytes), IrValueOf(definition, bytes) # Refused
  PROVE  LET value == IrValueOf(definition, bytes)
         IN  /\ bytes.size # 0 /\ bytes.number < TwoTo[definition.bitwidth]
             /\ value.format = definition.format
             /\ IrValueToNormalizedByteString(value, definition.bitwidth) =
                  Bytes(WireSize(definition), bytes.number)
<1> DEFINE bits == definition.bitwidth
           value == IrValue("HEX_STRING", Ceiling(bits, BitsPerNibble), bytes.number)
<1>0. WireSize(definition) = Ceiling(bits, BitsPerByte) /\ bits \in Nat \ {0}
  BY DEF IsDefinition, WireSize, AddressFormats
<1>1. IrValueOf(definition, bytes) = IF Fits(bytes, bits) THEN value ELSE Refused
  BY DEF IrValueOf, ArbitraryByteStringToIrValue
<1>2. Fits(bytes, bits) /\ IrValueOf(definition, bytes) = value
  BY <1>1
<1>3. bytes.size # 0 /\ bytes.number < TwoTo[bits]
  BY <1>2 DEF Fits
<1>4. /\ value.format = "HEX_STRING" /\ value.size = Ceiling(bits, BitsPerNibble)
      /\ value.number = bytes.number
  BY PartsOfIrValue
<1> HIDE DEF value
<1>5. Fits(Bytes(value.size, value.number), bits)
  <2>1. Ceiling(bits, BitsPerNibble) # 0
    BY <1>0, BytesHaveBits, CeilingIsEnough
  <2> QED
    BY <1>3, <1>4, <2>1, PartsOfBytes DEF Fits
<1>6. ArbitraryToNormalizedByteString(Bytes(value.size, value.number), bits) =
        Bytes(WireSize(definition), bytes.number)
  BY <1>0, <1>4, <1>5, PartsOfBytes DEF ArbitraryToNormalizedByteString
<1>7. IrValueToNormalizedByteString(value, bits) = Bytes(WireSize(definition), bytes.number)
  BY <1>4, <1>6 DEF IrValueToNormalizedByteString
<1> QED
  BY <1>2, <1>3, <1>4, <1>7

LEMMA PiAddress ==
  ASSUME ErrorsAreNoMessages,
         NEW definition, IsDefinition(definition), definition.format \in {"MAC_ADDRESS", "IPV4_ADDRESS"},
         NEW bytes, IsBytes(bytes), IrValueOf(definition, bytes) # Refused
  PROVE  LET value == IrValueOf(definition, bytes)
         IN  /\ bytes.size # 0 /\ bytes.number < TwoTo[definition.bitwidth]
             /\ value.format = definition.format
             /\ IrValueToNormalizedByteString(value, definition.bitwidth) =
                  Bytes(WireSize(definition), bytes.number)
<1> DEFINE bits == definition.bitwidth
           value == IrValue(definition.format, bits, bytes.number)
<1>0. /\ WireSize(definition) = Ceiling(bits, BitsPerByte) /\ bits = AddressBits[definition.format]
      /\ definition.format \in AddressFormats
  BY DEF IsDefinition, WireSize, AddressFormats
<1>1. IrValueOf(definition, bytes) = IF Fits(bytes, bits) THEN value ELSE Refused
  BY <1>0 DEF IrValueOf, ArbitraryByteStringToIrValue
<1>2. Fits(bytes, bits) /\ IrValueOf(definition, bytes) = value
  BY <1>1
<1>3. bytes.size # 0 /\ bytes.number < TwoTo[bits]
  BY <1>2 DEF Fits
<1>4. value.format = definition.format /\ value.size = bits /\ value.number = bytes.number
  BY PartsOfIrValue
<1> HIDE DEF value
<1>7. IrValueToNormalizedByteString(value, bits) = Bytes(WireSize(definition), bytes.number)
  BY <1>0, <1>4 DEF IrValueToNormalizedByteString
<1> QED
  BY <1>2, <1>3, <1>4, <1>7

LEMMA PiIpv6Address ==
  ASSUME ErrorsAreNoMessages,
         NEW definition, IsDefinition(definition), definition.format = "IPV6_ADDRESS",
         NEW bytes, IsBytes(bytes), IrValueOf(definition, bytes) # Refused
  PROVE  LET value == IrValueOf(definition, bytes)
         IN  /\ bytes.size # 0 /\ bytes.number < TwoTo[definition.bitwidth]
             /\ value.format = definition.format
             /\ IrValueToNormalizedByteString(value, definition.bitwidth) =
                  Bytes(WireSize(definition), bytes.number)
<1> DEFINE bits == definition.bitwidth
           all  == AddressBits[definition.format]
           number == bytes.number * TwoTo[all - bits]
           value == IrValue(definition.format, all, number)
<1>0. /\ WireSize(definition) = Ceiling(all, BitsPerByte) /\ definition.format \in AddressFormats
      /\ bits \in Nat /\ bits <= all /\ bytes.number \in Nat
  BY DEF IsDefinition, WireSize, AddressFormats, IsBytes
<1>a. all \in Nat
  BY <1>0, AddressesHaveBits
<1>1. IrValueOf(definition, bytes) = IF Fits(bytes, all) /\ Fits(bytes, bits) THEN value ELSE Refused
  BY <1>0 DEF IrValueOf, ArbitraryByteStringToIrValue
<1>2. Fits(bytes, bits) /\ IrValueOf(definition, bytes) = value
  BY <1>1
<1>3. bytes.size # 0 /\ bytes.number < TwoTo[bits]
  BY <1>2 DEF Fits
<1>4. value.format = definition.format /\ value.size = all /\ value.number = number
  BY PartsOfIrValue
<1> HIDE DEF value
<1>5. number % TwoTo[all - bits] = 0 /\ number \div TwoTo[all - bits] = bytes.number
  BY <1>0, <1>a, <1>3, AddressOfAnUpperPart
<1> HIDE DEF number
<1>7. IrValueToNormalizedByteString(value, bits) = Bytes(WireSize(definition), bytes.number)
  <2>1. IrValueToNormalizedByteString(value, bits) =
          IF LowerBits(value, bits) = 0
          THEN Bytes(Ceiling(value.size, BitsPerByte), UpperBits(value, bits))
          ELSE Refused
    BY <1>0, <1>4 DEF IrValueToNormalizedByteString
  <2>2. ~(bits > value.size)
    BY <1>0, <1>a, <1>4
  <2>3. LowerBits(value, bits) = 0 /\ UpperBits(value, bits) = bytes.number
    BY <1>4, <1>5, <2>2 DEF LowerBits, UpperBits
  <2> QED
    BY <1>0, <1>4, <2>1, <2>3
<1> QED
  BY <1>2, <1>3, <1>4, <1>7

(* Bytes that are read as a value hold a number of the bits of the field,   *)
(* and so does the value.                                                   *)
LEMMA NormalizedPiValue ==
  ASSUME ErrorsAreNoMessages,
         NEW definition, IsDefinition(definition), definition.format # "STRING",
         NEW bytes, IsBytes(bytes), IrValueOf(definition, bytes) # Refused
  PROVE  LET value == IrValueOf(definition, bytes)
         IN  /\ bytes.size # 0 /\ bytes.number < TwoTo[definition.bitwidth]
             /\ value.format = definition.format
             /\ IrValueToNormalizedByteString(value, definition.bitwidth) =
                  Bytes(WireSize(definition), bytes.number)
<1>1. CASE definition.format = "HEX_STRING"
  BY <1>1, PiHexadecimal
<1>2. CASE definition.format \in {"MAC_ADDRESS", "IPV4_ADDRESS"}
  BY <1>2, PiAddress
<1>3. CASE definition.format = "IPV6_ADDRESS"
  BY <1>3, PiIpv6Address
<1> QED
  BY <1>1, <1>2, <1>3 DEF IsDefinition, AddressFormats

(* A value of the IR that is put on the wire is read as it was.             *)
LEMMA IrValueComesBack ==
  ASSUME ErrorsAreNoMessages, NEW opts, ~opts.allow_arbitrary_format,
         NEW definition, IsDefinition(definition), NEW value, IsIrValue(value),
         PiValueOf(opts, definition, value) # Refused
  PROVE  IrValueOf(definition, PiValueOf(opts, definition, value)) = value
<1> DEFINE bytes == IrValueToNormalizedByteString(value, definition.bitwidth)
<1>1. /\ bytes # Refused /\ value.format = definition.format
      /\ PiValueOf(opts, definition, value) =
           IF definition.format = "STRING" THEN bytes ELSE ArbitraryToCanonicalByteString(bytes)
  BY DEF PiValueOf, PiValue, ValidateIrValueFormat
<1>2. CASE definition.format = "STRING"
  <2>1. value.size # 0 /\ bytes = Bytes(value.size, value.number)
    BY <1>1, <1>2 DEF IrValueToNormalizedByteString
  <2>2. bytes.size = value.size /\ bytes.number = value.number
    BY <2>1, PartsOfBytes
  <2>3. IsStructurallyValid(value)
    BY <1>1, <1>2 DEF IsIrValue
  <2> HIDE DEF bytes
  <2>4. IsStructurallyValid(bytes)
    BY <2>2, <2>3 DEF IsStructurallyValid
  <2>5. IrValueOf(definition, bytes) = IrValue("STRING", bytes.size, bytes.number)
    BY <1>2, <2>1, <2>2, <2>4 DEF IrValueOf, ArbitraryByteStringToIrValue
  <2> QED
    BY <1>1, <1>2, <2>2, <2>5, IrValueIsItsParts
<1>3. CASE definition.format # "STRING"
  <2>1. PICK n \in Nat : /\ bytes = Bytes(WireSize(definition), n)
                         /\ n < TwoTo[definition.bitwidth] /\ ReadsAs(definition, n, value)
    BY <1>1, <1>3, NormalizedIrValue
  <2>2. WireSize(definition) # 0
    BY <1>3, WireSizeIsNotZero
  <2>3. PICK size \in Nat \ {0} : ArbitraryToCanonicalByteString(Bytes(WireSize(definition), n)) = Bytes(size, n)
    BY <1>3, <2>1, <2>2, NormalizedStringsHoldTheirNumber
  <2>4. PiValueOf(opts, definition, value) = Bytes(size, n)
    BY <1>1, <1>3, <2>1, <2>3
  <2> QED
    BY <2>1, <2>4 DEF ReadsAs
<1> QED
  BY <1>2, <1>3

(* Bytes that were read as a value can be put on the wire again, as the     *)
(* same number.                                                             *)
LEMMA PiValueIsSentAgain ==
  ASSUME ErrorsAreNoMessages, NEW opts,
         NEW definition, IsDefinition(definition), NEW bytes, IsBytes(bytes),
         IrValueOf(definition, bytes) # Refused
  PROVE  SameNumber(PiValueOf(opts, definition, IrValueOf(definition, bytes)), bytes.number)
<1> DEFINE value == IrValueOf(definition, bytes)
           again == IrValueToNormalizedByteString(value, definition.bitwidth)
<1>1. CASE definition.format = "STRING"
  <2>1. bytes.size # 0 /\ value = IrValue("STRING", bytes.size, bytes.number)
    BY <1>1 DEF IrValueOf, ArbitraryByteStringToIrValue
  <2>2. value.format = "STRING" /\ value.size = bytes.size /\ value.number = bytes.number
    BY <2>1, PartsOfIrValue
  <2> HIDE DEF value
  <2>3. again = Bytes(bytes.size, bytes.number)
    BY <2>1, <2>2 DEF IrValueToNormalizedByteString
  <2>4. again # Refused
    BY <2>3, BytesAreNoErrors
  <2>5. PiValueOf(opts, definition, value) = Bytes(bytes.size, bytes.number)
    BY <1>1, <2>2, <2>3, <2>4 DEF PiValueOf, PiValue, ValidateIrValueFormat
  <2> QED
    BY <2>5 DEF value, SameNumber
<1>2. CASE definition.format # "STRING"
  <2>1. /\ bytes.size # 0 /\ bytes.number < TwoTo[definition.bitwidth]
        /\ value.format = definition.format
        /\ again = Bytes(WireSize(definition), bytes.number)
    BY <1>2, NormalizedPiValue
  <2>2. bytes.number \in Nat /\ WireSize(definition) # 0
    BY <1>2, WireSizeIsNotZero DEF IsBytes
  <2>3. PICK size \in Nat \ {0} :
          ArbitraryToCanonicalByteString(Bytes(WireSize(definition), bytes.number)) = Bytes(size, bytes.number)
    BY <1>2, <2>1, <2>2, NormalizedStringsHoldTheirNumber
  <2>4. again # Refused /\ value.format # "NOT_SET"
    BY <1>2, <2>1, BytesAreNoErrors DEF IsDefinition, AddressFormats
  <2> HIDE DEF value
  <2>5. PiValueOf(opts, definition, value) = Bytes(size, bytes.number)
    BY <1>2, <2>1, <2>3, <2>4 DEF PiValueOf, PiValue, ValidateIrValueFormat
  <2> QED
    BY <2>5 DEF value, SameNumber
<1> QED
  BY <1>1, <1>2

------------------------------------------------------------------------------
(* Matches                                                                 *)

LEMMA PartsOfMatch ==
  ASSUME NEW side, NEW match, IsMatch(side, match)
  PROVE  /\ IsRecord(match, PartsOf(match.type)) /\ DOMAIN match = PartsOf(match.type)
         /\ "type" \in DOMAIN match /\ "value" \in DOMAIN match /\ IsValue(side, match.value)
         /\ match.type = "TERNARY" => "mask" \in DOMAIN match /\ IsValue(side, match.mask)
         /\ match.type = "LPM" => "prefix" \in DOMAIN match
  BY DEF IsMatch, IsRecord, PartsOf, ValuesOf

LEMMA ValuesOfSides ==
  ASSUME NEW value
  PROVE  /\ IsValue("ir", value) <=> IsIrValue(value)
         /\ IsValue("pi", value) <=> IsBytes(value)
  BY DEF IsValue

WithValue(match, value) == [match EXCEPT !.value = value]

WithMask(match, value, mask) == [match EXCEPT !.value = value, !.mask = mask]

LEMMA MatchWithValue ==
  ASSUME NEW side, NEW match, IsMatch(side, match), NEW value
  PROVE  /\ WithValue(match, value).value = value /\ WithValue(match, value).type = match.type
         /\ match.type = "LPM" => WithValue(match, value).prefix = match.prefix
         /\ IsRecord(WithValue(match, value), PartsOf(match.type))
         /\ WithValue(WithValue(match, value), match.value) = match
<1> DEFINE fields == PartsOf(match.type)
<1>1. match = [f \in fields |-> match[f]] /\ "type" \in fields /\ "value" \in fields
  BY PartsOfMatch DEF IsRecord
<1>2. match.type = "LPM" => "prefix" \in fields
  BY DEF PartsOf
<1> HIDE DEF fields
<1>3. /\ WithValue(match, value).value = value /\ WithValue(match, value).type = match.type
      /\ match.type = "LPM" => WithValue(match, value).prefix = match.prefix
  BY <1>1, <1>2 DEF WithValue
<1>4. IsRecord(WithValue(match, value), fields)
  BY <1>1 DEF WithValue, IsRecord
<1>5. WithValue(WithValue(match, value), match.value) = match
  BY <1>1 DEF WithValue
<1> QED
  BY <1>3, <1>4, <1>5 DEF fields

LEMMA MatchWithMask ==
  ASSUME NEW side, NEW match, IsMatch(side, match), match.type = "TERNARY", NEW value, NEW mask
  PROVE  /\ WithMask(match, value, mask).value = value /\ WithMask(match, value, mask).mask = mask
         /\ WithMask(match, value, mask).type = match.type
         /\ IsRecord(WithMask(match, value, mask), PartsOf(match.type))
         /\ WithMask(WithMask(match, value, mask), match.value, match.mask) = match
<1> DEFINE fields == PartsOf(match.type)
<1>1. /\ match = [f \in fields |-> match[f]]
      /\ "type" \in fields /\ "value" \in fields /\ "mask" \in fields
  BY PartsOfMatch DEF IsRecord
<1> HIDE DEF fields
<1>3. /\ WithMask(match, value, mask).value = value /\ WithMask(match, value, mask).mask = mask
      /\ WithMask(match, value, mask).type = match.type
  BY <1>1 DEF WithMask
<1>4. IsRecord(WithMask(match, value, mask), fields)
  BY <1>1 DEF WithMask, IsRecord
<1>5. WithMask(WithMask(match, value, mask), match.value, match.mask) = match
  BY <1>1 DEF WithMask
<1> QED
  BY <1>3, <1>4, <1>5 DEF fields

LEMMA NormalizedNumber ==
  ASSUME NEW bits, NEW size \in Nat \ {0}, NEW number, number < TwoTo[bits]
  PROVE  ArbitraryToNormalizedByteString(Bytes(size, number), bits) = Bytes(Ceiling(bits, BitsPerByte), number)
  BY PartsOfBytes DEF ArbitraryToNormalizedByteString, Fits

LEMMA NormalizedBytes ==
  ASSUME NEW bits, NEW bytes, ArbitraryToNormalizedByteString(bytes, bits) # Refused
  PROVE  /\ bytes.size # 0 /\ bytes.number < TwoTo[bits]
         /\ ArbitraryToNormalizedByteString(bytes, bits) = Bytes(Ceiling(bits, BitsPerByte), bytes.number)
  BY DEF ArbitraryToNormalizedByteString, Fits

LEMMA MaskedNumbers ==
  ASSUME ErrorsAreNoMessages, NEW size, NEW number, NEW others, NEW mask
  PROVE  Masked(Bytes(size, number), Bytes(others, mask)) <=>
           size = others /\ BitwiseAnd(number, mask) = number
<1>1. CASE size # others
  <2>1. Intersection(Bytes(size, number), Bytes(others, mask)) = Refused
    BY <1>1, PartsOfBytes DEF Intersection
  <2> QED
    BY <1>1, <2>1, BytesAreNoErrors DEF Masked
<1>2. CASE size = others
  <2>1. Intersection(Bytes(size, number), Bytes(others, mask)) = Bytes(size, BitwiseAnd(number, mask))
    BY <1>2, PartsOfBytes DEF Intersection
  <2>2. Bytes(size, BitwiseAnd(number, mask)) = Bytes(size, number) <=> BitwiseAnd(number, mask) = number
    BY PartsOfBytes
  <2> QED
    BY <1>2, <2>1, <2>2 DEF Masked
<1> QED
  BY <1>1, <1>2

LEMMA MasksHaveTheBytesOfTheField ==
  ASSUME NEW prefix, NEW bits, PrefixLenToMask(prefix, bits) # Refused
  PROVE  \E number : PrefixLenToMask(prefix, bits) = Bytes(Ceiling(bits, BitsPerByte), number)
  BY DEF PrefixLenToMask

LEMMA IrLpmComesBack ==
  ASSUME ErrorsAreNoMessages, NEW opts, ~opts.allow_arbitrary_format,
         NEW field, IsMatchField(field), field.match_type = "LPM",
         NEW match, IsMatch("ir", match), match.type = "LPM",
         IrLpmToPi(opts, field, match) # Refused
  PROVE  /\ IrLpmToPi(opts, field, match).type = "LPM"
         /\ PiLpmToIr(field, IrLpmToPi(opts, field, match)) = match
<1> DEFINE bits  == field.bitwidth
           value == IrValueToNormalizedByteString(match.value, bits)
           mask  == PrefixLenToMask(match.prefix, bits)
           pi    == IrLpmToPi(opts, field, match)
<1>0. IsDefinition(field) /\ field.format # "STRING" /\ IsIrValue(match.value)
  BY PartsOfMatch, ValuesOfSides DEF IsMatchField
<1>1. /\ ValidateIrValueFormat(match.value, field.format, opts)
      /\ match.prefix # 0 /\ value # Refused /\ mask # Refused /\ Masked(value, mask)
      /\ pi = WithValue(match, ArbitraryToCanonicalByteString(value))
  BY DEF IrLpmToPi, WithValue
<1>2. match.value.format = field.format
  BY <1>1 DEF ValidateIrValueFormat
<1>3. PICK n \in Nat : value = Bytes(WireSize(field), n) /\ n < TwoTo[bits] /\ ReadsAs(field, n, match.value)
  BY <1>0, <1>1, <1>2, NormalizedIrValue
<1>4. PICK k : mask = Bytes(Ceiling(bits, BitsPerByte), k)
  BY <1>1, MasksHaveTheBytesOfTheField
<1>5. WireSize(field) = Ceiling(bits, BitsPerByte)
  BY <1>1, <1>3, <1>4, MaskedNumbers
<1>6. WireSize(field) \in Nat \ {0}
  BY <1>0, WireSizeIsNotZero
<1>7. PICK size \in Nat \ {0} : ArbitraryToCanonicalByteString(value) = Bytes(size, n)
  BY <1>0, <1>3, <1>6, NormalizedStringsHoldTheirNumber
<1>8. /\ pi.value = Bytes(size, n) /\ pi.prefix = match.prefix /\ pi.type = "LPM"
      /\ WithValue(pi, match.value) = match
  BY <1>1, <1>7, MatchWithValue
<1>9. ArbitraryToNormalizedByteString(pi.value, bits) = value
  BY <1>3, <1>5, <1>8, NormalizedNumber
<1>10. IrValueOf(field, value) = match.value
  BY <1>3, <1>6 DEF ReadsAs
<1>11. match.value # Refused
  BY <1>0, RecordsAreNoErrors DEF IsIrValue
<1> HIDE DEF pi, value, mask
<1>12. PiLpmToIr(field, pi) = WithValue(pi, match.value)
  BY <1>1, <1>8, <1>9, <1>10, <1>11 DEF PiLpmToIr, mask, WithValue
<1> QED
  BY <1>8, <1>12 DEF pi

LEMMA IrTernaryComesBack ==
  ASSUME ErrorsAreNoMessages, NEW opts, ~opts.allow_arbitrary_format,
         NEW field, IsMatchField(field), field.match_type = "TERNARY",
         NEW match, IsMatch("ir", match), match.type = "TERNARY",
         IrTernaryToPi(opts, field, match) # Refused
  PROVE  /\ IrTernaryToPi(opts, field, match).type = "TERNARY"
         /\ PiTernaryToIr(field, IrTernaryToPi(opts, field, match)) = match
<1> DEFINE bits  == field.bitwidth
           value == IrValueToNormalizedByteString(match.value, bits)
           mask  == IrValueToNormalizedByteString(match.mask, bits)
           pi    == IrTernaryToPi(opts, field, match)
<1>0. /\ IsDefinition(field) /\ field.format # "STRING"
      /\ IsIrValue(match.value) /\ IsIrValue(match.mask)
  BY PartsOfMatch, ValuesOfSides DEF IsMatchField
<1>1. /\ ValidateIrValueFormat(match.value, field.format, opts)
      /\ ValidateIrValueFormat(match.mask, field.format, opts)
      /\ value # Refused /\ mask # Refused /\ ~IsAllZeros(mask) /\ Masked(value, mask)
      /\ pi = WithMask(match, ArbitraryToCanonicalByteString(value), ArbitraryToCanonicalByteString(mask))
  BY DEF IrTernaryToPi, WithMask
<1>2. match.value.format = field.format /\ match.mask.format = field.format
  BY <1>1 DEF ValidateIrValueFormat
<1>3. PICK n \in Nat : value = Bytes(WireSize(field), n) /\ n < TwoTo[bits] /\ ReadsAs(field, n, match.value)
  BY <1>0, <1>1, <1>2, NormalizedIrValue
<1>4. PICK k \in Nat : mask = Bytes(WireSize(field), k) /\ k < TwoTo[bits] /\ ReadsAs(field, k, match.mask)
  BY <1>0, <1>1, <1>2, NormalizedIrValue
<1>5. BitwiseAnd(n, k) = n /\ k # 0
  BY <1>1, <1>3, <1>4, MaskedNumbers, PartsOfBytes DEF IsAllZeros
<1>6. WireSize(field) \in Nat \ {0}
  BY <1>0, WireSizeIsNotZero
<1>7. PICK size \in Nat \ {0} : ArbitraryToCanonicalByteString(value) = Bytes(size, n)
  BY <1>0, <1>3, <1>6, NormalizedStringsHoldTheirNumber
<1>a. PICK length \in Nat \ {0} : ArbitraryToCanonicalByteString(mask) = Bytes(length, k)
  BY <1>0, <1>4, <1>6, NormalizedStringsHoldTheirNumber
<1>8. /\ pi.value = Bytes(size, n) /\ pi.mask = Bytes(length, k) /\ pi.type = "TERNARY"
      /\ WithMask(pi, match.value, match.mask) = match
  BY <1>1, <1>7, <1>a, MatchWithMask
<1> HIDE DEF value, mask, pi
<1> DEFINE short == Ceiling(bits, BitsPerByte)
<1>9. /\ ArbitraryToNormalizedByteString(pi.value, bits) = Bytes(short, n)
      /\ ArbitraryToNormalizedByteString(pi.mask, bits) = Bytes(short, k)
  BY <1>3, <1>4, <1>8, NormalizedNumber
<1>b. short \in Nat \ {0}
  <2>1. bits \in Nat
    BY <1>0 DEF IsDefinition
  <2>2. bits # 0
    BY <1>4, <1>5, TwoToNext
  <2> QED
    BY <2>1, <2>2, BytesHaveBits, CeilingIsEnough
<1> HIDE DEF short
<1>10. IrValueOf(field, Bytes(short, n)) = match.value /\ IrValueOf(field, Bytes(short, k)) = match.mask
  BY <1>3, <1>4, <1>b DEF ReadsAs
<1>11. match.value # Refused /\ match.mask # Refused
  BY <1>0, RecordsAreNoErrors DEF IsIrValue
<1>c. /\ Bytes(short, n) # Refused /\ Bytes(short, k) # Refused
      /\ Masked(Bytes(short, n), Bytes(short, k)) /\ ~IsAllZeros(Bytes(short, k))
  BY <1>5, MaskedNumbers, BytesAreNoErrors, PartsOfBytes DEF IsAllZeros
<1>12. PiTernaryToIr(field, pi) = WithMask(pi, match.value, match.mask)
  BY <1>9, <1>10, <1>11, <1>c DEF PiTernaryToIr, WithMask
<1> QED
  BY <1>8, <1>12 DEF pi

(* A match that is put on the wire is read as it was.                       *)
LEMMA IrMatchComesBack ==
  ASSUME ErrorsAreNoMessages, NEW opts, ~opts.allow_arbitrary_format,
         NEW field, IsMatchField(field), NEW match, IsMatch("ir", match),
         IrMatchFieldToPi(opts, field, match) # Refused
  PROVE  /\ PiMatchFieldToIr(opts, field, IrMatchFieldToPi(opts, field, match)) = match
         /\ IrMatchFieldToPi(opts, field, match).type = match.type
<1>1. Usable(field, opts) /\ match.type = field.match_type
  BY DEF IrMatchFieldToPi
<1>2. CASE match.type = "LPM"
  <2>1. IrMatchFieldToPi(opts, field, match) = IrLpmToPi(opts, field, match)
    BY <1>1, <1>2 DEF IrMatchFieldToPi
  <2>2. /\ IrLpmToPi(opts, field, match).type = "LPM"
        /\ PiLpmToIr(field, IrLpmToPi(opts, field, match)) = match
    BY <1>1, <1>2, <2>1, IrLpmComesBack
  <2> QED
    BY <1>1, <1>2, <2>1, <2>2 DEF PiMatchFieldToIr
<1>3. CASE match.type = "TERNARY"
  <2>1. IrMatchFieldToPi(opts, field, match) = IrTernaryToPi(opts, field, match)
    BY <1>1, <1>3 DEF IrMatchFieldToPi
  <2>2. /\ IrTernaryToPi(opts, field, match).type = "TERNARY"
        /\ PiTernaryToIr(field, IrTernaryToPi(opts, field, match)) = match
    BY <1>1, <1>3, <2>1, IrTernaryComesBack
  <2> QED
    BY <1>1, <1>3, <2>1, <2>2 DEF PiMatchFieldToIr
<1>4. CASE match.type \notin {"LPM", "TERNARY"}
  <2> DEFINE value == PiValueOf(opts, field, match.value)
             pi    == WithValue(match, value)
  <2>1. value # Refused /\ IrMatchFieldToPi(opts, field, match) = pi
    BY <1>1, <1>4 DEF IrMatchFieldToPi, WithValue
  <2>2. IsIrValue(match.value)
    BY PartsOfMatch, ValuesOfSides
  <2>3. IrValueOf(field, value) = match.value
    BY <2>1, <2>2, IrValueComesBack DEF IsMatchField
  <2>4. match.value # Refused
    BY <2>2, RecordsAreNoErrors DEF IsIrValue
  <2>5. pi.value = value /\ pi.type = match.type /\ WithValue(pi, match.value) = match
    BY MatchWithValue
  <2> HIDE DEF value, pi
  <2>6. PiMatchFieldToIr(opts, field, pi) = match
    BY <1>1, <1>4, <2>3, <2>4, <2>5 DEF PiMatchFieldToIr, WithValue
  <2> QED
    BY <2>1, <2>5, <2>6
<1> QED
  BY <1>2, <1>3, <1>4

LEMMA PiLpmIsSentAgain ==
  ASSUME ErrorsAreNoMessages, NEW opts,
         NEW field, IsMatchField(field), field.match_type = "LPM",
         WireSize(field) = Ceiling(field.bitwidth, BitsPerByte),
         NEW match, IsMatch("pi", match), match.type = "LPM", match.prefix \in Nat,
         PiLpmToIr(field, match) # Refused
  PROVE  /\ PiLpmToIr(field, match).type = "LPM"
         /\ \E bytes : /\ SameNumber(bytes, match.value.number)
                       /\ IrLpmToPi(opts, field, PiLpmToIr(field, match)) = WithValue(match, bytes)
<1> DEFINE bits  == field.bitwidth
           value == ArbitraryToNormalizedByteString(match.value, bits)
           mask  == PrefixLenToMask(match.prefix, bits)
           text  == IrValueOf(field, value)
           n     == match.value.number
           ir    == PiLpmToIr(field, match)
<1>0. IsDefinition(field) /\ field.format # "STRING" /\ IsBytes(match.value) /\ n \in Nat
  BY PartsOfMatch, ValuesOfSides DEF IsMatchField, IsBytes
<1>1. /\ match.prefix # 0 /\ value # Refused /\ mask # Refused /\ Masked(value, mask)
      /\ text # Refused /\ ir = WithValue(match, text)
  BY DEF PiLpmToIr, WithValue
<1>2. value = Bytes(WireSize(field), n) /\ n < TwoTo[bits]
  BY <1>1, NormalizedBytes
<1>3. WireSize(field) \in Nat \ {0}
  BY <1>0, WireSizeIsNotZero
<1>4. IsBytes(value) /\ value.number = n
  BY <1>0, <1>2, <1>3 DEF IsBytes, IsRecord, Bytes
<1>5. /\ text.format = field.format
      /\ IrValueToNormalizedByteString(text, bits) = Bytes(WireSize(field), n)
  BY <1>0, <1>1, <1>4, NormalizedPiValue
<1>6. PICK size \in Nat \ {0} : ArbitraryToCanonicalByteString(value) = Bytes(size, n)
  BY <1>0, <1>2, <1>3, NormalizedStringsHoldTheirNumber
<1>7. field.format # "NOT_SET"
  BY <1>0 DEF IsDefinition, AddressFormats
<1>8. /\ ir.value = text /\ ir.prefix = match.prefix /\ ir.type = "LPM"
  BY <1>1, MatchWithValue
<1>a. WithValue(ir, Bytes(size, n)) = WithValue(match, Bytes(size, n))
  <2>1. \A a, b : WithValue(WithValue(match, a), b) = WithValue(match, b)
    BY PartsOfMatch DEF WithValue, IsRecord
  <2> QED
    BY <1>1, <2>1
<1> HIDE DEF value, text, ir, mask
<1>9. IrLpmToPi(opts, field, ir) = WithValue(ir, Bytes(size, n))
  <2>1. ValidateIrValueFormat(ir.value, field.format, opts)
    BY <1>5, <1>7, <1>8 DEF ValidateIrValueFormat
  <2>2. IrValueToNormalizedByteString(ir.value, bits) = value
    BY <1>2, <1>5, <1>8
  <2>3. PrefixLenToMask(ir.prefix, bits) = mask /\ ir.prefix \in 1 .. bits
    <3>1. bits \in Nat
      BY <1>0 DEF IsDefinition
    <3> QED
      BY <1>1, <1>8, <3>1 DEF mask, PrefixLenToMask
  <2> QED
    BY <1>1, <1>6, <2>1, <2>2, <2>3 DEF IrLpmToPi, WithValue
<1> QED
  BY <1>8, <1>9, <1>a DEF SameNumber, ir

LEMMA PiTernaryIsSentAgain ==
  ASSUME ErrorsAreNoMessages, NEW opts,
         NEW field, IsMatchField(field), field.match_type = "TERNARY",
         NEW match, IsMatch("pi", match), match.type = "TERNARY", PiTernaryToIr(field, match) # Refused
  PROVE  /\ PiTernaryToIr(field, match).type = "TERNARY"
         /\ \E bytes, mask :
              /\ SameNumber(bytes, match.value.number) /\ SameNumber(mask, match.mask.number)
              /\ IrTernaryToPi(opts, field, PiTernaryToIr(field, match)) = WithMask(match, bytes, mask)
<1> DEFINE bits  == field.bitwidth
           value == ArbitraryToNormalizedByteString(match.value, bits)
           mask  == ArbitraryToNormalizedByteString(match.mask, bits)
           text  == IrValueOf(field, value)
           texts == IrValueOf(field, mask)
           n     == match.value.number
           k     == match.mask.number
           ir    == PiTernaryToIr(field, match)
           short == Ceiling(bits, BitsPerByte)
<1>0. /\ IsDefinition(field) /\ field.format # "STRING" /\ bits \in Nat
      /\ IsBytes(match.value) /\ IsBytes(match.mask) /\ n \in Nat /\ k \in Nat
  BY PartsOfMatch, ValuesOfSides DEF IsMatchField, IsBytes, IsDefinition
<1>1. /\ value # Refused /\ mask # Refused /\ ~IsAllZeros(mask) /\ Masked(value, mask)
      /\ text # Refused /\ texts # Refused /\ ir = WithMask(match, text, texts)
  BY DEF PiTernaryToIr, WithMask
<1>2. /\ value = Bytes(short, n) /\ n < TwoTo[bits]
      /\ mask = Bytes(short, k) /\ k < TwoTo[bits]
  BY <1>1, NormalizedBytes
<1>3. short \in Nat
  BY <1>0, BytesHaveBits, CeilingIsEnough
<1> HIDE DEF short
<1>4. IsBytes(value) /\ value.number = n /\ IsBytes(mask) /\ mask.number = k
  BY <1>0, <1>2, <1>3 DEF IsBytes, IsRecord, Bytes
<1>b. k # 0 /\ BitwiseAnd(n, k) = n
  BY <1>1, <1>2, MaskedNumbers, PartsOfBytes DEF IsAllZeros
<1>5. /\ text.format = field.format /\ texts.format = field.format
      /\ IrValueToNormalizedByteString(text, bits) = Bytes(WireSize(field), n)
      /\ IrValueToNormalizedByteString(texts, bits) = Bytes(WireSize(field), k)
  BY <1>0, <1>1, <1>4, NormalizedPiValue
<1>c. WireSize(field) # 0
  BY <1>0, WireSizeIsNotZero
<1>6. PICK size \in Nat \ {0} : ArbitraryToCanonicalByteString(Bytes(WireSize(field), n)) = Bytes(size, n)
  BY <1>0, <1>2, <1>c, NormalizedStringsHoldTheirNumber
<1>d. PICK length \in Nat \ {0} : ArbitraryToCanonicalByteString(Bytes(WireSize(field), k)) = Bytes(length, k)
  BY <1>0, <1>2, <1>c, NormalizedStringsHoldTheirNumber
<1>7. field.format # "NOT_SET"
  BY <1>0 DEF IsDefinition, AddressFormats
<1>8. ir.value = text /\ ir.mask = texts /\ ir.type = "TERNARY"
  BY <1>1, MatchWithMask
<1>a. WithMask(ir, Bytes(size, n), Bytes(length, k)) = WithMask(match, Bytes(size, n), Bytes(length, k))
  <2>1. \A a, b, c, d : WithMask(WithMask(match, a, b), c, d) = WithMask(match, c, d)
    BY PartsOfMatch DEF WithMask, IsRecord
  <2> QED
    BY <1>1, <2>1
<1> HIDE DEF value, mask, text, texts, ir
<1>9. IrTernaryToPi(opts, field, ir) = WithMask(ir, Bytes(size, n), Bytes(length, k))
  <2>1. /\ ValidateIrValueFormat(ir.value, field.format, opts)
        /\ ValidateIrValueFormat(ir.mask, field.format, opts)
    BY <1>5, <1>7, <1>8 DEF ValidateIrValueFormat
  <2>2. /\ IrValueToNormalizedByteString(ir.value, bits) = Bytes(WireSize(field), n)
        /\ IrValueToNormalizedByteString(ir.mask, bits) = Bytes(WireSize(field), k)
    BY <1>5, <1>8
  <2>3. /\ Masked(Bytes(WireSize(field), n), Bytes(WireSize(field), k))
        /\ ~IsAllZeros(Bytes(WireSize(field), k))
        /\ Bytes(WireSize(field), n) # Refused /\ Bytes(WireSize(field), k) # Refused
    BY <1>b, MaskedNumbers, BytesAreNoErrors, PartsOfBytes DEF IsAllZeros
  <2> QED
    BY <1>6, <1>d, <2>1, <2>2, <2>3 DEF IrTernaryToPi, WithMask
<1> QED
  BY <1>8, <1>9, <1>a DEF SameNumber, ir

LEMMA MeaningOfBytes ==
  ASSUME NEW bytes, NEW number, SameNumber(bytes, number)
  PROVE  ValueMeaning(bytes) = number
  BY DEF SameNumber, ValueMeaning, Bytes

LEMMA MeaningOfProperBytes ==
  ASSUME NEW bytes, IsBytes(bytes)
  PROVE  ValueMeaning(bytes) = bytes.number
  BY BytesAreTheirParts, MeaningOfBytes DEF SameNumber

LEMMA MeaningOfMatch ==
  ASSUME NEW match
  PROVE  MatchMeaning(match) =
           [n \in DOMAIN match |-> IF n \in {"value", "mask"} THEN ValueMeaning(match[n]) ELSE match[n]]
  BY DEF MatchMeaning, EachValue

LEMMA SameMatch ==
  ASSUME NEW match, IsMatch("pi", match), match.type # "TERNARY",
         NEW bytes, SameNumber(bytes, match.value.number)
  PROVE  MatchMeaning(WithValue(match, bytes)) = MatchMeaning(match)
<1> DEFINE fields == PartsOf(match.type)
           other  == WithValue(match, bytes)
<1>1. match = [f \in fields |-> match[f]] /\ "value" \in fields /\ "mask" \notin fields /\ DOMAIN match = fields
  BY PartsOfMatch DEF IsRecord, PartsOf, ValuesOf
<1> HIDE DEF fields
<1>2. ValueMeaning(match.value) = ValueMeaning(bytes)
  BY PartsOfMatch, ValuesOfSides, MeaningOfBytes, MeaningOfProperBytes
<1>3. DOMAIN other = fields /\ other.value = bytes /\ \A f \in fields \ {"value"} : other[f] = match[f]
  BY <1>1 DEF WithValue
<1> HIDE DEF other
<1>4. [n \in DOMAIN other |-> IF n \in {"value", "mask"} THEN ValueMeaning(other[n]) ELSE other[n]]
      = [n \in DOMAIN match |-> IF n \in {"value", "mask"} THEN ValueMeaning(match[n]) ELSE match[n]]
  BY <1>1, <1>2, <1>3
<1> QED
  BY <1>4, MeaningOfMatch DEF other

LEMMA SameTernary ==
  ASSUME NEW match, IsMatch("pi", match), match.type = "TERNARY",
         NEW bytes, SameNumber(bytes, match.value.number), NEW mask, SameNumber(mask, match.mask.number)
  PROVE  MatchMeaning(WithMask(match, bytes, mask)) = MatchMeaning(match)
<1> DEFINE fields == PartsOf(match.type)
           other  == WithMask(match, bytes, mask)
<1>1. match = [f \in fields |-> match[f]] /\ "value" \in fields /\ "mask" \in fields /\ DOMAIN match = fields
  BY PartsOfMatch DEF IsRecord
<1> HIDE DEF fields
<1>2. ValueMeaning(match.value) = ValueMeaning(bytes) /\ ValueMeaning(match.mask) = ValueMeaning(mask)
  BY PartsOfMatch, ValuesOfSides, MeaningOfBytes, MeaningOfProperBytes
<1>3. /\ DOMAIN other = fields /\ other.value = bytes /\ other.mask = mask
      /\ \A f \in fields \ {"value", "mask"} : other[f] = match[f]
  BY <1>1 DEF WithMask
<1> HIDE DEF other
<1>4. [n \in DOMAIN other |-> IF n \in {"value", "mask"} THEN ValueMeaning(other[n]) ELSE other[n]]
      = [n \in DOMAIN match |-> IF n \in {"value", "mask"} THEN ValueMeaning(match[n]) ELSE match[n]]
  BY <1>1, <1>2, <1>3
<1> QED
  BY <1>4, MeaningOfMatch DEF other

(* A match that was read from the wire can be put there again, and means    *)
(* the same.                                                                *)
LEMMA PiMatchIsSentAgain ==
  ASSUME ErrorsAreNoMessages, NEW opts, NEW field, IsMatchField(field),
         field.match_type = "LPM" => WireSize(field) = Ceiling(field.bitwidth, BitsPerByte),
         NEW match, IsMatch("pi", match), match.type = "LPM" => match.prefix \in Nat,
         PiMatchFieldToIr(opts, field, match) # Refused
  PROVE  /\ IrMatchFieldToPi(opts, field, PiMatchFieldToIr(opts, field, match)) # Refused
         /\ MatchMeaning(IrMatchFieldToPi(opts, field, PiMatchFieldToIr(opts, field, match))) = MatchMeaning(match)
         /\ PiMatchFieldToIr(opts, field, match).type = match.type
<1> DEFINE ir == PiMatchFieldToIr(opts, field, match)
           again == IrMatchFieldToPi(opts, field, ir)
<1>1. Usable(field, opts) /\ match.type = field.match_type
  BY DEF PiMatchFieldToIr
<1>a. \A value, mask : /\ WithValue(match, value) # Refused
                       /\ match.type = "TERNARY" => WithMask(match, value, mask) # Refused
  BY MatchWithValue, MatchWithMask, RecordsAreNoErrors
<1>2. CASE match.type = "LPM"
  <2>1. ir = PiLpmToIr(field, match)
    BY <1>1, <1>2 DEF PiMatchFieldToIr
  <2>2. PICK bytes : /\ SameNumber(bytes, match.value.number)
                     /\ IrLpmToPi(opts, field, ir) = WithValue(match, bytes) /\ ir.type = "LPM"
    BY <1>1, <1>2, <2>1, PiLpmIsSentAgain
  <2> HIDE DEF ir
  <2>3. again = WithValue(match, bytes)
    BY <1>1, <1>2, <2>2 DEF IrMatchFieldToPi
  <2>4. MatchMeaning(again) = MatchMeaning(match) /\ again # Refused
    BY <1>2, <1>a, <2>2, <2>3, SameMatch
  <2> QED
    BY <1>2, <2>2, <2>4 DEF ir
<1>3. CASE match.type = "TERNARY"
  <2>1. ir = PiTernaryToIr(field, match)
    BY <1>1, <1>3 DEF PiMatchFieldToIr
  <2>2. PICK bytes, mask :
          /\ SameNumber(bytes, match.value.number) /\ SameNumber(mask, match.mask.number)
          /\ IrTernaryToPi(opts, field, ir) = WithMask(match, bytes, mask) /\ ir.type = "TERNARY"
    BY <1>1, <1>3, <2>1, PiTernaryIsSentAgain
  <2> HIDE DEF ir
  <2>3. again = WithMask(match, bytes, mask)
    BY <1>1, <1>3, <2>2 DEF IrMatchFieldToPi
  <2>4. MatchMeaning(again) = MatchMeaning(match) /\ again # Refused
    BY <1>3, <1>a, <2>2, <2>3, SameTernary
  <2> QED
    BY <1>3, <2>2, <2>4 DEF ir
<1>4. CASE match.type \notin {"LPM", "TERNARY"}
  <2> DEFINE value == IrValueOf(field, match.value)
             bytes == PiValueOf(opts, field, value)
  <2>1. value # Refused /\ ir = WithValue(match, value)
    BY <1>1, <1>4 DEF PiMatchFieldToIr, WithValue
  <2>2. SameNumber(bytes, match.value.number)
    BY <2>1, PartsOfMatch, ValuesOfSides, PiValueIsSentAgain DEF IsMatchField
  <2>3. bytes # Refused
    BY <2>2, BytesAreNoErrors DEF SameNumber
  <2>4. ir.value = value /\ ir.type = match.type
    BY <2>1, MatchWithValue
  <2>a. \A a, b : WithValue(WithValue(match, a), b) = WithValue(match, b)
    BY PartsOfMatch DEF WithValue, IsRecord
  <2>5. WithValue(ir, bytes) = WithValue(match, bytes)
    BY <2>1, <2>a
  <2> HIDE DEF ir, value
  <2>6. again = WithValue(ir, bytes)
    BY <1>1, <1>4, <2>3, <2>4 DEF IrMatchFieldToPi, WithValue
  <2>7. MatchMeaning(again) = MatchMeaning(match) /\ again # Refused
    BY <1>4, <1>a, <2>2, <2>5, <2>6, SameMatch
  <2> QED
    BY <2>4, <2>7 DEF ir
<1> QED
  BY <1>2, <1>3, <1>4

------------------------------------------------------------------------------
(* Lists of fields                                                         *)

References == {<<"id", "name">>, <<"name", "id">>}

LEMMA SequencesAreFunctions ==
  ASSUME NEW n \in Nat, NEW f, f = [i \in 1 .. n |-> f[i]]
  PROVE  IsSequence(f) /\ Len(f) = n /\ DOMAIN f = 1 .. n
<1>1. f \in [1 .. n -> {f[i] : i \in 1 .. n}]
  OBVIOUS
<1>2. f \in Seq({f[i] : i \in 1 .. n})
  BY <1>1, SeqDef
<1>3. Len(f) = n
  BY <1>1, <1>2
<1> QED
  BY <1>1, <1>3 DEF IsSequence

LEMMA PartsOfSequence ==
  ASSUME NEW list, IsSequence(list)
  PROVE  Len(list) \in Nat /\ DOMAIN list = 1 .. Len(list) /\ list = [i \in DOMAIN list |-> list[i]]
  BY DEF IsSequence

(* A function of the places of a sequence is one too.                       *)
LEMMA SequenceOfTheSameLength ==
  ASSUME NEW list, IsSequence(list), NEW other, other = [i \in DOMAIN list |-> other[i]]
  PROVE  IsSequence(other) /\ Len(other) = Len(list) /\ DOMAIN other = DOMAIN list
<1>1. other = [i \in 1 .. Len(list) |-> other[i]] /\ Len(list) \in Nat
  BY PartsOfSequence
<1> QED
  BY <1>1, SequencesAreFunctions, PartsOfSequence

LEMMA DefinitionIsFound ==
  ASSUME NEW definitions, NEW by, NEW reference, reference \in {d[by] : d \in definitions}
  PROVE  /\ Definition(definitions, by, reference) \in definitions
         /\ Definition(definitions, by, reference)[by] = reference
  BY DEF Definition

LEMMA DefinitionIsUnique ==
  ASSUME NEW definitions, IsKeyed(definitions), NEW by \in {"id", "name"}, NEW d \in definitions
  PROVE  Definition(definitions, by, d[by]) = d
<1>1. d[by] \in {e[by] : e \in definitions}
  OBVIOUS
<1>2. /\ Definition(definitions, by, d[by]) \in definitions
      /\ Definition(definitions, by, d[by])[by] = d[by]
  BY <1>1, DefinitionIsFound
<1>3. CASE by = "id"
  BY <1>2, <1>3 DEF IsKeyed
<1>4. CASE by = "name"
  BY <1>2, <1>4 DEF IsKeyed
<1> QED
  BY <1>3, <1>4

(* The definition that a field of a list refers to.                         *)
Defined(fields, definitions, by, i) == Definition(definitions, by, fields[i].field)

LEMMA TranslatedFieldsAre ==
  ASSUME NEW definitions, IsKeyed(definitions), NEW by, NEW to, <<by, to>> \in References,
         NEW fields, IsSequence(fields), NEW values,
         TranslatedFields(fields, definitions, by, to, values) # Refused
  PROVE  LET other == TranslatedFields(fields, definitions, by, to, values)
         IN  /\ IsSequence(other) /\ Len(other) = Len(fields) /\ DOMAIN other = DOMAIN fields
             /\ AllOk(values) /\ FieldsDefined(fields, definitions, by)
             /\ \A i \in DOMAIN fields :
                  /\ IsRecord(other[i], {"field", "value"}) /\ other[i].value = values[i]
                  /\ Defined(fields, definitions, by, i) \in definitions
                  /\ Defined(fields, definitions, by, i)[by] = fields[i].field
                  /\ Defined(other, definitions, to, i) = Defined(fields, definitions, by, i)
             /\ FieldsDefined(other, definitions, to)
<1> DEFINE other == TranslatedFields(fields, definitions, by, to, values)
           def(i) == Defined(fields, definitions, by, i)
<1>0. by \in {"id", "name"} /\ to \in {"id", "name"}
  BY DEF References
<1>1. /\ FieldsDefined(fields, definitions, by) /\ AllOk(values)
      /\ other = [i \in DOMAIN fields |-> [field |-> def(i)[to], value |-> values[i]]]
  BY DEF TranslatedFields, Defined
<1>2. IsSequence(other) /\ Len(other) = Len(fields) /\ DOMAIN other = DOMAIN fields
  <2>1. other = [i \in DOMAIN fields |-> other[i]]
    BY <1>1
  <2> QED
    BY <2>1, SequenceOfTheSameLength
<1>3. ASSUME NEW i \in DOMAIN fields
      PROVE  /\ IsRecord(other[i], {"field", "value"}) /\ other[i].value = values[i] /\ other[i].field = def(i)[to]
             /\ def(i) \in definitions /\ def(i)[by] = fields[i].field
             /\ Defined(other, definitions, to, i) = def(i)
  <2>1. other[i] = [field |-> def(i)[to], value |-> values[i]]
    BY <1>1
  <2>2. IsRecord(other[i], {"field", "value"}) /\ other[i].value = values[i] /\ other[i].field = def(i)[to]
    BY <2>1 DEF IsRecord
  <2>3. fields[i] \in Elements(fields)
    BY DEF Elements
  <2>4. fields[i].field \in {d[by] : d \in definitions}
    BY <1>1, <2>3 DEF FieldsDefined
  <2>5. def(i) \in definitions /\ def(i)[by] = fields[i].field
    BY <2>4, DefinitionIsFound DEF Defined
  <2>6. Definition(definitions, to, def(i)[to]) = def(i)
    BY <1>0, <2>5, DefinitionIsUnique
  <2> QED
    BY <2>2, <2>5, <2>6 DEF Defined
<1> HIDE DEF other, def
<1>4. FieldsDefined(other, definitions, to)
  <2>1. ASSUME NEW i \in DOMAIN other, NEW j \in DOMAIN other, other[i].field = other[j].field
        PROVE  i = j
    <3>1. def(i) = def(j)
      BY <1>2, <1>3, <2>1 DEF Defined
    <3>2. fields[i].field = fields[j].field
      BY <1>2, <1>3, <3>1
    <3> QED
      BY <1>1, <1>2, <3>2 DEF FieldsDefined
  <2>2. ASSUME NEW f \in Elements(other) PROVE f.field \in {d[to] : d \in definitions}
    <3>1. PICK i \in DOMAIN other : f = other[i]
      BY DEF Elements
    <3>2. f.field = def(i)[to] /\ def(i) \in definitions
      BY <1>2, <1>3, <3>1
    <3> QED
      BY <3>2
  <2> QED
    BY <2>1, <2>2 DEF FieldsDefined
<1>5. \A i \in DOMAIN fields :
         /\ IsRecord(other[i], {"field", "value"}) /\ other[i].value = values[i]
         /\ Defined(fields, definitions, by, i) \in definitions
         /\ Defined(fields, definitions, by, i)[by] = fields[i].field
         /\ Defined(other, definitions, to, i) = Defined(fields, definitions, by, i)
  BY <1>3 DEF def
<1> QED
  BY <1>1, <1>2, <1>4, <1>5 DEF other

(* What comes back has the same fields, with the values that come back.     *)
LEMMA FieldsComeBack ==
  ASSUME NEW definitions, IsKeyed(definitions), NEW by, NEW to, <<by, to>> \in References,
         NEW fields, IsSequence(fields), NEW values,
         TranslatedFields(fields, definitions, by, to, values) # Refused,
         NEW back, AllOk(back)
  PROVE  TranslatedFields(TranslatedFields(fields, definitions, by, to, values), definitions, to, by, back)
           = [i \in DOMAIN fields |-> [field |-> fields[i].field, value |-> back[i]]]
<1> DEFINE other == TranslatedFields(fields, definitions, by, to, values)
<1>1. /\ DOMAIN other = DOMAIN fields /\ FieldsDefined(other, definitions, to)
      /\ \A i \in DOMAIN fields :
           /\ Defined(fields, definitions, by, i)[by] = fields[i].field
           /\ Defined(other, definitions, to, i) = Defined(fields, definitions, by, i)
  BY TranslatedFieldsAre
<1> HIDE DEF other
<1>2. TranslatedFields(other, definitions, to, by, back)
        = [i \in DOMAIN other |-> [field |-> Defined(other, definitions, to, i)[by], value |-> back[i]]]
  BY <1>1 DEF TranslatedFields, Defined
<1>3. [i \in DOMAIN other |-> [field |-> Defined(other, definitions, to, i)[by], value |-> back[i]]]
        = [i \in DOMAIN fields |-> [field |-> fields[i].field, value |-> back[i]]]
  BY <1>1
<1> QED
  BY <1>2, <1>3 DEF other

LEMMA FieldsAreTheirParts ==
  ASSUME NEW fields, IsSequence(fields), \A f \in Elements(fields) : IsRecord(f, {"field", "value"}),
         NEW back, \A i \in DOMAIN fields : back[i] = fields[i].value
  PROVE  [i \in DOMAIN fields |-> [field |-> fields[i].field, value |-> back[i]]] = fields
<1>1. ASSUME NEW i \in DOMAIN fields PROVE [field |-> fields[i].field, value |-> back[i]] = fields[i]
  <2>1. fields[i] = [f \in {"field", "value"} |-> fields[i][f]]
    BY DEF IsRecord, Elements
  <2>2. fields[i] = [field |-> fields[i].field, value |-> fields[i].value]
    BY <2>1
  <2> QED
    BY <2>2
<1>2. fields = [i \in DOMAIN fields |-> fields[i]]
  BY DEF IsSequence
<1> QED
  BY <1>1, <1>2

LEMMA PartsOfFields ==
  ASSUME NEW side, NEW fields, IsFields(side, fields)
  PROVE  /\ IsSequence(fields) /\ \A f \in Elements(fields) : IsRecord(f, {"field", "value"})
         /\ \A i \in DOMAIN fields : IsRecord(fields[i], {"field", "value"}) /\ IsValue(side, fields[i].value)
  BY DEF IsFields, Elements

LEMMA FunctionsAreNoErrors ==
  ASSUME ErrorsAreNoMessages, NEW list, list = [i \in DOMAIN list |-> list[i]]
  PROVE  list \notin {Refused, None}
  BY DEF ErrorsAreNoMessages

PiValues(opts, definitions, params) ==
  [i \in DOMAIN params |-> PiValueOf(opts, Defined(params, definitions, "name", i), params[i].value)]

IrValues(definitions, params) ==
  [i \in DOMAIN params |-> IrValueOf(Defined(params, definitions, "id", i), params[i].value)]

LEMMA ParamsAreTranslatedFields ==
  ASSUME NEW opts, NEW definitions, NEW params
  PROVE  /\ IrParamsToPi(opts, definitions, params) =
              TranslatedFields(params, definitions, "name", "id", PiValues(opts, definitions, params))
         /\ PiParamsToIr(definitions, params) =
              TranslatedFields(params, definitions, "id", "name", IrValues(definitions, params))
  BY DEF IrParamsToPi, PiParamsToIr, PiValues, IrValues, Defined

LEMMA IrParamsComeBack ==
  ASSUME ErrorsAreNoMessages, NEW opts, ~opts.allow_arbitrary_format,
         NEW definitions, AreDefinitions(definitions), NEW params, IsFields("ir", params),
         IrParamsToPi(opts, definitions, params) # Refused
  PROVE  LET pi == IrParamsToPi(opts, definitions, params)
         IN  /\ PiParamsToIr(definitions, pi) = params
             /\ IsSequence(pi) /\ Len(pi) = Len(params) /\ FieldsDefined(pi, definitions, "id")
<1> DEFINE values == PiValues(opts, definitions, params)
           pi     == TranslatedFields(params, definitions, "name", "id", values)
           back   == IrValues(definitions, pi)
<1>0. /\ IsKeyed(definitions) /\ <<"name", "id">> \in References
      /\ IsSequence(params) /\ \A f \in Elements(params) : IsRecord(f, {"field", "value"})
      /\ pi # Refused /\ IrParamsToPi(opts, definitions, params) = pi
  BY PartsOfFields, ParamsAreTranslatedFields DEF AreDefinitions, References
<1>1. /\ IsSequence(pi) /\ Len(pi) = Len(params) /\ DOMAIN pi = DOMAIN params /\ AllOk(values)
      /\ FieldsDefined(pi, definitions, "id")
      /\ \A i \in DOMAIN params :
           /\ pi[i].value = values[i]
           /\ Defined(params, definitions, "name", i) \in definitions
           /\ Defined(pi, definitions, "id", i) = Defined(params, definitions, "name", i)
  BY <1>0, TranslatedFieldsAre
<1>2. ASSUME NEW i \in DOMAIN params PROVE back[i] = params[i].value /\ back[i] # Refused
  <2> DEFINE d == Defined(params, definitions, "name", i)
  <2>1. IsDefinition(d) /\ IsIrValue(params[i].value)
    BY <1>1, PartsOfFields, ValuesOfSides DEF AreDefinitions
  <2>2. values[i] = PiValueOf(opts, d, params[i].value) /\ i \in DOMAIN values
    BY DEF PiValues
  <2>3. values[i] # Refused
    BY <1>1, <2>2 DEF AllOk
  <2>4. IrValueOf(d, values[i]) = params[i].value
    BY <2>1, <2>2, <2>3, IrValueComesBack
  <2>5. back[i] = IrValueOf(d, values[i])
    BY <1>1 DEF IrValues
  <2>6. params[i].value # Refused
    BY <2>1, RecordsAreNoErrors DEF IsIrValue
  <2> QED
    BY <2>4, <2>5, <2>6
<1>3. AllOk(back)
  BY <1>1, <1>2 DEF AllOk, IrValues
<1> HIDE DEF values, pi, back
<1>4. TranslatedFields(pi, definitions, "id", "name", back)
        = [i \in DOMAIN params |-> [field |-> params[i].field, value |-> back[i]]]
  BY <1>0, <1>3, FieldsComeBack DEF pi
<1>5. PiParamsToIr(definitions, pi) = params
  BY <1>0, <1>2, <1>4, ParamsAreTranslatedFields, FieldsAreTheirParts DEF back
<1> QED
  BY <1>0, <1>1, <1>5

LEMMA SameFieldsMeanTheSame ==
  ASSUME NEW fields, NEW others, SameFields(fields, others)
  PROVE  FieldsMeaning(fields) = FieldsMeaning(others)
<1> DEFINE Meant(f) == [f EXCEPT !.value = ValueMeaning(@)]
<1>1. ASSUME NEW i \in DOMAIN others PROVE Meant(fields[i]) = Meant(others[i])
  <2>1. /\ fields[i] = [f \in {"field", "value"} |-> fields[i][f]]
        /\ others[i] = [f \in {"field", "value"} |-> others[i][f]]
        /\ fields[i].field = others[i].field
    BY DEF SameFields, IsRecord
  <2>2. ValueMeaning(fields[i].value) = ValueMeaning(others[i].value)
    BY MeaningOfBytes, MeaningOfProperBytes DEF SameFields
  <2> QED
    BY <2>1, <2>2
<1>2. DOMAIN fields = DOMAIN others
  BY DEF SameFields
<1>3. FieldsMeaning(fields) = {Meant(fields[i]) : i \in DOMAIN fields}
  BY DEF FieldsMeaning, Elements
<1>4. FieldsMeaning(others) = {Meant(others[i]) : i \in DOMAIN others}
  BY DEF FieldsMeaning, Elements
<1> HIDE DEF Meant
<1> QED
  BY <1>1, <1>2, <1>3, <1>4

LEMMA PiParamsAreSentAgain ==
  ASSUME ErrorsAreNoMessages, NEW opts,
         NEW definitions, AreDefinitions(definitions), NEW params, IsFields("pi", params),
         PiParamsToIr(definitions, params) # Refused
  PROVE  LET ir    == PiParamsToIr(definitions, params)
             again == IrParamsToPi(opts, definitions, ir)
         IN  /\ again # Refused /\ SameFields(again, params) /\ again = [i \in DOMAIN again |-> again[i]]
             /\ IsSequence(ir) /\ Len(ir) = Len(params) /\ FieldsDefined(params, definitions, "id")
<1> DEFINE values == IrValues(definitions, params)
           ir     == TranslatedFields(params, definitions, "id", "name", values)
           back   == PiValues(opts, definitions, ir)
           again  == TranslatedFields(ir, definitions, "name", "id", back)
<1>0. /\ IsKeyed(definitions) /\ <<"id", "name">> \in References /\ IsSequence(params)
      /\ ir # Refused /\ PiParamsToIr(definitions, params) = ir
      /\ IrParamsToPi(opts, definitions, ir) = again
  BY PartsOfFields, ParamsAreTranslatedFields DEF AreDefinitions, References
<1>1. /\ IsSequence(ir) /\ Len(ir) = Len(params) /\ DOMAIN ir = DOMAIN params /\ AllOk(values)
      /\ FieldsDefined(params, definitions, "id")
      /\ \A i \in DOMAIN params :
           /\ ir[i].value = values[i]
           /\ Defined(params, definitions, "id", i) \in definitions
           /\ Defined(ir, definitions, "name", i) = Defined(params, definitions, "id", i)
  BY <1>0, TranslatedFieldsAre
<1>2. ASSUME NEW i \in DOMAIN params
      PROVE  /\ SameNumber(back[i], params[i].value.number) /\ back[i] # Refused
             /\ IsBytes(params[i].value) /\ IsRecord(params[i], {"field", "value"})
  <2> DEFINE d == Defined(params, definitions, "id", i)
  <2>1. /\ IsDefinition(d) /\ IsBytes(params[i].value) /\ IsRecord(params[i], {"field", "value"})
    BY <1>1, PartsOfFields, ValuesOfSides DEF AreDefinitions
  <2>2. values[i] = IrValueOf(d, params[i].value) /\ i \in DOMAIN values
    BY DEF IrValues
  <2>3. values[i] # Refused
    BY <1>1, <2>2 DEF AllOk
  <2>4. SameNumber(PiValueOf(opts, d, values[i]), params[i].value.number)
    BY <2>1, <2>2, <2>3, PiValueIsSentAgain
  <2>5. back[i] = PiValueOf(opts, d, values[i])
    BY <1>1 DEF PiValues
  <2>6. back[i] # Refused
    BY <2>4, <2>5, BytesAreNoErrors DEF SameNumber
  <2> QED
    BY <2>1, <2>4, <2>5, <2>6
<1>3. AllOk(back)
  BY <1>1, <1>2 DEF AllOk, PiValues
<1> HIDE DEF values, ir, back
<1>4. again = [i \in DOMAIN params |-> [field |-> params[i].field, value |-> back[i]]]
  BY <1>0, <1>3, FieldsComeBack DEF ir
<1> HIDE DEF again
<1>5. SameFields(again, params)
  <2>1. DOMAIN again = DOMAIN params
    BY <1>4
  <2>2. ASSUME NEW i \in DOMAIN params
        PROVE  /\ IsRecord(again[i], {"field", "value"}) /\ again[i].field = params[i].field
               /\ again[i].value = back[i]
    BY <1>4 DEF IsRecord
  <2> QED
    BY <1>2, <2>1, <2>2 DEF SameFields
<1>6. again = [i \in DOMAIN again |-> again[i]]
  BY <1>4
<1>7. again # Refused
  BY <1>6, FunctionsAreNoErrors
<1> QED
  BY <1>0, <1>1, <1>5, <1>6, <1>7

LEMMA PartsOfMatches ==
  ASSUME NEW side, NEW matches, IsMatches(side, matches)
  PROVE  /\ IsSequence(matches) /\ \A m \in Elements(matches) : IsRecord(m, {"field", "value"})
         /\ \A i \in DOMAIN matches :
              IsRecord(matches[i], {"field", "value"}) /\ IsMatch(side, matches[i].value)
  BY DEF IsMatches, Elements

PiMatches(opts, table, matches) ==
  [i \in DOMAIN matches |->
     IrMatchFieldToPi(opts, Defined(matches, table.match_fields, "name", i), matches[i].value)]

IrMatches(opts, table, matches) ==
  [i \in DOMAIN matches |->
     PiMatchFieldToIr(opts, Defined(matches, table.match_fields, "id", i), matches[i].value)]

LEMMA MatchesAreTranslatedFields ==
  ASSUME NEW opts, NEW table, NEW matches
  PROVE  /\ IrMatchesToPi(opts, table, matches) =
              TranslatedFields(matches, table.match_fields, "name", "id", PiMatches(opts, table, matches))
         /\ PiMatchesToIr(opts, table, matches) =
              TranslatedFields(matches, table.match_fields, "id", "name", IrMatches(opts, table, matches))
  BY DEF IrMatchesToPi, PiMatchesToIr, PiMatches, IrMatches, Defined

LEMMA SameTypesAreAsMandatory ==
  ASSUME NEW table, NEW matches, NEW others, SameTypes(matches, others)
  PROVE  CheckMandatoryMatches(table, matches) = CheckMandatoryMatches(table, others)
<1>1. {i \in DOMAIN matches : matches[i].value.type = "EXACT"}
        = {i \in DOMAIN others : others[i].value.type = "EXACT"}
  BY DEF SameTypes
<1> QED
  BY <1>1 DEF CheckMandatoryMatches

LEMMA IrMatchesComeBack ==
  ASSUME ErrorsAreNoMessages, NEW opts, ~opts.allow_arbitrary_format,
         NEW table, IsTable(table), NEW matches, IsMatches("ir", matches),
         IrMatchesToPi(opts, table, matches) # Refused
  PROVE  LET pi == IrMatchesToPi(opts, table, matches)
         IN  PiMatchesToIr(opts, table, pi) = matches /\ SameTypes(pi, matches)
<1> DEFINE fields == table.match_fields
           values == PiMatches(opts, table, matches)
           pi     == TranslatedFields(matches, fields, "name", "id", values)
           back   == IrMatches(opts, table, pi)
<1>0. /\ IsKeyed(fields) /\ <<"name", "id">> \in References
      /\ IsSequence(matches) /\ \A f \in Elements(matches) : IsRecord(f, {"field", "value"})
      /\ pi # Refused /\ IrMatchesToPi(opts, table, matches) = pi
  BY PartsOfMatches, MatchesAreTranslatedFields DEF IsTable, References
<1>1. /\ DOMAIN pi = DOMAIN matches /\ AllOk(values)
      /\ \A i \in DOMAIN matches :
           /\ pi[i].value = values[i]
           /\ Defined(matches, fields, "name", i) \in fields
           /\ Defined(pi, fields, "id", i) = Defined(matches, fields, "name", i)
  BY <1>0, TranslatedFieldsAre
<1>2. ASSUME NEW i \in DOMAIN matches
      PROVE  /\ back[i] = matches[i].value /\ back[i] # Refused
             /\ pi[i].value.type = matches[i].value.type
  <2> DEFINE f == Defined(matches, fields, "name", i)
  <2>1. IsMatchField(f) /\ IsMatch("ir", matches[i].value)
    BY <1>1, PartsOfMatches DEF IsTable
  <2>2. values[i] = IrMatchFieldToPi(opts, f, matches[i].value) /\ i \in DOMAIN values
    BY DEF PiMatches
  <2>3. values[i] # Refused
    BY <1>1, <2>2 DEF AllOk
  <2>4. PiMatchFieldToIr(opts, f, values[i]) = matches[i].value /\ values[i].type = matches[i].value.type
    BY <2>1, <2>2, <2>3, IrMatchComesBack
  <2>5. back[i] = PiMatchFieldToIr(opts, f, values[i])
    BY <1>1 DEF IrMatches
  <2>6. matches[i].value # Refused
    BY <2>1, PartsOfMatch, RecordsAreNoErrors
  <2> QED
    BY <1>1, <2>4, <2>5, <2>6
<1>3. AllOk(back)
  BY <1>1, <1>2 DEF AllOk, IrMatches
<1>6. SameTypes(pi, matches)
  BY <1>1, <1>2 DEF SameTypes
<1> HIDE DEF values, pi, back
<1>4. TranslatedFields(pi, fields, "id", "name", back)
        = [i \in DOMAIN matches |-> [field |-> matches[i].field, value |-> back[i]]]
  BY <1>0, <1>3, FieldsComeBack DEF pi
<1>5. PiMatchesToIr(opts, table, pi) = matches
  BY <1>0, <1>2, <1>4, MatchesAreTranslatedFields, FieldsAreTheirParts DEF back
<1> QED
  BY <1>0, <1>5, <1>6

LEMMA SameMatchesMeanTheSame ==
  ASSUME NEW matches, NEW others, SameMatches(matches, others)
  PROVE  MatchesMeaning(matches) = MatchesMeaning(others)
<1> DEFINE Meant(f) == [f EXCEPT !.value = MatchMeaning(@)]
<1>1. ASSUME NEW i \in DOMAIN others PROVE Meant(matches[i]) = Meant(others[i])
  <2>1. /\ matches[i] = [f \in {"field", "value"} |-> matches[i][f]]
        /\ others[i] = [f \in {"field", "value"} |-> others[i][f]]
        /\ matches[i].field = others[i].field
        /\ MatchMeaning(matches[i].value) = MatchMeaning(others[i].value)
    BY DEF SameMatches, IsRecord
  <2> QED
    BY <2>1
<1>2. DOMAIN matches = DOMAIN others
  BY DEF SameMatches
<1>3. MatchesMeaning(matches) = {Meant(matches[i]) : i \in DOMAIN matches}
  BY DEF MatchesMeaning, Elements
<1>4. MatchesMeaning(others) = {Meant(others[i]) : i \in DOMAIN others}
  BY DEF MatchesMeaning, Elements
<1> HIDE DEF Meant
<1> QED
  BY <1>1, <1>2, <1>3, <1>4

LEMMA PiMatchesAreSentAgain ==
  ASSUME ErrorsAreNoMessages, NEW opts,
         NEW table, IsTable(table), HasWholeAddresses(table), NEW matches, IsMatches("pi", matches),
         \A m \in Elements(matches) : m.value.type = "LPM" => m.value.prefix \in Nat,
         PiMatchesToIr(opts, table, matches) # Refused
  PROVE  LET ir    == PiMatchesToIr(opts, table, matches)
             again == IrMatchesToPi(opts, table, ir)
         IN  /\ again # Refused /\ SameMatches(again, matches) /\ SameTypes(ir, matches)
<1> DEFINE fields == table.match_fields
           values == IrMatches(opts, table, matches)
           ir     == TranslatedFields(matches, fields, "id", "name", values)
           back   == PiMatches(opts, table, ir)
           again  == TranslatedFields(ir, fields, "name", "id", back)
<1>0. /\ IsKeyed(fields) /\ <<"id", "name">> \in References /\ IsSequence(matches)
      /\ ir # Refused /\ PiMatchesToIr(opts, table, matches) = ir
      /\ IrMatchesToPi(opts, table, ir) = again
  BY PartsOfMatches, MatchesAreTranslatedFields DEF IsTable, References
<1>1. /\ DOMAIN ir = DOMAIN matches /\ AllOk(values)
      /\ \A i \in DOMAIN matches :
           /\ ir[i].value = values[i]
           /\ Defined(matches, fields, "id", i) \in fields
           /\ Defined(ir, fields, "name", i) = Defined(matches, fields, "id", i)
  BY <1>0, TranslatedFieldsAre
<1>2. ASSUME NEW i \in DOMAIN matches
      PROVE  /\ MatchMeaning(back[i]) = MatchMeaning(matches[i].value) /\ back[i] # Refused
             /\ IsRecord(matches[i], {"field", "value"})
             /\ ir[i].value.type = matches[i].value.type
  <2> DEFINE f == Defined(matches, fields, "id", i)
  <2>1. /\ IsMatchField(f) /\ IsMatch("pi", matches[i].value) /\ IsRecord(matches[i], {"field", "value"})
        /\ f.match_type = "LPM" => WireSize(f) = Ceiling(f.bitwidth, BitsPerByte)
        /\ matches[i].value.type = "LPM" => matches[i].value.prefix \in Nat
    BY <1>1, PartsOfMatches DEF IsTable, HasWholeAddresses, Elements
  <2>2. values[i] = PiMatchFieldToIr(opts, f, matches[i].value) /\ i \in DOMAIN values
    BY DEF IrMatches
  <2>3. values[i] # Refused
    BY <1>1, <2>2 DEF AllOk
  <2>4. /\ IrMatchFieldToPi(opts, f, values[i]) # Refused
        /\ MatchMeaning(IrMatchFieldToPi(opts, f, values[i])) = MatchMeaning(matches[i].value)
        /\ values[i].type = matches[i].value.type
    BY <2>1, <2>2, <2>3, PiMatchIsSentAgain
  <2>5. back[i] = IrMatchFieldToPi(opts, f, values[i])
    BY <1>1 DEF PiMatches
  <2> QED
    BY <1>1, <2>1, <2>4, <2>5
<1>3. AllOk(back)
  BY <1>1, <1>2 DEF AllOk, PiMatches
<1>a. SameTypes(ir, matches)
  BY <1>1, <1>2 DEF SameTypes
<1> HIDE DEF values, ir, back
<1>4. again = [i \in DOMAIN matches |-> [field |-> matches[i].field, value |-> back[i]]]
  BY <1>0, <1>3, FieldsComeBack DEF ir
<1> HIDE DEF again
<1>5. SameMatches(again, matches)
  <2>1. DOMAIN again = DOMAIN matches
    BY <1>4
  <2>2. ASSUME NEW i \in DOMAIN matches
        PROVE  /\ IsRecord(again[i], {"field", "value"}) /\ again[i].field = matches[i].field
               /\ again[i].value = back[i]
    BY <1>4 DEF IsRecord
  <2> QED
    BY <1>2, <2>1, <2>2 DEF SameMatches
<1>6. again = [i \in DOMAIN again |-> again[i]]
  BY <1>4
<1>7. again # Refused
  BY <1>6, FunctionsAreNoErrors
<1> QED
  BY <1>0, <1>5, <1>7, <1>a

------------------------------------------------------------------------------
(* Actions                                                                 *)

LEMMA ReferenceIsFound ==
  ASSUME NEW refs, NEW by, NEW action, action \in {s.action[by] : s \in refs}
  PROVE  Referenced(refs, by, action) \in refs /\ Referenced(refs, by, action).action[by] = action
<1>1. \E r \in refs : r.action[by] = action
  OBVIOUS
<1> QED
  BY <1>1 DEF Referenced

LEMMA SameReference ==
  ASSUME NEW refs, AreReferences(refs), NEW r \in refs
  PROVE  Referenced(refs, "id", r.action.id) = Referenced(refs, "name", r.action.name)
<1>1. \A s \in refs : s.action.id = r.action.id <=> s.action.name = r.action.name
  BY DEF AreReferences
<1>2. (CHOOSE s \in refs : s.action["id"] = r.action.id) = CHOOSE s \in refs : s.action["name"] = r.action.name
  BY <1>1
<1> QED
  BY <1>2 DEF Referenced

LEMMA ReferenceByBoth ==
  ASSUME NEW refs, AreReferences(refs), NEW by, NEW to, <<by, to>> \in References,
         NEW action, action \in {s.action[by] : s \in refs}
  PROVE  LET r == Referenced(refs, by, action)
         IN  /\ r \in refs /\ r.action[by] = action
             /\ r.action[to] \in {s.action[to] : s \in refs}
             /\ Referenced(refs, to, r.action[to]) = r
<1> DEFINE r == Referenced(refs, by, action)
<1>1. r \in refs /\ r.action[by] = action
  BY ReferenceIsFound
<1> HIDE DEF r
<1>2. Referenced(refs, "id", r.action.id) = Referenced(refs, "name", r.action.name)
  BY <1>1, SameReference
<1>3. r = Referenced(refs, by, r.action[by])
  BY <1>1 DEF r
<1>4. CASE by = "id" /\ to = "name"
  BY <1>1, <1>2, <1>3, <1>4 DEF r
<1>5. CASE by = "name" /\ to = "id"
  BY <1>1, <1>2, <1>3, <1>5 DEF r
<1> QED
  BY <1>4, <1>5 DEF References

LEMMA PartsOfInvocation ==
  ASSUME NEW side, NEW action, IsInvocation(side, action)
  PROVE  /\ action.type = "action" /\ IsFields(side, action.params)
         /\ action = [type |-> "action", action |-> action.action, params |-> action.params]
  BY DEF IsInvocation, IsRecord

Invocation(action, params) == [type |-> "action", action |-> action, params |-> params]

LEMMA InvocationWithParams ==
  ASSUME NEW side, NEW invocation, IsInvocation(side, invocation), NEW action, NEW params, params # Refused
  PROVE  WithParams(invocation, action, params) = Invocation(action, params)
<1>1. invocation = Invocation(invocation.action, invocation.params)
  BY PartsOfInvocation DEF Invocation
<1>2. \A a, p : WithParams(Invocation(a, p), action, params) = Invocation(action, params)
  BY DEF WithParams, Invocation
<1> QED
  BY <1>1, <1>2

LEMMA InvocationsAreNoErrors ==
  ASSUME ErrorsAreNoMessages, NEW action, NEW params
  PROVE  /\ Invocation(action, params) \notin {Refused, None} /\ Invocation(action, params).type = "action"
         /\ Invocation(action, params).action = action /\ Invocation(action, params).params = params
<1>1. IsRecord(Invocation(action, params), {"type", "action", "params"})
  BY DEF Invocation, IsRecord
<1> QED
  BY <1>1, RecordsAreNoErrors DEF Invocation

LEMMA IrInvocationComesBack ==
  ASSUME ErrorsAreNoMessages, NEW opts, ~opts.allow_arbitrary_format,
         NEW refs, AreReferences(refs), NEW ir, IsInvocation("ir", ir),
         IrActionInvocationToPi(opts, ir, refs) # Refused
  PROVE  /\ PiActionToIr(opts, IrActionInvocationToPi(opts, ir, refs), refs) = ir
         /\ IrActionInvocationToPi(opts, ir, refs).type = "action"
<1> DEFINE r      == Referenced(refs, "name", ir.action)
           params == IrParamsToPi(opts, r.action.params, ir.params)
           pi     == IrActionInvocationToPi(opts, ir, refs)
<1>1. InvocationOk(opts, ir, refs, "name") /\ pi = WithParams(ir, r.action.id, params)
  BY DEF IrActionInvocationToPi
<1>2. params # Refused
  BY <1>1 DEF WithParams
<1>3. pi = Invocation(r.action.id, params)
  BY <1>1, <1>2, InvocationWithParams
<1>4. /\ ir.action \in {s.action["name"] : s \in refs} /\ Usable(r.action, opts)
      /\ opts.allow_unsupported \/ ~r.is_unsupported_by_table
      /\ Len(ir.params) = Cardinality(r.action.params)
  BY <1>1 DEF InvocationOk
<1>5. /\ r \in refs /\ r.action.name = ir.action
      /\ r.action.id \in {s.action["id"] : s \in refs} /\ Referenced(refs, "id", r.action.id) = r
  BY <1>4, ReferenceByBoth DEF References
<1>6. AreDefinitions(r.action.params) /\ IsFields("ir", ir.params)
  BY <1>5, PartsOfInvocation DEF AreReferences
<1>7. PiParamsToIr(r.action.params, params) = ir.params /\ Len(params) = Len(ir.params)
  BY <1>2, <1>6, IrParamsComeBack
<1> HIDE DEF r, params, pi
<1>8. pi.type = "action" /\ pi.action = r.action.id /\ pi.params = params
  BY <1>3, InvocationsAreNoErrors
<1>9. InvocationOk(opts, pi, refs, "id")
  BY <1>4, <1>5, <1>7, <1>8 DEF InvocationOk
<1>10. PiActionToIr(opts, pi, refs) = WithParams(pi, ir.action, ir.params)
  BY <1>5, <1>7, <1>8, <1>9 DEF PiActionToIr
<1>11. ir.params # Refused
  <2>1. ir.params = [i \in DOMAIN ir.params |-> ir.params[i]]
    BY <1>6, PartsOfFields, PartsOfSequence
  <2> QED
    BY <2>1, FunctionsAreNoErrors
<1>12. WithParams(pi, ir.action, ir.params) = Invocation(ir.action, ir.params)
  BY <1>3, <1>11 DEF WithParams, Invocation
<1>13. ir = Invocation(ir.action, ir.params)
  BY PartsOfInvocation DEF Invocation
<1> QED
  BY <1>8, <1>10, <1>12, <1>13 DEF pi

LEMMA MeaningOfInvocation ==
  ASSUME NEW action, NEW params
  PROVE  InvocationMeaning(Invocation(action, params)) = Invocation(action, FieldsMeaning(params))
  BY DEF InvocationMeaning, Invocation

LEMMA PiInvocationIsSentAgain ==
  ASSUME ErrorsAreNoMessages, NEW opts,
         NEW refs, AreReferences(refs), NEW pi, IsInvocation("pi", pi),
         PiActionToIr(opts, pi, refs) # Refused
  PROVE  LET ir    == PiActionToIr(opts, pi, refs)
             again == IrActionInvocationToPi(opts, ir, refs)
         IN  /\ again # Refused /\ ir.type = "action" /\ again.type = "action"
             /\ InvocationMeaning(again) = InvocationMeaning(pi)
<1> DEFINE r      == Referenced(refs, "id", pi.action)
           params == PiParamsToIr(r.action.params, pi.params)
           ir     == PiActionToIr(opts, pi, refs)
           back   == IrParamsToPi(opts, r.action.params, params)
<1>1. InvocationOk(opts, pi, refs, "id") /\ ir = WithParams(pi, r.action.name, params)
  BY DEF PiActionToIr
<1>2. params # Refused
  BY <1>1 DEF WithParams
<1>3. ir = Invocation(r.action.name, params)
  BY <1>1, <1>2, InvocationWithParams
<1>4. /\ pi.action \in {s.action["id"] : s \in refs} /\ Usable(r.action, opts)
      /\ opts.allow_unsupported \/ ~r.is_unsupported_by_table
      /\ Len(pi.params) = Cardinality(r.action.params)
  BY <1>1 DEF InvocationOk
<1>5. /\ r \in refs /\ r.action.id = pi.action
      /\ r.action.name \in {s.action["name"] : s \in refs} /\ Referenced(refs, "name", r.action.name) = r
  BY <1>4, ReferenceByBoth DEF References
<1>6. AreDefinitions(r.action.params) /\ IsFields("pi", pi.params)
  BY <1>5, PartsOfInvocation DEF AreReferences
<1>7. back # Refused /\ SameFields(back, pi.params) /\ Len(params) = Len(pi.params)
  <2> DEFINE definitions == r.action.params
             given       == pi.params
  <2>1. AreDefinitions(definitions) /\ IsFields("pi", given) /\ PiParamsToIr(definitions, given) # Refused
    BY <1>2, <1>6
  <2> HIDE DEF definitions, given
  <2>2. /\ IrParamsToPi(opts, definitions, PiParamsToIr(definitions, given)) # Refused
        /\ SameFields(IrParamsToPi(opts, definitions, PiParamsToIr(definitions, given)), given)
        /\ Len(PiParamsToIr(definitions, given)) = Len(given)
    BY <2>1, PiParamsAreSentAgain
  <2> QED
    BY <2>2 DEF definitions, given
<1> HIDE DEF r, params, ir, back
<1>8. ir.type = "action" /\ ir.action = r.action.name /\ ir.params = params
  BY <1>3, InvocationsAreNoErrors
<1>9. InvocationOk(opts, ir, refs, "name")
  BY <1>4, <1>5, <1>7, <1>8 DEF InvocationOk
<1>10. IrActionInvocationToPi(opts, ir, refs) = WithParams(ir, pi.action, back)
  BY <1>5, <1>8, <1>9 DEF IrActionInvocationToPi, back
<1>11. WithParams(ir, pi.action, back) = Invocation(pi.action, back)
  BY <1>3, <1>7 DEF WithParams, Invocation
<1>12. FieldsMeaning(back) = FieldsMeaning(pi.params)
  BY <1>7, SameFieldsMeanTheSame
<1>13. pi = Invocation(pi.action, pi.params)
  BY PartsOfInvocation DEF Invocation
<1>14. InvocationMeaning(Invocation(pi.action, back)) = InvocationMeaning(pi)
  BY <1>12, <1>13, MeaningOfInvocation
<1> QED
  BY <1>8, <1>10, <1>11, <1>14, InvocationsAreNoErrors DEF ir

(* Action sets                                                              *)

Set(group, members, mode, semantics) ==
  [type |-> "action_set", group_action |-> group, members |-> members, mode |-> mode, semantics |-> semantics]

WithAction(member, action) == [member EXCEPT !.action = action]

NewMembers(members, actions) == [i \in DOMAIN members |-> WithAction(members[i], actions[i])]

LEMMA PartsOfSet ==
  ASSUME NEW group, NEW members, NEW mode, NEW semantics
  PROVE  LET set == Set(group, members, mode, semantics)
         IN  /\ set.type = "action_set" /\ set.group_action = group /\ set.members = members
             /\ set.mode = mode /\ set.semantics = semantics
  BY DEF Set

Replaced(set, group, members) == [set EXCEPT !.group_action = group, !.members = members]

LEMMA ChangedSet ==
  ASSUME NEW group, NEW members, NEW mode, NEW semantics, NEW other, NEW others
  PROVE  Replaced(Set(group, members, mode, semantics), other, others) = Set(other, others, mode, semantics)
<1>1. [Set(group, members, mode, semantics) EXCEPT !.group_action = other] = Set(other, members, mode, semantics)
  BY DEF Set
<1>2. [Set(other, members, mode, semantics) EXCEPT !.members = others] = Set(other, others, mode, semantics)
  BY DEF Set
<1>3. [Set(group, members, mode, semantics) EXCEPT !.group_action = other, !.members = others]
        = [[Set(group, members, mode, semantics) EXCEPT !.group_action = other] EXCEPT !.members = others]
  BY Zenon
<1> QED
  BY <1>1, <1>2, <1>3 DEF Replaced

LEMMA SetsAreNoErrors ==
  ASSUME ErrorsAreNoMessages, NEW group, NEW members, NEW mode, NEW semantics
  PROVE  Set(group, members, mode, semantics) \notin {Refused, None}
<1>1. IsRecord(Set(group, members, mode, semantics), {"type", "group_action", "members", "mode", "semantics"})
  BY DEF Set, IsRecord
<1> QED
  BY <1>1, RecordsAreNoErrors

LEMMA SetIsItsParts ==
  ASSUME NEW side, NEW set, IsActionSet(side, set)
  PROVE  /\ set = Set(set.group_action, set.members, set.mode, set.semantics)
         /\ set.type = "action_set" /\ IsOptional(set.group_action)
         /\ \A a \in set.group_action : IsInvocation(side, a)
         /\ IsSequence(set.members) /\ \A i \in DOMAIN set.members : IsMember(side, set.members[i])
<1>1. set = Set(set.group_action, set.members, set.mode, set.semantics)
  BY DEF IsActionSet, IsRecord, Set
<1> QED
  BY <1>1 DEF IsActionSet, Elements

LEMMA SetWithActions ==
  ASSUME NEW group, NEW members, NEW mode, NEW semantics, NEW actions, NEW choice
  PROVE  WithActions(Set(group, members, mode, semantics), choice, actions) =
           IF OptionalOk(choice) /\ AllOk(actions)
           THEN Set(choice, NewMembers(members, actions), mode, semantics) ELSE Refused
<1> DEFINE set == Set(group, members, mode, semantics)
<1>1. Replaced(set, choice, NewMembers(members, actions))
        = Set(choice, NewMembers(members, actions), mode, semantics)
  BY ChangedSet
<1>2. set.members = members
  BY PartsOfSet
<1> HIDE DEF set
<1>3. WithActions(set, choice, actions) =
        IF OptionalOk(choice) /\ AllOk(actions)
        THEN Replaced(set, choice, NewMembers(members, actions)) ELSE Refused
  BY <1>2 DEF WithActions, NewMembers, WithAction, Replaced
<1> QED
  BY <1>1, <1>3 DEF set

LEMMA MemberWithAction ==
  ASSUME NEW side, NEW member, IsMember(side, member), NEW action
  PROVE  /\ WithAction(member, action).action = action /\ WithAction(member, action).weight = member.weight
         /\ WithAction(WithAction(member, action), member.action) = member
         /\ \A a : WithAction(WithAction(member, action), a) = WithAction(member, a)
         /\ IsInvocation(side, member.action)
<1>1. member = [f \in {"action", "weight", "port"} |-> member[f]]
  BY DEF IsMember, IsRecord
<1> QED
  BY <1>1 DEF WithAction, IsMember

SameWeights(members, others) ==
  DOMAIN members = DOMAIN others /\ \A i \in DOMAIN others : members[i].weight = others[i].weight

LEMMA SameWeightsAreAsOk ==
  ASSUME NEW info, NEW table, NEW set, NEW other, SameWeights(set.members, other.members),
         WeightsOk(info, table, set)
  PROVE  WeightsOk(info, table, other)
<1>1. \A m \in Elements(set.members) : WeightOk(info, table, m.weight)
  BY DEF WeightsOk
<1>2. \A i \in DOMAIN set.members : WeightOk(info, table, set.members[i].weight)
  BY <1>1 DEF Elements
<1>3. \A i \in DOMAIN other.members : WeightOk(info, table, other.members[i].weight)
  BY <1>2 DEF SameWeights
<1>4. \A m \in Elements(other.members) : WeightOk(info, table, m.weight)
  BY <1>3 DEF Elements
<1> QED
  BY <1>4 DEF WeightsOk

SetMeaning(members) == [i \in DOMAIN members |-> WithAction(members[i], InvocationMeaning(members[i].action))]

LEMMA MeaningOfSet ==
  ASSUME NEW group, NEW members, NEW mode, NEW semantics
  PROVE  ActionMeaning(Set(group, members, mode, semantics)) =
           IF members = << >> THEN {InvocationMeaning(a) : a \in group}
           ELSE Set({InvocationMeaning(a) : a \in group}, SetMeaning(members), mode, semantics)
<1>1. CASE members = << >>
  BY <1>1 DEF ActionMeaning, Set
<1>2. CASE members # << >>
  <2> DEFINE set == Set(group, members, mode, semantics)
             acts == {InvocationMeaning(a) : a \in group}
  <2>1. set.members = members /\ set.group_action = group /\ set.type = "action_set"
    BY PartsOfSet
  <2>2. Replaced(set, acts, SetMeaning(members)) = Set(acts, SetMeaning(members), mode, semantics)
    BY ChangedSet
  <2> HIDE DEF set
  <2>3. ActionMeaning(set) = Replaced(set, {InvocationMeaning(a) : a \in set.group_action}, SetMeaning(set.members))
    BY <1>2, <2>1 DEF ActionMeaning, Replaced, SetMeaning, WithAction
  <2> QED
    BY <1>2, <2>1, <2>2, <2>3 DEF set
<1> QED
  BY <1>1, <1>2

PiInvocations(opts, refs, group) == {IrActionInvocationToPi(opts, a, refs) : a \in group}
IrInvocations(opts, refs, group) == {PiActionToIr(opts, a, refs) : a \in group}
PiMembers(opts, refs, members) == [i \in DOMAIN members |-> IrActionInvocationToPi(opts, members[i].action, refs)]
IrMembers(opts, refs, members) == [i \in DOMAIN members |-> PiActionToIr(opts, members[i].action, refs)]

(* The mode and the semantics are those of the members.                     *)
OfMembers(members, part) == IF members # << >> THEN part ELSE "unset"

LEMMA SetTranslations ==
  ASSUME NEW info, NEW opts, NEW table, NEW group, NEW members, NEW mode, NEW semantics
  PROVE  LET set  == Set(group, members, mode, semantics)
             refs == table.entry_actions
         IN  /\ IrActionSetToPi(info, opts, table, set) =
                  IF /\ WeightsOk(info, table, set)
                     /\ OptionalOk(PiInvocations(opts, refs, group)) /\ AllOk(PiMembers(opts, refs, members))
                  THEN Set(PiInvocations(opts, refs, group),
                           NewMembers(members, PiMembers(opts, refs, members)), mode, semantics)
                  ELSE Refused
             /\ PiActionSetToIr(info, opts, table, set) =
                  IF /\ WeightsOk(info, table, set)
                     /\ OptionalOk(IrInvocations(opts, refs, group)) /\ AllOk(IrMembers(opts, refs, members))
                  THEN Set(IrInvocations(opts, refs, group),
                           NewMembers(members, IrMembers(opts, refs, members)),
                           OfMembers(members, mode), OfMembers(members, semantics))
                  ELSE Refused
<1> DEFINE set  == Set(group, members, mode, semantics)
           refs == table.entry_actions
<1>0. set.group_action = group /\ set.members = members
  BY PartsOfSet
<1>1. IrActionSetToPi(info, opts, table, set) =
        IF WeightsOk(info, table, set)
        THEN WithActions(set, PiInvocations(opts, refs, group), PiMembers(opts, refs, members)) ELSE Refused
  BY <1>0 DEF IrActionSetToPi, PiInvocations, PiMembers
<1>2. (IF members # << >> THEN set ELSE [set EXCEPT !.mode = "unset", !.semantics = "unset"])
        = Set(group, members, OfMembers(members, mode), OfMembers(members, semantics))
  BY DEF Set, OfMembers
<1> DEFINE given == Set(group, members, OfMembers(members, mode), OfMembers(members, semantics))
<1>3. PiActionSetToIr(info, opts, table, set) =
        IF WeightsOk(info, table, set)
        THEN WithActions(given, IrInvocations(opts, refs, group), IrMembers(opts, refs, members)) ELSE Refused
  BY <1>0, <1>2 DEF PiActionSetToIr, IrInvocations, IrMembers
<1> QED
  BY <1>1, <1>3, SetWithActions

LEMMA EmptySequence ==
  ASSUME NEW list, IsSequence(list)
  PROVE  list = << >> <=> DOMAIN list = {}
<1>1. list = [i \in DOMAIN list |-> list[i]]
  BY PartsOfSequence
<1>2. CASE DOMAIN list = {}
  <2>1. list = [i \in {} |-> list[i]]
    BY <1>1, <1>2
  <2> QED
    BY <1>2, <2>1
<1> QED
  BY <1>2

ActionsOf(members) == [i \in DOMAIN members |-> members[i].action]

AreMembers(side, members) ==
  IsSequence(members) /\ \A i \in DOMAIN members : IsMember(side, members[i])

LEMMA MembersWithActions ==
  ASSUME NEW side, NEW members, AreMembers(side, members), NEW actions, NEW new, new = NewMembers(members, actions)
  PROVE  /\ IsSequence(new) /\ DOMAIN new = DOMAIN members
         /\ new = << >> <=> members = << >>
         /\ SameWeights(new, members) /\ SameWeights(members, new)
         /\ \A i \in DOMAIN members : new[i].action = actions[i]
         /\ \A others : NewMembers(new, others) = NewMembers(members, others)
         /\ NewMembers(new, ActionsOf(members)) = members
<1>1. new = [i \in DOMAIN members |-> WithAction(members[i], actions[i])]
  BY DEF NewMembers
<1>2. DOMAIN new = DOMAIN members /\ \A i \in DOMAIN members : new[i] = WithAction(members[i], actions[i])
  BY <1>1
<1>3. IsSequence(new)
  BY <1>1, <1>2, SequenceOfTheSameLength DEF AreMembers
<1>4. new = << >> <=> members = << >>
  BY <1>2, <1>3, EmptySequence DEF AreMembers
<1>5. \A i \in DOMAIN members :
        /\ new[i].action = actions[i] /\ new[i].weight = members[i].weight
        /\ WithAction(new[i], members[i].action) = members[i]
        /\ \A a : WithAction(new[i], a) = WithAction(members[i], a)
  BY <1>2, MemberWithAction DEF AreMembers
<1>6. SameWeights(new, members) /\ SameWeights(members, new)
  BY <1>2, <1>5 DEF SameWeights
<1>7. \A others : NewMembers(new, others) = NewMembers(members, others)
  BY <1>2, <1>5 DEF NewMembers
<1>8. NewMembers(new, ActionsOf(members)) = members
  <2>1. NewMembers(new, ActionsOf(members))
          = [i \in DOMAIN members |-> WithAction(new[i], members[i].action)]
    BY <1>2 DEF NewMembers, ActionsOf
  <2>2. members = [i \in DOMAIN members |-> members[i]]
    BY PartsOfSequence DEF AreMembers
  <2> QED
    BY <1>5, <2>1, <2>2
<1> QED
  BY <1>2, <1>3, <1>4, <1>5, <1>6, <1>7, <1>8

LEMMA PiInvocationsAreOk ==
  ASSUME NEW opts, NEW refs, NEW group, IsOptional(group), OptionalOk(PiInvocations(opts, refs, group))
  PROVE  \A a \in group : IrActionInvocationToPi(opts, a, refs) # Refused
<1> SUFFICES ASSUME NEW a \in group, IrActionInvocationToPi(opts, a, refs) = Refused PROVE FALSE
  OBVIOUS
<1>1. \A b \in group : b = a
  BY DEF IsOptional
<1>2. PiInvocations(opts, refs, group) = {Refused}
  BY <1>1 DEF PiInvocations
<1> QED
  BY <1>2 DEF OptionalOk

LEMMA IrInvocationsAreOk ==
  ASSUME NEW opts, NEW refs, NEW group, IsOptional(group), OptionalOk(IrInvocations(opts, refs, group))
  PROVE  \A a \in group : PiActionToIr(opts, a, refs) # Refused
<1> SUFFICES ASSUME NEW a \in group, PiActionToIr(opts, a, refs) = Refused PROVE FALSE
  OBVIOUS
<1>1. \A b \in group : b = a
  BY DEF IsOptional
<1>2. IrInvocations(opts, refs, group) = {Refused}
  BY <1>1 DEF IrInvocations
<1> QED
  BY <1>2 DEF OptionalOk

LEMMA IrSetComesBack ==
  ASSUME ErrorsAreNoMessages, NEW info, NEW opts, ~opts.allow_arbitrary_format,
         NEW table, AreReferences(table.entry_actions), NEW ir, IsActionSet("ir", ir),
         IrActionSetToPi(info, opts, table, ir) # Refused
  PROVE  LET pi   == IrActionSetToPi(info, opts, table, ir)
             back == PiActionSetToIr(info, opts, table, pi)
         IN  /\ pi.type = "action_set" /\ back # Refused /\ back.type = "action_set"
             /\ ActionMeaning(back) = ActionMeaning(ir)
<1> DEFINE refs    == table.entry_actions
           group   == ir.group_action
           members == ir.members
           sent    == PiMembers(opts, refs, members)
           new     == NewMembers(members, sent)
           pi      == IrActionSetToPi(info, opts, table, ir)
           back    == PiActionSetToIr(info, opts, table, pi)
<1>1. /\ ir = Set(group, members, ir.mode, ir.semantics) /\ IsOptional(group)
      /\ \A a \in group : IsInvocation("ir", a)
      /\ AreMembers("ir", members)
  BY SetIsItsParts DEF AreMembers
<1>2. /\ WeightsOk(info, table, ir)
      /\ OptionalOk(PiInvocations(opts, refs, group)) /\ AllOk(sent)
      /\ pi = Set(PiInvocations(opts, refs, group), new, ir.mode, ir.semantics)
  BY <1>1, SetTranslations
<1>3. /\ PiActionSetToIr(info, opts, table, pi) =
           IF /\ WeightsOk(info, table, pi)
              /\ OptionalOk(IrInvocations(opts, refs, PiInvocations(opts, refs, group)))
              /\ AllOk(IrMembers(opts, refs, new))
           THEN Set(IrInvocations(opts, refs, PiInvocations(opts, refs, group)),
                    NewMembers(new, IrMembers(opts, refs, new)),
                    OfMembers(new, ir.mode), OfMembers(new, ir.semantics))
           ELSE Refused
      /\ pi.members = new /\ pi.type = "action_set"
  BY <1>2, SetTranslations, PartsOfSet
<1>4. \A a \in group : /\ PiActionToIr(opts, IrActionInvocationToPi(opts, a, refs), refs) = a /\ a # Refused
  BY <1>1, <1>2, PiInvocationsAreOk, IrInvocationComesBack, RecordsAreNoErrors DEF IsInvocation
<1>5. IrInvocations(opts, refs, PiInvocations(opts, refs, group)) = group /\ OptionalOk(group)
  <2>1. IrInvocations(opts, refs, PiInvocations(opts, refs, group))
          = {PiActionToIr(opts, IrActionInvocationToPi(opts, a, refs), refs) : a \in group}
    BY DEF IrInvocations, PiInvocations
  <2> QED
    BY <1>4, <2>1 DEF OptionalOk
<1>6. \A i \in DOMAIN members : IsInvocation("ir", members[i].action)
  BY <1>1 DEF IsMember, AreMembers
<1>7. \A i \in DOMAIN members :
        /\ PiActionToIr(opts, sent[i], refs) = members[i].action /\ members[i].action # Refused
  <2>1. \A i \in DOMAIN members :
          sent[i] = IrActionInvocationToPi(opts, members[i].action, refs) /\ sent[i] # Refused
    BY <1>2 DEF AllOk, PiMembers
  <2> QED
    BY <1>6, <2>1, IrInvocationComesBack, RecordsAreNoErrors DEF IsInvocation
<1> HIDE DEF members, refs, sent, group
<1>0. new = NewMembers(members, sent)
  OBVIOUS
<1> HIDE DEF new
<1>8. /\ DOMAIN new = DOMAIN members
      /\ new = << >> <=> members = << >>
      /\ SameWeights(members, new)
      /\ \A i \in DOMAIN members : new[i].action = sent[i]
      /\ NewMembers(new, ActionsOf(members)) = members
  BY <1>0, <1>1, MembersWithActions
<1> HIDE DEF pi, back
<1>9. IrMembers(opts, refs, new) = ActionsOf(members)
  BY <1>7, <1>8 DEF IrMembers, ActionsOf
<1>10. AllOk(IrMembers(opts, refs, new))
  BY <1>7, <1>9 DEF AllOk, ActionsOf
<1>11. WeightsOk(info, table, pi)
  BY <1>2, <1>3, <1>8, SameWeightsAreAsOk DEF members
<1>12. back = Set(group, members, OfMembers(members, ir.mode), OfMembers(members, ir.semantics))
  BY <1>3, <1>5, <1>8, <1>9, <1>10, <1>11 DEF OfMembers, back
<1>13. ActionMeaning(back) = ActionMeaning(ir)
  <2>1. ActionMeaning(ir) =
          IF members = << >> THEN {InvocationMeaning(a) : a \in group}
          ELSE Set({InvocationMeaning(a) : a \in group}, SetMeaning(members), ir.mode, ir.semantics)
    <3>1. ActionMeaning(Set(group, members, ir.mode, ir.semantics)) =
            IF members = << >> THEN {InvocationMeaning(a) : a \in group}
            ELSE Set({InvocationMeaning(a) : a \in group}, SetMeaning(members), ir.mode, ir.semantics)
      BY MeaningOfSet, Zenon
    <3> QED
      BY <1>1, <3>1, Zenon
  <2>2. ActionMeaning(back) =
          IF members = << >> THEN {InvocationMeaning(a) : a \in group}
          ELSE Set({InvocationMeaning(a) : a \in group}, SetMeaning(members),
                   OfMembers(members, ir.mode), OfMembers(members, ir.semantics))
    BY <1>12, MeaningOfSet, Zenon
  <2> QED
    BY <2>1, <2>2 DEF OfMembers
<1> QED
  BY <1>3, <1>12, <1>13, PartsOfSet, SetsAreNoErrors DEF pi, back

LEMMA PiSetIsSentAgain ==
  ASSUME ErrorsAreNoMessages, NEW info, NEW opts,
         NEW table, AreReferences(table.entry_actions), NEW pi, IsActionSet("pi", pi),
         PiActionSetToIr(info, opts, table, pi) # Refused
  PROVE  LET ir    == PiActionSetToIr(info, opts, table, pi)
             again == IrActionSetToPi(info, opts, table, ir)
         IN  /\ ir.type = "action_set" /\ again # Refused /\ again.type = "action_set"
             /\ ActionMeaning(again) = ActionMeaning(pi)
<1> DEFINE refs    == table.entry_actions
           group   == pi.group_action
           members == pi.members
           read    == IrMembers(opts, refs, members)
           new     == NewMembers(members, read)
           sent    == PiMembers(opts, refs, new)
           mode    == OfMembers(members, pi.mode)
           semantics == OfMembers(members, pi.semantics)
           ir      == PiActionSetToIr(info, opts, table, pi)
           again   == IrActionSetToPi(info, opts, table, ir)
           actions == PiInvocations(opts, refs, IrInvocations(opts, refs, group))
<1>1. /\ pi = Set(group, members, pi.mode, pi.semantics) /\ IsOptional(group)
      /\ \A a \in group : IsInvocation("pi", a)
      /\ AreMembers("pi", members)
  BY SetIsItsParts DEF AreMembers
<1>2. /\ WeightsOk(info, table, pi)
      /\ OptionalOk(IrInvocations(opts, refs, group)) /\ AllOk(read)
      /\ ir = Set(IrInvocations(opts, refs, group), new, mode, semantics)
  BY <1>1, SetTranslations
<1>3. /\ again =
           IF WeightsOk(info, table, ir) /\ OptionalOk(actions) /\ AllOk(sent)
           THEN Set(actions, NewMembers(new, sent), mode, semantics) ELSE Refused
      /\ ir.members = new /\ ir.type = "action_set"
  BY <1>2, SetTranslations, PartsOfSet
<1>4. \A a \in group :
        /\ IrActionInvocationToPi(opts, PiActionToIr(opts, a, refs), refs) # Refused
        /\ InvocationMeaning(IrActionInvocationToPi(opts, PiActionToIr(opts, a, refs), refs)) = InvocationMeaning(a)
  BY <1>1, <1>2, IrInvocationsAreOk, PiInvocationIsSentAgain
<1>5. OptionalOk(actions) /\ {InvocationMeaning(a) : a \in actions} = {InvocationMeaning(a) : a \in group}
  <2>1. actions = {IrActionInvocationToPi(opts, PiActionToIr(opts, a, refs), refs) : a \in group}
    BY DEF IrInvocations, PiInvocations
  <2> QED
    BY <1>4, <2>1 DEF OptionalOk
<1>6. \A i \in DOMAIN members : IsInvocation("pi", members[i].action)
  BY <1>1 DEF IsMember, AreMembers
<1>7. \A i \in DOMAIN members :
        /\ IrActionInvocationToPi(opts, read[i], refs) # Refused
        /\ InvocationMeaning(IrActionInvocationToPi(opts, read[i], refs)) = InvocationMeaning(members[i].action)
  <2>1. \A i \in DOMAIN members :
          read[i] = PiActionToIr(opts, members[i].action, refs) /\ read[i] # Refused
    BY <1>2 DEF AllOk, IrMembers
  <2> QED
    BY <1>6, <2>1, PiInvocationIsSentAgain
<1> HIDE DEF members, refs, read, group, actions
<1>0. new = NewMembers(members, read)
  OBVIOUS
<1> HIDE DEF new
<1>8. /\ DOMAIN new = DOMAIN members
      /\ new = << >> <=> members = << >>
      /\ SameWeights(members, new) /\ IsSequence(new)
      /\ \A i \in DOMAIN members : new[i].action = read[i]
      /\ \A others : NewMembers(new, others) = NewMembers(members, others)
  BY <1>0, <1>1, MembersWithActions
<1> HIDE DEF ir, again, sent
<1>9. /\ DOMAIN sent = DOMAIN members
      /\ \A i \in DOMAIN members :
           sent[i] # Refused /\ InvocationMeaning(sent[i]) = InvocationMeaning(members[i].action)
  <2>1. sent = [i \in DOMAIN members |-> IrActionInvocationToPi(opts, read[i], refs)]
    BY <1>8 DEF PiMembers, sent
  <2> QED
    BY <1>7, <2>1
<1>10. AllOk(sent)
  BY <1>9 DEF AllOk
<1>11. WeightsOk(info, table, ir)
  BY <1>2, <1>3, <1>8, SameWeightsAreAsOk DEF members
<1>12. again = Set(actions, NewMembers(members, sent), mode, semantics)
  BY <1>3, <1>5, <1>8, <1>10, <1>11
<1> DEFINE last == NewMembers(members, sent)
<1>16. last = NewMembers(members, sent)
  OBVIOUS
<1>18. \A i \in DOMAIN members : last[i] = WithAction(members[i], sent[i])
  BY DEF NewMembers
<1> HIDE DEF last
<1>17. /\ DOMAIN last = DOMAIN members
       /\ last = << >> <=> members = << >>
       /\ \A i \in DOMAIN members : last[i].action = sent[i]
  BY <1>1, <1>16, MembersWithActions
<1>13. SetMeaning(last) = SetMeaning(members)
  <2>2. \A i \in DOMAIN members :
          WithAction(last[i], InvocationMeaning(sent[i]))
            = WithAction(members[i], InvocationMeaning(members[i].action))
    BY <1>1, <1>9, <1>18, MemberWithAction DEF AreMembers
  <2> QED
    BY <1>17, <2>2 DEF SetMeaning
<1>14. members # << >> => mode = pi.mode /\ semantics = pi.semantics
  BY DEF OfMembers
<1> HIDE DEF mode, semantics
<1>15. ActionMeaning(again) = ActionMeaning(pi)
  <2>1. ActionMeaning(pi) =
          IF members = << >> THEN {InvocationMeaning(a) : a \in group}
          ELSE Set({InvocationMeaning(a) : a \in group}, SetMeaning(members), pi.mode, pi.semantics)
    <3>1. ActionMeaning(Set(group, members, pi.mode, pi.semantics)) =
            IF members = << >> THEN {InvocationMeaning(a) : a \in group}
            ELSE Set({InvocationMeaning(a) : a \in group}, SetMeaning(members), pi.mode, pi.semantics)
      BY MeaningOfSet, Zenon
    <3> QED
      BY <1>1, <3>1, Zenon
  <2>2. ActionMeaning(again) =
          IF last = << >> THEN {InvocationMeaning(a) : a \in actions}
          ELSE Set({InvocationMeaning(a) : a \in actions}, SetMeaning(last),
                   mode, semantics)
    BY <1>12, <1>16, MeaningOfSet, Zenon
  <2>3. CASE members = << >>
    BY <1>5, <1>17, <2>1, <2>2, <2>3
  <2>4. CASE members # << >>
    BY <1>5, <1>13, <1>14, <1>17, <2>1, <2>2, <2>4
  <2> QED
    BY <2>3, <2>4
<1> QED
  BY <1>3, <1>12, <1>15, PartsOfSet, SetsAreNoErrors DEF ir, again

(* The action of an entry                                                   *)

PiActionOf(info, opts, table, a) ==
  IF a.type = "action" THEN IrActionInvocationToPi(opts, a, table.entry_actions)
  ELSE IrActionSetToPi(info, opts, table, a)

IrActionOf(info, opts, table, a) ==
  IF a.type = "action" THEN PiActionToIr(opts, a, table.entry_actions)
  ELSE PiActionSetToIr(info, opts, table, a)

PiActions(info, opts, table, actions) == {PiActionOf(info, opts, table, a) : a \in actions}
IrActions(info, opts, table, actions) == {IrActionOf(info, opts, table, a) : a \in actions}

LEMMA InvocationsHaveMeaning ==
  ASSUME NEW action, action.type = "action"
  PROVE  ActionMeaning(action) = InvocationMeaning(action)
  BY DEF ActionMeaning

LEMMA IrActionComesBack ==
  ASSUME ErrorsAreNoMessages, NEW info, NEW opts, ~opts.allow_arbitrary_format,
         NEW table, AreReferences(table.entry_actions),
         NEW ir, IsAction("ir", ir), ir.type \in {"action", "action_set"},
         PiActionOf(info, opts, table, ir) # Refused
  PROVE  LET pi   == PiActionOf(info, opts, table, ir)
             back == IrActionOf(info, opts, table, pi)
         IN  pi.type = ir.type /\ back # Refused /\ ActionMeaning(back) = ActionMeaning(ir)
<1>1. CASE ir.type = "action"
  <2>1. IsInvocation("ir", ir) /\ IrActionInvocationToPi(opts, ir, table.entry_actions) # Refused
    BY <1>1 DEF IsAction, PiActionOf
  <2>2. ir # Refused
    BY <2>1, RecordsAreNoErrors DEF IsInvocation
  <2> QED
    BY <1>1, <2>1, <2>2, IrInvocationComesBack DEF PiActionOf, IrActionOf
<1>2. CASE ir.type = "action_set"
  <2>1. IsActionSet("ir", ir) /\ IrActionSetToPi(info, opts, table, ir) # Refused
    BY <1>2 DEF IsAction, PiActionOf
  <2> QED
    BY <1>2, <2>1, IrSetComesBack DEF PiActionOf, IrActionOf
<1> QED
  BY <1>1, <1>2

LEMMA PiActionIsSentAgain ==
  ASSUME ErrorsAreNoMessages, NEW info, NEW opts,
         NEW table, AreReferences(table.entry_actions),
         NEW pi, IsAction("pi", pi), pi.type \in {"action", "action_set"},
         IrActionOf(info, opts, table, pi) # Refused
  PROVE  LET ir    == IrActionOf(info, opts, table, pi)
             again == PiActionOf(info, opts, table, ir)
         IN  ir.type = pi.type /\ again # Refused /\ ActionMeaning(again) = ActionMeaning(pi)
<1>1. CASE pi.type = "action"
  <2>1. IsInvocation("pi", pi) /\ PiActionToIr(opts, pi, table.entry_actions) # Refused
    BY <1>1 DEF IsAction, IrActionOf
  <2> DEFINE ir    == PiActionToIr(opts, pi, table.entry_actions)
             again == IrActionInvocationToPi(opts, ir, table.entry_actions)
  <2>2. /\ again # Refused /\ ir.type = "action" /\ again.type = "action"
        /\ InvocationMeaning(again) = InvocationMeaning(pi)
    BY <2>1, PiInvocationIsSentAgain
  <2>3. ActionMeaning(again) = ActionMeaning(pi)
    BY <1>1, <2>2, InvocationsHaveMeaning
  <2> QED
    BY <1>1, <2>2, <2>3 DEF PiActionOf, IrActionOf
<1>2. CASE pi.type = "action_set"
  <2>1. IsActionSet("pi", pi) /\ PiActionSetToIr(info, opts, table, pi) # Refused
    BY <1>2 DEF IsAction, IrActionOf
  <2> QED
    BY <1>2, <2>1, PiSetIsSentAgain DEF PiActionOf, IrActionOf
<1> QED
  BY <1>1, <1>2

ActionsMeaning(actions) == {ActionMeaning(a) : a \in actions}

AreActions(side, actions) == IsOptional(actions) /\ \A a \in actions : IsAction(side, a)

LEMMA TypesOfActions ==
  ASSUME NEW side, NEW table, NEW actions, AreActions(side, actions), ActionTypeOk(table, actions)
  PROVE  \A a \in actions : a.type \in {"action", "action_set"}
<1>1. CASE table.entry_actions = {}
  BY <1>1 DEF ActionTypeOk
<1>2. CASE table.entry_actions # {}
  BY <1>2 DEF ActionTypeOk, AreActions, IsOptional
<1> QED
  BY <1>1, <1>2

LEMMA IrActionsComeBack ==
  ASSUME ErrorsAreNoMessages, NEW info, NEW opts, ~opts.allow_arbitrary_format,
         NEW table, AreReferences(table.entry_actions),
         NEW actions, AreActions("ir", actions), ActionTypeOk(table, actions),
         OptionalOk(PiActions(info, opts, table, actions))
  PROVE  LET sent == PiActions(info, opts, table, actions)
             back == IrActions(info, opts, table, sent)
         IN  /\ ActionTypeOk(table, sent) /\ OptionalOk(back)
             /\ ActionsMeaning(back) = ActionsMeaning(actions)
<1> DEFINE Sent(a) == PiActionOf(info, opts, table, a)
           Back(a) == IrActionOf(info, opts, table, Sent(a))
           sent    == PiActions(info, opts, table, actions)
           back    == IrActions(info, opts, table, sent)
<1>1. \A a \in actions : a.type \in {"action", "action_set"}
  BY TypesOfActions
<1>2. \A a \in actions : Sent(a) # Refused
  <2> SUFFICES ASSUME NEW a \in actions, Sent(a) = Refused PROVE FALSE
    OBVIOUS
  <2>1. \A b \in actions : b = a
    BY DEF AreActions, IsOptional
  <2>2. PiActions(info, opts, table, actions) = {Refused}
    BY <2>1 DEF PiActions
  <2> QED
    BY <2>2 DEF OptionalOk
<1>3. \A a \in actions : Sent(a).type = a.type /\ Back(a) # Refused /\ ActionMeaning(Back(a)) = ActionMeaning(a)
  BY <1>1, <1>2, IrActionComesBack DEF AreActions
<1>4. sent = {Sent(a) : a \in actions} /\ back = {Back(a) : a \in actions}
  BY DEF PiActions, IrActions
<1> HIDE DEF Sent, Back, sent, back
<1>5. OptionalOk(back) /\ ActionsMeaning(back) = ActionsMeaning(actions)
  BY <1>3, <1>4 DEF OptionalOk, ActionsMeaning
<1>6. ActionTypeOk(table, sent)
  <2>1. CASE table.entry_actions = {}
    BY <1>4, <2>1 DEF ActionTypeOk
  <2>2. CASE table.entry_actions # {}
    <3>1. PICK a \in actions : a.type = IF UsesOneshot(table) THEN "action_set" ELSE "action"
      BY <2>2 DEF ActionTypeOk
    <3> QED
      BY <1>3, <1>4, <2>2, <3>1 DEF ActionTypeOk
  <2> QED
    BY <2>1, <2>2
<1> QED
  BY <1>5, <1>6 DEF sent, back

LEMMA PiActionsAreSentAgain ==
  ASSUME ErrorsAreNoMessages, NEW info, NEW opts,
         NEW table, AreReferences(table.entry_actions),
         NEW actions, AreActions("pi", actions), ActionTypeOk(table, actions),
         OptionalOk(IrActions(info, opts, table, actions))
  PROVE  LET read  == IrActions(info, opts, table, actions)
             again == PiActions(info, opts, table, read)
         IN  /\ ActionTypeOk(table, read) /\ OptionalOk(again)
             /\ ActionsMeaning(again) = ActionsMeaning(actions)
<1> DEFINE Read(a)  == IrActionOf(info, opts, table, a)
           Again(a) == PiActionOf(info, opts, table, Read(a))
           read     == IrActions(info, opts, table, actions)
           again    == PiActions(info, opts, table, read)
<1>1. \A a \in actions : a.type \in {"action", "action_set"}
  BY TypesOfActions
<1>2. \A a \in actions : Read(a) # Refused
  <2> SUFFICES ASSUME NEW a \in actions, Read(a) = Refused PROVE FALSE
    OBVIOUS
  <2>1. \A b \in actions : b = a
    BY DEF AreActions, IsOptional
  <2>2. IrActions(info, opts, table, actions) = {Refused}
    BY <2>1 DEF IrActions
  <2> QED
    BY <2>2 DEF OptionalOk
<1>3. \A a \in actions : Read(a).type = a.type /\ Again(a) # Refused /\ ActionMeaning(Again(a)) = ActionMeaning(a)
  BY <1>1, <1>2, PiActionIsSentAgain DEF AreActions
<1>4. read = {Read(a) : a \in actions} /\ again = {Again(a) : a \in actions}
  BY DEF PiActions, IrActions
<1> HIDE DEF Read, Again, read, again
<1>5. OptionalOk(again) /\ ActionsMeaning(again) = ActionsMeaning(actions)
  BY <1>3, <1>4 DEF OptionalOk, ActionsMeaning
<1>6. ActionTypeOk(table, read)
  <2>1. CASE table.entry_actions = {}
    BY <1>4, <2>1 DEF ActionTypeOk
  <2>2. CASE table.entry_actions # {}
    <3>1. PICK a \in actions : a.type = IF UsesOneshot(table) THEN "action_set" ELSE "action"
      BY <2>2 DEF ActionTypeOk
    <3> QED
      BY <1>3, <1>4, <2>2, <3>1 DEF ActionTypeOk
  <2> QED
    BY <2>1, <2>2
<1> QED
  BY <1>5, <1>6 DEF read, again

(* Table entries                                                            *)

LEMMA PartsOfEntry ==
  ASSUME NEW table, NEW matches, NEW priority, NEW metadata, NEW action, NEW meter, NEW data, NEW counter,
         NEW e, e = Entry(table, matches, priority, metadata, action, meter, data, counter)
  PROVE  /\ e.kind = "table_entry" /\ e.table = table /\ e.matches = matches /\ e.priority = priority
         /\ e.metadata = metadata /\ e.action = action /\ e.meter_config = meter
         /\ e.meter_counter_data = data /\ e.counter_data = counter
  BY DEF Entry

LEMMA EntryIsItsParts ==
  ASSUME NEW side, NEW e, IsTableEntry(side, e), e.kind = "table_entry"
  PROVE  e = Entry(e.table, e.matches, e.priority, e.metadata, e.action, e.meter_config,
                   e.meter_counter_data, e.counter_data)
  BY DEF IsTableEntry, IsRecord, EntryFields, Entry

LEMMA KeyOfEntry ==
  ASSUME NEW table, NEW matches, NEW priority, NEW metadata, NEW action, NEW meter, NEW data, NEW counter
  PROVE  OnlyKey(Entry(table, matches, priority, metadata, action, meter, data, counter))
           = Entry(table, matches, priority, "", {}, {}, {}, {})
<1> DEFINE text == ""
           none == {}
           e1 == Entry(table, matches, priority, metadata, action, meter, data, counter)
           e2 == Entry(table, matches, priority, text, action, meter, data, counter)
           e3 == Entry(table, matches, priority, text, none, meter, data, counter)
           e4 == Entry(table, matches, priority, text, none, none, data, counter)
           e5 == Entry(table, matches, priority, text, none, none, none, counter)
           e6 == Entry(table, matches, priority, text, none, none, none, none)
<1> HIDE DEF text, none
<1>1. [e1 EXCEPT !.metadata = text] = e2
  BY DEF Entry
<1>4. [e2 EXCEPT !.action = none] = e3
  BY DEF Entry
<1>5. [e3 EXCEPT !.meter_config = none] = e4
  BY DEF Entry
<1>6. [e4 EXCEPT !.meter_counter_data = none] = e5
  BY DEF Entry
<1>7. [e5 EXCEPT !.counter_data = none] = e6
  BY DEF Entry
<1>2. OnlyKey(e1) = [[[[[e1 EXCEPT !.metadata = text] EXCEPT !.action = none] EXCEPT !.meter_config = none]
                        EXCEPT !.meter_counter_data = none] EXCEPT !.counter_data = none]
  BY Zenon DEF OnlyKey, text, none
<1> HIDE DEF e1, e2, e3, e4, e5, e6
<1>3. OnlyKey(e1) = e6
  BY <1>1, <1>2, <1>4, <1>5, <1>6, <1>7, Zenon
<1> QED
  BY <1>3 DEF e1, e6, text, none

LEMMA TranslatedEntry ==
  ASSUME NEW table, NEW matches, NEW priority, NEW metadata, NEW action, NEW meter, NEW data, NEW counter,
         NEW opts, NEW definition, NEW reference, NEW others, NEW another
  PROVE  Translated(opts, Entry(table, matches, priority, metadata, action, meter, data, counter),
                    definition, reference, others, another) =
           EntryOrError(opts, definition, reference, matches, others, priority, metadata, action, another,
                        meter, data, counter)
<1> DEFINE e   == Entry(table, matches, priority, metadata, action, meter, data, counter)
           key == [e EXCEPT !.table = reference, !.matches = others]
<1>1. key = Entry(reference, others, priority, metadata, action, meter, data, counter)
  <2>1. [e EXCEPT !.table = reference] = Entry(reference, matches, priority, metadata, action, meter, data, counter)
    BY DEF Entry
  <2>2. [Entry(reference, matches, priority, metadata, action, meter, data, counter) EXCEPT !.matches = others]
          = Entry(reference, others, priority, metadata, action, meter, data, counter)
    BY DEF Entry
  <2>3. key = [[e EXCEPT !.table = reference] EXCEPT !.matches = others]
    BY Zenon
  <2> QED
    BY <2>1, <2>2, <2>3, Zenon
<1>3. [key EXCEPT !.action = another] = Entry(reference, others, priority, metadata, another, meter, data, counter)
  <2>1. [Entry(reference, others, priority, metadata, action, meter, data, counter) EXCEPT !.action = another]
          = Entry(reference, others, priority, metadata, another, meter, data, counter)
    BY DEF Entry
  <2> HIDE DEF key
  <2> QED
    BY <1>1, <2>1, Zenon
<1>4. e.kind = "table_entry" /\ e.matches = matches /\ e.priority = priority /\ e.action = action
      /\ e.meter_config = meter /\ e.meter_counter_data = data /\ e.counter_data = counter
  BY PartsOfEntry
<1>5. Translated(opts, e, definition, reference, others, another) =
        IF others = Refused \/ ~EntryOk(opts, definition, e, another) THEN Refused
        ELSE IF opts.key_only THEN OnlyKey(key) ELSE [key EXCEPT !.action = another]
  BY Zenon DEF Translated
<1> HIDE DEF e, key
<1>2. OnlyKey(key) = Entry(reference, others, priority, "", {}, {}, {}, {})
  BY <1>1, KeyOfEntry
<1>6. EntryOk(opts, definition, e, another)
        = EntryPartsOk(opts, definition, matches, priority, action, another, meter, data, counter)
  BY <1>4 DEF EntryOk, CountersOk, EntryPartsOk
<1> QED
  BY <1>2, <1>3, <1>5, <1>6 DEF e, EntryOrError

LEMMA OnlyKeyIsLeft ==
  ASSUME NEW table, NEW matches, NEW priority, NEW metadata, NEW action, NEW meter, NEW data, NEW counter
  PROVE  OnlyKey(Entry(table, matches, priority, metadata, action, meter, data, counter))
           = KeyEntry(table, matches, priority)
<1>1. OnlyKey(Entry(table, matches, priority, metadata, action, meter, data, counter))
        = Entry(table, matches, priority, "", {}, {}, {}, {})
  BY KeyOfEntry
<1> QED
  BY <1>1, Zenon DEF KeyEntry

LEMMA MeaningOfEntry ==
  ASSUME NEW table, NEW matches, NEW priority, NEW metadata, NEW action, NEW meter, NEW data, NEW counter
  PROVE  WithMeaning(Entry(table, matches, priority, metadata, action, meter, data, counter)) =
           Entry(table, MatchesMeaning(matches), priority, metadata, ActionsMeaning(action), meter, data, counter)
<1> DEFINE e == Entry(table, matches, priority, metadata, action, meter, data, counter)
           f == Entry(table, MatchesMeaning(matches), priority, metadata, action, meter, data, counter)
           acts == ActionsMeaning(action)
<1>1. e.kind = "table_entry" /\ e.matches = matches /\ e.action = action
  BY PartsOfEntry
<1>2. [e EXCEPT !.matches = MatchesMeaning(matches)] = f
  BY DEF Entry
<1>3. [f EXCEPT !.action = acts] = Entry(table, MatchesMeaning(matches), priority, metadata, acts, meter, data, counter)
  BY DEF Entry
<1> HIDE DEF e, f
<1>4. f.action = action
  BY <1>1, PartsOfEntry DEF f
<1> QED
  BY <1>1, <1>2, <1>3, <1>4 DEF WithMeaning, MatchesMeaning, MatchMeaning, ActionsMeaning, e

LEMMA EntriesAreNoErrors ==
  ASSUME ErrorsAreNoMessages,
         NEW table, NEW matches, NEW priority, NEW metadata, NEW action, NEW meter, NEW data, NEW counter
  PROVE  Entry(table, matches, priority, metadata, action, meter, data, counter) \notin {Refused, None}
<1>1. IsRecord(Entry(table, matches, priority, metadata, action, meter, data, counter), EntryFields)
  BY DEF Entry, EntryFields, IsRecord
<1> QED
  BY <1>1, RecordsAreNoErrors

LEMMA MeaningOfEntryUnder ==
  ASSUME NEW opts,
         NEW table, NEW matches, NEW priority, NEW metadata, NEW action, NEW meter, NEW data, NEW counter
  PROVE  MeaningUnder(opts, Entry(table, matches, priority, metadata, action, meter, data, counter)) =
           EntryMeaning(opts, table, MatchesMeaning(matches), priority, metadata,
                        ActionsMeaning(action), meter, data, counter)
<1> DEFINE e == Entry(table, matches, priority, metadata, action, meter, data, counter)
           f == Entry(table, MatchesMeaning(matches), priority, metadata, ActionsMeaning(action),
                      meter, data, counter)
<1>1. WithMeaning(e) = f
  BY MeaningOfEntry
<1>2. f.kind = "table_entry" /\ f.table = table /\ f.matches = MatchesMeaning(matches) /\ f.priority = priority
  BY PartsOfEntry
<1> HIDE DEF e, f
<1>3. Key(f) = <<table, MatchesMeaning(matches), priority>>
  BY <1>2 DEF Key
<1> QED
  BY <1>1, <1>3 DEF MeaningUnder, EntryMeaning, e, f

LEMMA MeaningOfKey ==
  ASSUME NEW opts, opts.key_only, NEW table, NEW matches, NEW priority,
         NEW e, e = KeyEntry(table, matches, priority)
  PROVE  /\ e.kind = "table_entry" /\ e.table = table /\ e.matches = matches
         /\ MeaningUnder(opts, e) = <<table, MatchesMeaning(matches), priority>>
<1> DEFINE text == ""
           none == {}
<1>1. e = Entry(table, matches, priority, text, none, none, none, none)
  BY DEF KeyEntry
<1> HIDE DEF text, none
<1>2. e.kind = "table_entry" /\ e.table = table /\ e.matches = matches
  BY <1>1, PartsOfEntry
<1>3. MeaningUnder(opts, e) = EntryMeaning(opts, table, MatchesMeaning(matches), priority, text,
                                           ActionsMeaning(none), none, none, none)
  BY <1>1, MeaningOfEntryUnder
<1> QED
  BY <1>2, <1>3 DEF EntryMeaning

LEMMA TranslatedKey ==
  ASSUME NEW opts, opts.key_only, NEW table, NEW matches, NEW priority,
         NEW e, e = KeyEntry(table, matches, priority), NEW definition, NEW reference, NEW another,
         Usable(definition, opts), CheckMandatoryMatches(definition, matches), PriorityOk(definition, priority),
         NEW others, others # Refused
  PROVE  Translated(opts, e, definition, reference, others, another) = KeyEntry(reference, others, priority)
<1> DEFINE text == ""
           none == {}
<1>1. e = Entry(table, matches, priority, text, none, none, none, none)
  BY DEF KeyEntry
<1> HIDE DEF text, none
<1>2. Translated(opts, e, definition, reference, others, another) =
        EntryOrError(opts, definition, reference, matches, others, priority, text, none, another, none, none, none)
  BY <1>1, TranslatedEntry
<1>3. EntryOrError(opts, definition, reference, matches, others, priority, text, none, another, none, none, none) =
        IF \/ others = Refused
           \/ ~EntryPartsOk(opts, definition, matches, priority, none, another, none, none, none)
        THEN Refused ELSE KeyEntry(reference, others, priority)
  BY DEF EntryOrError, KeyEntry
<1>4. EntryPartsOk(opts, definition, matches, priority, none, another, none, none, none)
  BY DEF EntryPartsOk
<1> QED
  BY <1>2, <1>3, <1>4

LEMMA TableEntryTranslations ==
  ASSUME NEW info, NEW opts, NEW e
  PROVE  /\ IrTableEntryToPi(info, opts, e) =
              LET table == info.tables_by_name[e.table]
              IN  IF e.table \notin DOMAIN info.tables_by_name THEN Refused
                  ELSE Translated(opts, e, table, table.id, IrMatchesToPi(opts, table, e.matches),
                                  PiActions(info, opts, table, e.action))
         /\ PiTableEntryToIr(info, opts, e) =
              LET table == info.tables_by_id[e.table]
              IN  IF e.table \notin DOMAIN info.tables_by_id THEN Refused
                  ELSE Translated(opts, e, table, table.name, PiMatchesToIr(opts, table, e.matches),
                                  IrActions(info, opts, table, e.action))
<1>1. PiActions(info, opts, info.tables_by_name[e.table], e.action) =
        {IF a.type = "action" THEN IrActionInvocationToPi(opts, a, info.tables_by_name[e.table].entry_actions)
         ELSE IrActionSetToPi(info, opts, info.tables_by_name[e.table], a) : a \in e.action}
  BY DEF PiActions, PiActionOf
<1>2. IrActions(info, opts, info.tables_by_id[e.table], e.action) =
        {IF a.type = "action" THEN PiActionToIr(opts, a, info.tables_by_id[e.table].entry_actions)
         ELSE PiActionSetToIr(info, opts, info.tables_by_id[e.table], a) : a \in e.action}
  BY DEF IrActions, IrActionOf
<1> QED
  BY <1>1, <1>2, Zenon DEF IrTableEntryToPi, PiTableEntryToIr

LEMMA IrEntryComesBack ==
  ASSUME ErrorsAreNoMessages, NEW info, IsInfo(info), NEW opts, ~opts.allow_arbitrary_format,
         NEW ir, ir.kind = "table_entry", IsTableEntry("ir", ir), IrTableEntryToPi(info, opts, ir) # Refused
  PROVE  LET pi   == IrTableEntryToPi(info, opts, ir)
             back == PiTableEntryToIr(info, opts, pi)
         IN  /\ pi.kind = "table_entry" /\ back # Refused
             /\ MeaningUnder(opts, back) = MeaningUnder(opts, ir)
<1> DEFINE table   == info.tables_by_name[ir.table]
           matches == IrMatchesToPi(opts, table, ir.matches)
           action  == PiActions(info, opts, table, ir.action)
           again   == IrActions(info, opts, table, action)
           pi      == IrTableEntryToPi(info, opts, ir)
           back    == PiTableEntryToIr(info, opts, pi)
           key     == opts.key_only
           priority == ir.priority
           metadata == ir.metadata
           meter    == ir.meter_config
           data     == ir.meter_counter_data
           counter  == ir.counter_data
<1>1. ir = Entry(ir.table, ir.matches, priority, metadata, ir.action, meter, data, counter)
  BY EntryIsItsParts
<1>2. ir.table \in DOMAIN info.tables_by_name /\ pi = Translated(opts, ir, table, table.id, matches, action)
  BY TableEntryTranslations
<1>3. /\ table.id \in DOMAIN info.tables_by_id /\ info.tables_by_id[table.id] = table /\ table.name = ir.table
      /\ IsTable(table) /\ AreReferences(table.entry_actions)
  BY <1>2 DEF IsInfo
<1> HIDE DEF table, pi, back, action, again, matches, priority, metadata, meter, data, counter
<1>4. /\ matches # Refused
      /\ EntryPartsOk(opts, table, ir.matches, priority, ir.action, action, meter, data, counter)
      /\ pi = IF key THEN KeyEntry(table.id, matches, priority)
              ELSE Entry(table.id, matches, priority, metadata, action, meter, data, counter)
  <2>1. pi # Refused
    BY DEF pi
  <2>2. Translated(opts, Entry(ir.table, ir.matches, priority, metadata, ir.action, meter, data, counter),
                   table, table.id, matches, action) =
            EntryOrError(opts, table, table.id, ir.matches, matches, priority, metadata, ir.action, action,
                         meter, data, counter)
    BY TranslatedEntry
  <2> QED
    BY <1>1, <1>2, <2>1, <2>2 DEF EntryOrError, KeyEntry
<1>5. IsMatches("ir", ir.matches) /\ AreActions("ir", ir.action)
  BY DEF IsTableEntry, AreActions
<1>6. PiMatchesToIr(opts, table, matches) = ir.matches /\ SameTypes(matches, ir.matches)
  BY <1>3, <1>4, <1>5, IrMatchesComeBack DEF matches
<1>7. CheckMandatoryMatches(table, matches) = CheckMandatoryMatches(table, ir.matches)
  BY <1>6, SameTypesAreAsMandatory
<1>8. ir.matches # Refused
  BY <1>5, PartsOfMatches, PartsOfSequence, FunctionsAreNoErrors
<1>9. /\ pi.kind = "table_entry" /\ pi.table = table.id /\ pi.matches = matches
      /\ ~key => pi.action = action
  <2>1. CASE key
    BY <1>4, <2>1, MeaningOfKey
  <2>2. CASE ~key
    BY <1>4, <2>2, PartsOfEntry
  <2> QED
    BY <2>1, <2>2
<1>10. back = Translated(opts, pi, table, ir.table, ir.matches, IrActions(info, opts, table, pi.action))
  BY <1>3, <1>6, <1>9, TableEntryTranslations DEF back
<1>11. CASE key
  <2>1. back = KeyEntry(ir.table, ir.matches, priority)
    <3>1. pi = KeyEntry(table.id, matches, priority)
      BY <1>4, <1>11
    <3>2. /\ Usable(table, opts) /\ CheckMandatoryMatches(table, matches) /\ PriorityOk(table, priority)
      BY <1>4, <1>7 DEF EntryPartsOk
    <3> QED
      BY <1>8, <1>10, <1>11, <3>1, <3>2, TranslatedKey
  <2>2. MeaningUnder(opts, back) = <<ir.table, MatchesMeaning(ir.matches), priority>>
    BY <1>11, <2>1, MeaningOfKey
  <2>3. MeaningUnder(opts, ir) = <<ir.table, MatchesMeaning(ir.matches), priority>>
    <3>1. MeaningUnder(opts, Entry(ir.table, ir.matches, priority, metadata, ir.action, meter, data, counter))
            = EntryMeaning(opts, ir.table, MatchesMeaning(ir.matches), priority, metadata,
                           ActionsMeaning(ir.action), meter, data, counter)
      BY MeaningOfEntryUnder
    <3>2. MeaningUnder(opts, ir) = EntryMeaning(opts, ir.table, MatchesMeaning(ir.matches), priority, metadata,
                           ActionsMeaning(ir.action), meter, data, counter)
      BY <1>1, <3>1, Zenon
    <3> QED
      BY <1>11, <3>2 DEF EntryMeaning
  <2> QED
    BY <1>9, <2>1, <2>2, <2>3, EntriesAreNoErrors DEF pi, back, KeyEntry
<1>12. CASE ~key
  <2>1. ActionTypeOk(table, ir.action) /\ OptionalOk(action)
    BY <1>4, <1>12 DEF EntryPartsOk
  <2>2. /\ ActionTypeOk(table, action) /\ OptionalOk(again)
        /\ ActionsMeaning(again) = ActionsMeaning(ir.action)
    <3> DEFINE given == ir.action
    <3>1. AreActions("ir", given) /\ ActionTypeOk(table, given) /\ OptionalOk(PiActions(info, opts, table, given))
      BY <1>5, <2>1 DEF action
    <3> HIDE DEF given
    <3>2. LET sent == PiActions(info, opts, table, given)
              back2 == IrActions(info, opts, table, sent)
          IN  /\ ActionTypeOk(table, sent) /\ OptionalOk(back2)
              /\ ActionsMeaning(back2) = ActionsMeaning(given)
      BY <1>3, <3>1, IrActionsComeBack
    <3> QED
      BY <3>2 DEF action, again, given
  <2>3. back = Entry(ir.table, ir.matches, priority, metadata, again, meter, data, counter)
    <3>1. EntryPartsOk(opts, table, matches, priority, action, again, meter, data, counter)
      BY <1>4, <1>7, <1>12, <2>2 DEF EntryPartsOk
    <3>2. Translated(opts, Entry(table.id, matches, priority, metadata, action, meter, data, counter),
                     table, ir.table, ir.matches, again) =
            EntryOrError(opts, table, ir.table, matches, ir.matches, priority, metadata, action, again,
                         meter, data, counter)
      BY TranslatedEntry
    <3>3. back = Translated(opts, Entry(table.id, matches, priority, metadata, action, meter, data, counter),
                            table, ir.table, ir.matches, again)
      BY <1>4, <1>9, <1>10, <1>12 DEF again
    <3> QED
      BY <1>8, <1>12, <3>1, <3>2, <3>3 DEF EntryOrError
  <2>4. MeaningUnder(opts, back) =
          Entry(ir.table, MatchesMeaning(ir.matches), priority, metadata, ActionsMeaning(again),
                meter, data, counter)
    BY <1>12, <2>3, MeaningOfEntryUnder DEF EntryMeaning
  <2>5. MeaningUnder(opts, ir) =
          Entry(ir.table, MatchesMeaning(ir.matches), priority, metadata, ActionsMeaning(ir.action),
                meter, data, counter)
    <3>1. MeaningUnder(opts, Entry(ir.table, ir.matches, priority, metadata, ir.action, meter, data, counter)) =
            Entry(ir.table, MatchesMeaning(ir.matches), priority, metadata, ActionsMeaning(ir.action),
                  meter, data, counter)
      BY <1>12, MeaningOfEntryUnder DEF EntryMeaning
    <3> QED
      BY <1>1, <3>1, Zenon
  <2> QED
    BY <1>9, <2>2, <2>3, <2>4, <2>5, EntriesAreNoErrors DEF pi, back
<1> QED
  BY <1>11, <1>12 DEF pi, back

LEMMA PiEntryIsSentAgain ==
  ASSUME ErrorsAreNoMessages, NEW info, IsInfo(info), NEW opts,
         \A i \in DOMAIN info.tables_by_id : HasWholeAddresses(info.tables_by_id[i]),
         NEW pi, pi.kind = "table_entry", IsTableEntry("pi", pi), HasPrefixLengths(pi),
         PiTableEntryToIr(info, opts, pi) # Refused
  PROVE  LET ir   == PiTableEntryToIr(info, opts, pi)
             back == IrTableEntryToPi(info, opts, ir)
         IN  /\ ir.kind = "table_entry" /\ back # Refused
             /\ MeaningUnder(opts, back) = MeaningUnder(opts, pi)
<1> DEFINE table   == info.tables_by_id[pi.table]
           matches == PiMatchesToIr(opts, table, pi.matches)
           others  == IrMatchesToPi(opts, table, matches)
           action  == IrActions(info, opts, table, pi.action)
           again   == PiActions(info, opts, table, action)
           ir      == PiTableEntryToIr(info, opts, pi)
           back    == IrTableEntryToPi(info, opts, ir)
           key     == opts.key_only
           priority == pi.priority
           metadata == pi.metadata
           meter    == pi.meter_config
           data     == pi.meter_counter_data
           counter  == pi.counter_data
<1>1. pi = Entry(pi.table, pi.matches, priority, metadata, pi.action, meter, data, counter)
  BY EntryIsItsParts
<1>2. pi.table \in DOMAIN info.tables_by_id /\ ir = Translated(opts, pi, table, table.name, matches, action)
  BY TableEntryTranslations
<1>3. /\ table.name \in DOMAIN info.tables_by_name /\ info.tables_by_name[table.name] = table /\ table.id = pi.table
      /\ IsTable(table) /\ AreReferences(table.entry_actions) /\ HasWholeAddresses(table)
  BY <1>2 DEF IsInfo
<1> HIDE DEF table, ir, back, action, again, matches, others, priority, metadata, meter, data, counter
<1>4. /\ matches # Refused
      /\ EntryPartsOk(opts, table, pi.matches, priority, pi.action, action, meter, data, counter)
      /\ ir = IF key THEN KeyEntry(table.name, matches, priority)
              ELSE Entry(table.name, matches, priority, metadata, action, meter, data, counter)
  <2>1. ir # Refused
    BY DEF ir
  <2>2. Translated(opts, Entry(pi.table, pi.matches, priority, metadata, pi.action, meter, data, counter),
                   table, table.name, matches, action) =
            EntryOrError(opts, table, table.name, pi.matches, matches, priority, metadata, pi.action, action,
                         meter, data, counter)
    BY TranslatedEntry
  <2> QED
    BY <1>1, <1>2, <2>1, <2>2 DEF EntryOrError, KeyEntry
<1>5. IsMatches("pi", pi.matches) /\ AreActions("pi", pi.action)
  BY DEF IsTableEntry, AreActions
<1>6. others # Refused /\ SameMatches(others, pi.matches) /\ SameTypes(matches, pi.matches)
  <2> DEFINE given == pi.matches
  <2>1. /\ IsMatches("pi", given) /\ PiMatchesToIr(opts, table, given) # Refused
        /\ \A m \in Elements(given) : m.value.type = "LPM" => m.value.prefix \in Nat
    BY <1>4, <1>5 DEF matches, HasPrefixLengths
  <2> HIDE DEF given
  <2>2. /\ IrMatchesToPi(opts, table, PiMatchesToIr(opts, table, given)) # Refused
        /\ SameMatches(IrMatchesToPi(opts, table, PiMatchesToIr(opts, table, given)), given)
        /\ SameTypes(PiMatchesToIr(opts, table, given), given)
    BY <1>3, <2>1, PiMatchesAreSentAgain
  <2> QED
    BY <2>2 DEF others, matches, given
<1>7. CheckMandatoryMatches(table, matches) = CheckMandatoryMatches(table, pi.matches)
  BY <1>6, SameTypesAreAsMandatory
<1>8. MatchesMeaning(others) = MatchesMeaning(pi.matches)
  BY <1>6, SameMatchesMeanTheSame
<1>9. /\ ir.kind = "table_entry" /\ ir.table = table.name /\ ir.matches = matches
      /\ ~key => ir.action = action
  <2>1. CASE key
    BY <1>4, <2>1, MeaningOfKey
  <2>2. CASE ~key
    BY <1>4, <2>2, PartsOfEntry
  <2> QED
    BY <2>1, <2>2
<1>10. back = Translated(opts, ir, table, pi.table, others, PiActions(info, opts, table, ir.action))
  BY <1>3, <1>9, TableEntryTranslations DEF back, others
<1>11. CASE key
  <2>1. back = KeyEntry(pi.table, others, priority)
    <3>1. ir = KeyEntry(table.name, matches, priority)
      BY <1>4, <1>11
    <3>2. /\ Usable(table, opts) /\ CheckMandatoryMatches(table, matches) /\ PriorityOk(table, priority)
      BY <1>4, <1>7 DEF EntryPartsOk
    <3> QED
      BY <1>6, <1>10, <1>11, <3>1, <3>2, TranslatedKey
  <2>2. MeaningUnder(opts, back) = <<pi.table, MatchesMeaning(pi.matches), priority>>
    BY <1>8, <1>11, <2>1, MeaningOfKey
  <2>3. MeaningUnder(opts, pi) = <<pi.table, MatchesMeaning(pi.matches), priority>>
    <3>1. MeaningUnder(opts, Entry(pi.table, pi.matches, priority, metadata, pi.action, meter, data, counter))
            = EntryMeaning(opts, pi.table, MatchesMeaning(pi.matches), priority, metadata,
                           ActionsMeaning(pi.action), meter, data, counter)
      BY MeaningOfEntryUnder
    <3>2. MeaningUnder(opts, pi) = EntryMeaning(opts, pi.table, MatchesMeaning(pi.matches), priority, metadata,
                           ActionsMeaning(pi.action), meter, data, counter)
      BY <1>1, <3>1, Zenon
    <3> QED
      BY <1>11, <3>2 DEF EntryMeaning
  <2> QED
    BY <1>9, <2>1, <2>2, <2>3, EntriesAreNoErrors DEF ir, back, KeyEntry
<1>12. CASE ~key
  <2>1. ActionTypeOk(table, pi.action) /\ OptionalOk(action)
    BY <1>4, <1>12 DEF EntryPartsOk
  <2>2. /\ ActionTypeOk(table, action) /\ OptionalOk(again)
        /\ ActionsMeaning(again) = ActionsMeaning(pi.action)
    <3> DEFINE given == pi.action
    <3>1. AreActions("pi", given) /\ ActionTypeOk(table, given) /\ OptionalOk(IrActions(info, opts, table, given))
      BY <1>5, <2>1 DEF action
    <3> HIDE DEF given
    <3>2. LET sent == IrActions(info, opts, table, given)
              back2 == PiActions(info, opts, table, sent)
          IN  /\ ActionTypeOk(table, sent) /\ OptionalOk(back2)
              /\ ActionsMeaning(back2) = ActionsMeaning(given)
      BY <1>3, <3>1, PiActionsAreSentAgain
    <3> QED
      BY <3>2 DEF action, again, given
  <2>3. back = Entry(pi.table, others, priority, metadata, again, meter, data, counter)
    <3>1. EntryPartsOk(opts, table, matches, priority, action, again, meter, data, counter)
      BY <1>4, <1>7, <1>12, <2>2 DEF EntryPartsOk
    <3>2. Translated(opts, Entry(table.name, matches, priority, metadata, action, meter, data, counter),
                     table, pi.table, others, again) =
            EntryOrError(opts, table, pi.table, matches, others, priority, metadata, action, again,
                         meter, data, counter)
      BY TranslatedEntry
    <3>3. back = Translated(opts, Entry(table.name, matches, priority, metadata, action, meter, data, counter),
                            table, pi.table, others, again)
      BY <1>4, <1>9, <1>10, <1>12 DEF again
    <3> QED
      BY <1>6, <1>12, <3>1, <3>2, <3>3 DEF EntryOrError
  <2>4. MeaningUnder(opts, back) =
          Entry(pi.table, MatchesMeaning(pi.matches), priority, metadata, ActionsMeaning(again),
                meter, data, counter)
    BY <1>8, <1>12, <2>3, MeaningOfEntryUnder DEF EntryMeaning
  <2>5. MeaningUnder(opts, pi) =
          Entry(pi.table, MatchesMeaning(pi.matches), priority, metadata, ActionsMeaning(pi.action),
                meter, data, counter)
    <3>1. MeaningUnder(opts, Entry(pi.table, pi.matches, priority, metadata, pi.action, meter, data, counter)) =
            Entry(pi.table, MatchesMeaning(pi.matches), priority, metadata, ActionsMeaning(pi.action),
                  meter, data, counter)
      BY <1>12, MeaningOfEntryUnder DEF EntryMeaning
    <3> QED
      BY <1>1, <3>1, Zenon
  <2> QED
    BY <1>9, <2>2, <2>3, <2>4, <2>5, EntriesAreNoErrors DEF ir, back
<1> QED
  BY <1>11, <1>12 DEF ir, back

(* Entries of the packet replication engine                                 *)

OnlyGroup(entry) == [entry EXCEPT !.replicas = << >>]

OnlyGroupToPi(entry) == [entry EXCEPT !.replicas = << >>, !.metadata = ""]

IsGroup(e) == e.kind = "multicast_group_entry" /\ IsRecord(e, GroupFields)

IsSession(e) == e.kind = "clone_session_entry" /\ IsRecord(e, SessionFields)

LEMMA KeysOfGroups ==
  ASSUME ErrorsAreNoMessages, NEW e, IsGroup(e)
  PROVE  /\ OnlyGroup(e) # Refused /\ IsGroup(OnlyGroup(e)) /\ OnlyGroup(e).group_id = e.group_id
         /\ OnlyGroupToPi(e) # Refused /\ IsGroup(OnlyGroupToPi(e)) /\ OnlyGroupToPi(e).group_id = e.group_id
         /\ e # Refused /\ WithMeaning(e) = e /\ Key(e) = <<e.group_id>>
<1>1. e = [f \in GroupFields |-> e[f]]
  BY DEF IsGroup, IsRecord
<1>2. /\ OnlyGroup(e) = [f \in GroupFields |-> OnlyGroup(e)[f]]
      /\ OnlyGroup(e).kind = e.kind /\ OnlyGroup(e).group_id = e.group_id
  BY <1>1 DEF OnlyGroup, GroupFields
<1>3. /\ OnlyGroupToPi(e) = [f \in GroupFields |-> OnlyGroupToPi(e)[f]]
      /\ OnlyGroupToPi(e).kind = e.kind /\ OnlyGroupToPi(e).group_id = e.group_id
  BY <1>1 DEF OnlyGroupToPi, GroupFields
<1>4. IsGroup(OnlyGroup(e)) /\ IsGroup(OnlyGroupToPi(e))
  BY <1>2, <1>3 DEF IsGroup, IsRecord
<1>5. WithMeaning(e) = e /\ Key(e) = <<e.group_id>>
  BY DEF WithMeaning, Key, IsGroup
<1> QED
  BY <1>2, <1>3, <1>4, <1>5, RecordsAreNoErrors DEF IsGroup

LEMMA KeysOfSessions ==
  ASSUME ErrorsAreNoMessages, NEW e, IsSession(e)
  PROVE  /\ SessionKey(e) # Refused /\ IsSession(SessionKey(e)) /\ SessionKey(e).session_id = e.session_id
         /\ e # Refused /\ WithMeaning(e) = e /\ Key(e) = <<e.session_id>>
<1>1. e = [f \in SessionFields |-> e[f]]
  BY DEF IsSession, IsRecord
<1>2. /\ SessionKey(e) = [f \in SessionFields |-> SessionKey(e)[f]]
      /\ SessionKey(e).kind = e.kind /\ SessionKey(e).session_id = e.session_id
  BY <1>1 DEF SessionKey, SessionFields
<1>3. IsSession(SessionKey(e))
  BY <1>2 DEF IsSession, IsRecord
<1>4. WithMeaning(e) = e /\ Key(e) = <<e.session_id>>
  BY DEF WithMeaning, Key, IsSession
<1> QED
  BY <1>2, <1>3, <1>4, RecordsAreNoErrors DEF IsSession

LEMMA KindsOfEntities ==
  ASSUME NEW side, NEW e, IsEntity(side, e)
  PROVE  /\ e.kind = "table_entry" => IsTableEntry(side, e)
         /\ e.kind = "multicast_group_entry" => IsGroup(e) /\ IsReplicas(side, e.replicas)
         /\ e.kind = "clone_session_entry" => IsSession(e) /\ IsReplicas(side, e.replicas)
  BY DEF IsEntity, IsGroup, IsSession

LEMMA IrEntityComesBack ==
  ASSUME ErrorsAreNoMessages, NEW info, IsInfo(info), NEW opts, ~opts.allow_arbitrary_format,
         NEW ir, IsEntity("ir", ir), IrEntityToPi(info, opts, ir) # Refused
  PROVE  LET back == PiEntityToIr(info, opts, IrEntityToPi(info, opts, ir))
         IN  back # Refused /\ MeaningUnder(opts, back) = MeaningUnder(opts, ir)
<1> DEFINE pi   == IrEntityToPi(info, opts, ir)
           back == PiEntityToIr(info, opts, pi)
<1>1. CASE ir.kind = "table_entry"
  <2>1. pi = IrTableEntryToPi(info, opts, ir)
    BY <1>1 DEF IrEntityToPi
  <2>2. /\ pi.kind = "table_entry" /\ PiTableEntryToIr(info, opts, pi) # Refused
        /\ MeaningUnder(opts, PiTableEntryToIr(info, opts, pi)) = MeaningUnder(opts, ir)
    BY <1>1, <2>1, IrEntryComesBack, KindsOfEntities
  <2> QED
    BY <2>2 DEF PiEntityToIr
<1>2. CASE ir.kind = "multicast_group_entry"
  <2>1. IsGroup(ir) /\ IsReplicas("ir", ir.replicas)
    BY <1>2, KindsOfEntities
  <2>2. pi = IrMulticastGroupEntryToPi(opts, ir) /\ pi # Refused
    BY <1>2 DEF IrEntityToPi
  <2> HIDE DEF pi
  <2>3. CASE opts.key_only
    <3>1. pi = OnlyGroupToPi(ir)
      BY <2>2, <2>3 DEF IrMulticastGroupEntryToPi, OnlyGroupToPi
    <3>2. IsGroup(pi) /\ pi.group_id = ir.group_id
      BY <2>1, <3>1, KeysOfGroups
    <3>3. back = OnlyGroup(pi)
      BY <2>3, <3>2 DEF PiEntityToIr, PiMulticastGroupEntryToIr, OnlyGroup, IsGroup
    <3>4. IsGroup(back) /\ back # Refused /\ back.group_id = ir.group_id
      BY <3>2, <3>3, KeysOfGroups
    <3> HIDE DEF back
    <3>5. MeaningUnder(opts, back) = <<ir.group_id>> /\ MeaningUnder(opts, ir) = <<ir.group_id>>
      BY <2>1, <2>3, <3>4, KeysOfGroups DEF MeaningUnder
    <3> QED
      BY <3>4, <3>5 DEF back, pi
  <2>4. CASE ~opts.key_only
    <3>1. pi = ir /\ ReplicasUnique(ir.replicas)
      BY <2>2, <2>4 DEF IrMulticastGroupEntryToPi
    <3>2. back = ir
      BY <1>2, <2>1, <2>4, <3>1 DEF PiEntityToIr, PiMulticastGroupEntryToIr, IsReplicas
    <3> QED
      BY <2>1, <3>2, KeysOfGroups DEF pi
  <2> QED
    BY <2>3, <2>4
<1>3. CASE ir.kind = "clone_session_entry"
  <2>1. IsSession(ir) /\ IsReplicas("ir", ir.replicas)
    BY <1>3, KindsOfEntities
  <2>2. pi = IrCloneSessionEntryToPi(opts, ir)
    BY <1>3 DEF IrEntityToPi
  <2> HIDE DEF pi
  <2>3. CASE opts.key_only
    <3>1. pi = SessionKey(ir)
      BY <2>2, <2>3 DEF IrCloneSessionEntryToPi
    <3>2. IsSession(pi) /\ pi.session_id = ir.session_id
      BY <2>1, <3>1, KeysOfSessions
    <3>3. back = SessionKey(pi)
      BY <2>3, <3>2 DEF PiEntityToIr, PiCloneSessionEntryToIr, IsSession
    <3>4. IsSession(back) /\ back # Refused /\ back.session_id = ir.session_id
      BY <3>2, <3>3, KeysOfSessions
    <3> HIDE DEF back
    <3>5. MeaningUnder(opts, back) = <<ir.session_id>> /\ MeaningUnder(opts, ir) = <<ir.session_id>>
      BY <2>1, <2>3, <3>4, KeysOfSessions DEF MeaningUnder
    <3> QED
      BY <3>4, <3>5 DEF back, pi
  <2>4. CASE ~opts.key_only
    <3>1. pi = ir
      BY <2>2, <2>4 DEF IrCloneSessionEntryToPi
    <3>2. back = ir
      BY <1>3, <2>1, <2>4, <3>1 DEF PiEntityToIr, PiCloneSessionEntryToIr, IsReplicas
    <3> QED
      BY <2>1, <3>2, KeysOfSessions DEF pi
  <2> QED
    BY <2>3, <2>4
<1>4. CASE ir.kind \notin {"table_entry", "multicast_group_entry", "clone_session_entry"}
  BY <1>4 DEF IrEntityToPi
<1> QED
  BY <1>1, <1>2, <1>3, <1>4

LEMMA PiEntityIsSentAgain ==
  ASSUME ErrorsAreNoMessages, NEW info, IsInfo(info), NEW opts,
         \A i \in DOMAIN info.tables_by_id : HasWholeAddresses(info.tables_by_id[i]),
         NEW pi, IsEntity("pi", pi), HasPrefixLengths(pi), PiEntityToIr(info, opts, pi) # Refused
  PROVE  LET again == IrEntityToPi(info, opts, PiEntityToIr(info, opts, pi))
         IN  again # Refused /\ MeaningUnder(opts, again) = MeaningUnder(opts, pi)
<1> DEFINE ir    == PiEntityToIr(info, opts, pi)
           again == IrEntityToPi(info, opts, ir)
<1>1. CASE pi.kind = "table_entry"
  <2>1. ir = PiTableEntryToIr(info, opts, pi)
    BY <1>1 DEF PiEntityToIr
  <2>2. /\ ir.kind = "table_entry" /\ IrTableEntryToPi(info, opts, ir) # Refused
        /\ MeaningUnder(opts, IrTableEntryToPi(info, opts, ir)) = MeaningUnder(opts, pi)
    BY <1>1, <2>1, PiEntryIsSentAgain, KindsOfEntities
  <2> QED
    BY <2>2 DEF IrEntityToPi
<1>2. CASE pi.kind = "multicast_group_entry"
  <2>1. IsGroup(pi)
    BY <1>2, KindsOfEntities
  <2>2. ir = PiMulticastGroupEntryToIr(opts, pi) /\ ir # Refused
    BY <1>2 DEF PiEntityToIr
  <2> HIDE DEF ir
  <2>3. CASE opts.key_only
    <3>1. ir = OnlyGroup(pi)
      BY <2>2, <2>3 DEF PiMulticastGroupEntryToIr, OnlyGroup
    <3>2. IsGroup(ir) /\ ir.group_id = pi.group_id
      BY <2>1, <3>1, KeysOfGroups
    <3>3. again = OnlyGroupToPi(ir)
      BY <2>3, <3>2 DEF IrEntityToPi, IrMulticastGroupEntryToPi, OnlyGroupToPi, IsGroup
    <3>4. IsGroup(again) /\ again # Refused /\ again.group_id = pi.group_id
      BY <3>2, <3>3, KeysOfGroups
    <3> HIDE DEF again
    <3>5. MeaningUnder(opts, again) = <<pi.group_id>> /\ MeaningUnder(opts, pi) = <<pi.group_id>>
      BY <2>1, <2>3, <3>4, KeysOfGroups DEF MeaningUnder
    <3> QED
      BY <3>4, <3>5 DEF again, ir
  <2>4. CASE ~opts.key_only
    <3>1. ir = pi /\ ReplicasUnique(pi.replicas)
      BY <2>2, <2>4 DEF PiMulticastGroupEntryToIr
    <3>2. again = pi
      BY <1>2, <2>4, <3>1 DEF IrEntityToPi, IrMulticastGroupEntryToPi
    <3> QED
      BY <2>1, <3>2, KeysOfGroups DEF ir
  <2> QED
    BY <2>3, <2>4
<1>3. CASE pi.kind = "clone_session_entry"
  <2>1. IsSession(pi)
    BY <1>3, KindsOfEntities
  <2>2. ir = PiCloneSessionEntryToIr(opts, pi) /\ ir # Refused
    BY <1>3 DEF PiEntityToIr
  <2> HIDE DEF ir
  <2>3. CASE opts.key_only
    <3>1. ir = SessionKey(pi)
      BY <2>2, <2>3 DEF PiCloneSessionEntryToIr
    <3>2. IsSession(ir) /\ ir.session_id = pi.session_id
      BY <2>1, <3>1, KeysOfSessions
    <3>3. again = SessionKey(ir)
      BY <2>3, <3>2 DEF IrEntityToPi, IrCloneSessionEntryToPi, IsSession
    <3>4. IsSession(again) /\ again # Refused /\ again.session_id = pi.session_id
      BY <3>2, <3>3, KeysOfSessions
    <3> HIDE DEF again
    <3>5. MeaningUnder(opts, again) = <<pi.session_id>> /\ MeaningUnder(opts, pi) = <<pi.session_id>>
      BY <2>1, <2>3, <3>4, KeysOfSessions DEF MeaningUnder
    <3> QED
      BY <3>4, <3>5 DEF again, ir
  <2>4. CASE ~opts.key_only
    <3>1. ir = pi
      BY <2>2, <2>4 DEF PiCloneSessionEntryToIr
    <3>2. again = pi
      BY <1>3, <2>4, <3>1 DEF IrEntityToPi, IrCloneSessionEntryToPi
    <3> QED
      BY <2>1, <3>2, KeysOfSessions DEF ir
  <2> QED
    BY <2>3, <2>4
<1>4. CASE pi.kind \notin {"table_entry", "multicast_group_entry", "clone_session_entry"}
  BY <1>4 DEF PiEntityToIr
<1> QED
  BY <1>1, <1>2, <1>3, <1>4

(* Lists of entities                                                        *)

LEMMA AllOfThem ==
  ASSUME ErrorsAreNoMessages, NEW results, results = [i \in DOMAIN results |-> results[i]]
  PROVE  All(results) # Refused <=> \A i \in DOMAIN results : results[i] # Refused
  BY FunctionsAreNoErrors DEF All, AllOk

LEMMA IrEntitiesAreTranslated ==
  ASSUME NEW info, NEW opts, NEW ir, IrEntitiesToPi(info, opts, ir) # Refused
  PROVE  LET pi == IrEntitiesToPi(info, opts, ir)
         IN  /\ pi = [i \in DOMAIN ir |-> IrEntityToPi(info, opts, ir[i])]
             /\ \A i \in DOMAIN ir : IrEntityToPi(info, opts, ir[i]) # Refused
  BY DEF IrEntitiesToPi, All, AllOk

LEMMA PiEntitiesAreTranslated ==
  ASSUME NEW info, NEW opts, NEW pi, PiEntitiesToIr(info, opts, pi) # Refused
  PROVE  LET ir == PiEntitiesToIr(info, opts, pi)
         IN  /\ ir = [i \in DOMAIN pi |-> PiEntityToIr(info, opts, pi[i])]
             /\ \A i \in DOMAIN pi : PiEntityToIr(info, opts, pi[i]) # Refused
  BY DEF PiEntitiesToIr, All, AllOk

LEMMA IrEntitiesComeBack ==
  ASSUME ErrorsAreNoMessages, NEW info, IsInfo(info), NEW opts, ~opts.allow_arbitrary_format,
         NEW ir, IsEntities("ir", ir), IrEntitiesToPi(info, opts, ir) # Refused
  PROVE  LET back == PiEntitiesToIr(info, opts, IrEntitiesToPi(info, opts, ir))
         IN  back # Refused /\ EntitiesMeaning(opts, back) = EntitiesMeaning(opts, ir)
<1> DEFINE pi      == IrEntitiesToPi(info, opts, ir)
           Back(i) == PiEntityToIr(info, opts, IrEntityToPi(info, opts, ir[i]))
           back    == PiEntitiesToIr(info, opts, pi)
<1>1. /\ pi = [i \in DOMAIN ir |-> IrEntityToPi(info, opts, ir[i])]
      /\ \A i \in DOMAIN ir : IrEntityToPi(info, opts, ir[i]) # Refused
  BY IrEntitiesAreTranslated
<1>2. \A i \in DOMAIN ir : IsEntity("ir", ir[i])
  BY DEF IsEntities, Elements
<1>3. \A i \in DOMAIN ir : Back(i) # Refused /\ MeaningUnder(opts, Back(i)) = MeaningUnder(opts, ir[i])
  BY <1>1, <1>2, IrEntityComesBack
<1> HIDE DEF pi
<1>4. [i \in DOMAIN pi |-> PiEntityToIr(info, opts, pi[i])] = [i \in DOMAIN ir |-> Back(i)]
  BY <1>1
<1> HIDE DEF Back
<1>5. back = [i \in DOMAIN ir |-> Back(i)] /\ back # Refused
  <2> DEFINE list == [i \in DOMAIN ir |-> Back(i)]
  <2>1. back = All(list)
    BY <1>4 DEF PiEntitiesToIr
  <2>2. AllOk(list) /\ list # Refused
    BY <1>3, FunctionsAreNoErrors DEF AllOk
  <2> QED
    BY <2>1, <2>2 DEF All
<1>6. EntitiesMeaning(opts, back) = EntitiesMeaning(opts, ir)
  BY <1>3, <1>5 DEF EntitiesMeaning
<1> QED
  BY <1>5, <1>6 DEF pi

LEMMA PiEntitiesAreSentAgain ==
  ASSUME ErrorsAreNoMessages, NEW info, IsInfo(info), NEW opts,
         \A i \in DOMAIN info.tables_by_id : HasWholeAddresses(info.tables_by_id[i]),
         NEW pi, IsEntities("pi", pi), \A e \in Elements(pi) : HasPrefixLengths(e),
         PiEntitiesToIr(info, opts, pi) # Refused
  PROVE  LET again == IrEntitiesToPi(info, opts, PiEntitiesToIr(info, opts, pi))
         IN  again # Refused /\ EntitiesMeaning(opts, again) = EntitiesMeaning(opts, pi)
<1> DEFINE ir       == PiEntitiesToIr(info, opts, pi)
           Again(i) == IrEntityToPi(info, opts, PiEntityToIr(info, opts, pi[i]))
           again    == IrEntitiesToPi(info, opts, ir)
<1>1. /\ ir = [i \in DOMAIN pi |-> PiEntityToIr(info, opts, pi[i])]
      /\ \A i \in DOMAIN pi : PiEntityToIr(info, opts, pi[i]) # Refused
  BY PiEntitiesAreTranslated
<1>2. \A i \in DOMAIN pi : IsEntity("pi", pi[i]) /\ HasPrefixLengths(pi[i])
  BY DEF IsEntities, Elements
<1>3. \A i \in DOMAIN pi : Again(i) # Refused /\ MeaningUnder(opts, Again(i)) = MeaningUnder(opts, pi[i])
  BY <1>1, <1>2, PiEntityIsSentAgain
<1> HIDE DEF ir
<1>4. [i \in DOMAIN ir |-> IrEntityToPi(info, opts, ir[i])] = [i \in DOMAIN pi |-> Again(i)]
  BY <1>1
<1> HIDE DEF Again
<1>5. again = [i \in DOMAIN pi |-> Again(i)] /\ again # Refused
  <2> DEFINE list == [i \in DOMAIN pi |-> Again(i)]
  <2>1. again = All(list)
    BY <1>4 DEF IrEntitiesToPi
  <2>2. AllOk(list) /\ list # Refused
    BY <1>3, FunctionsAreNoErrors DEF AllOk
  <2> QED
    BY <2>1, <2>2 DEF All
<1>6. EntitiesMeaning(opts, again) = EntitiesMeaning(opts, pi)
  BY <1>3, <1>5 DEF EntitiesMeaning
<1> QED
  BY <1>5, <1>6 DEF ir

------------------------------------------------------------------------------
(* Updates and write requests                                               *)

LEMMA UpdatesAreTheirParts ==
  ASSUME ErrorsAreNoMessages, NEW type, NEW entity
  PROVE  /\ Update(type, entity).type = type /\ Update(type, entity).entity = entity
         /\ Update(type, entity) # Refused
         /\ \A other : [Update(type, entity) EXCEPT !.entity = other] = Update(type, other)
<1>1. IsRecord(Update(type, entity), {"type", "entity"})
  BY DEF IsRecord, Update
<1> QED
  BY <1>1, RecordsAreNoErrors DEF Update

LEMMA UpdateTranslations ==
  ASSUME ErrorsAreNoMessages, NEW info, NEW opts, NEW type, NEW entity
  PROVE  /\ IrUpdateToPi(info, opts, Update(type, entity)) =
              IF type \notin UpdateTypes \/ IrEntityToPi(info, opts, entity) = Refused THEN Refused
              ELSE Update(type, IrEntityToPi(info, opts, entity))
         /\ PiUpdateToIr(info, opts, Update(type, entity)) =
              IF type = "UNSPECIFIED" \/ PiEntityToIr(info, opts, entity) = Refused THEN Refused
              ELSE Update(type, PiEntityToIr(info, opts, entity))
<1> DEFINE u == Update(type, entity)
<1>1. /\ u.type = type /\ u.entity = entity
      /\ \A other : [u EXCEPT !.entity = other] = Update(type, other)
  BY UpdatesAreTheirParts
<1> HIDE DEF u
<1>2. \A other : WithEntity(u, other) = IF other = Refused THEN Refused ELSE Update(type, other)
  BY <1>1 DEF WithEntity
<1> QED
  BY <1>1, <1>2 DEF IrUpdateToPi, PiUpdateToIr, u

IrUpdates(info, opts, updates) == [i \in DOMAIN updates |-> PiUpdateToIr(info, opts, updates[i])]

PiUpdates(info, opts, updates) == [i \in DOMAIN updates |-> IrUpdateToPi(info, opts, updates[i])]

LEMMA PartsOfUpdates ==
  ASSUME NEW side, NEW updates, IsUpdates(side, updates)
  PROVE  /\ IsSequence(updates)
         /\ \A i \in DOMAIN updates :
              /\ updates[i] = Update(updates[i].type, updates[i].entity)
              /\ updates[i].type \in UpdateTypes \cup {"UNSPECIFIED"} /\ IsEntity(side, updates[i].entity)
<1>1. \A i \in DOMAIN updates :
        /\ IsRecord(updates[i], {"type", "entity"}) /\ updates[i].type \in UpdateTypes \cup {"UNSPECIFIED"}
        /\ IsEntity(side, updates[i].entity)
  BY DEF IsUpdates, Elements
<1>2. \A i \in DOMAIN updates : updates[i] = Update(updates[i].type, updates[i].entity)
  BY <1>1 DEF IsRecord, Update
<1> QED
  BY <1>1, <1>2 DEF IsUpdates

LEMMA IrUpdatesComeBack ==
  ASSUME ErrorsAreNoMessages, NEW info, IsInfo(info), NEW opts, ~opts.allow_arbitrary_format,
         NEW ir, IsUpdates("ir", ir), NEW pi, pi = PiUpdates(info, opts, ir), AllOk(pi)
  PROVE  /\ IsSequence(pi) /\ Len(pi) = Len(ir) /\ AllOk(IrUpdates(info, opts, pi))
         /\ UpdatesMeaning(opts, IrUpdates(info, opts, pi)) = UpdatesMeaning(opts, ir)
<1> DEFINE type(i)   == ir[i].type
           entity(i) == ir[i].entity
           sent(i)   == IrEntityToPi(info, opts, entity(i))
           back(i)   == PiEntityToIr(info, opts, sent(i))
<1>1. /\ IsSequence(ir)
      /\ \A i \in DOMAIN ir : ir[i] = Update(type(i), entity(i)) /\ IsEntity("ir", entity(i))
  BY PartsOfUpdates
<1>2. pi = [i \in DOMAIN ir |-> IrUpdateToPi(info, opts, ir[i])] /\ DOMAIN pi = DOMAIN ir
  BY DEF PiUpdates
<1>3. \A i \in DOMAIN ir : pi[i] # Refused /\ pi[i] = IrUpdateToPi(info, opts, Update(type(i), entity(i)))
  BY <1>1, <1>2 DEF AllOk
<1>4. \A i \in DOMAIN ir : type(i) \in UpdateTypes /\ sent(i) # Refused /\ pi[i] = Update(type(i), sent(i))
  BY <1>3, UpdateTranslations
<1>5. \A i \in DOMAIN ir : back(i) # Refused /\ MeaningUnder(opts, back(i)) = MeaningUnder(opts, entity(i))
  BY <1>1, <1>4, IrEntityComesBack
<1> HIDE DEF back, sent
<1>6. \A i \in DOMAIN ir : PiUpdateToIr(info, opts, pi[i]) = Update(type(i), back(i))
  BY <1>4, <1>5, UpdateTranslations DEF back, UpdateTypes
<1>7. IsSequence(pi) /\ Len(pi) = Len(ir)
  BY <1>1, <1>2, SequenceOfTheSameLength
<1> DEFINE again == IrUpdates(info, opts, pi)
<1>8. DOMAIN again = DOMAIN ir /\ \A i \in DOMAIN ir : again[i] = Update(type(i), back(i))
  BY <1>2, <1>6 DEF IrUpdates
<1> HIDE DEF again
<1>9. \A i \in DOMAIN ir : /\ again[i] # Refused /\ again[i].type = type(i) /\ again[i].entity = back(i)
  BY <1>8, UpdatesAreTheirParts
<1>10. AllOk(again) /\ UpdatesMeaning(opts, again) = UpdatesMeaning(opts, ir)
  BY <1>5, <1>8, <1>9 DEF AllOk, UpdatesMeaning
<1> QED
  BY <1>7, <1>10 DEF again

LEMMA PiUpdatesAreSentAgain ==
  ASSUME ErrorsAreNoMessages, NEW info, IsInfo(info), NEW opts,
         \A i \in DOMAIN info.tables_by_id : HasWholeAddresses(info.tables_by_id[i]),
         NEW pi, IsUpdates("pi", pi), \A u \in Elements(pi) : HasPrefixLengths(u.entity),
         NEW ir, ir = IrUpdates(info, opts, pi), AllOk(ir)
  PROVE  /\ IsSequence(ir) /\ Len(ir) = Len(pi) /\ AllOk(PiUpdates(info, opts, ir))
         /\ UpdatesMeaning(opts, PiUpdates(info, opts, ir)) = UpdatesMeaning(opts, pi)
<1> DEFINE type(i)   == pi[i].type
           entity(i) == pi[i].entity
           read(i)   == PiEntityToIr(info, opts, entity(i))
           sent(i)   == IrEntityToPi(info, opts, read(i))
<1>1. /\ IsSequence(pi)
      /\ \A i \in DOMAIN pi :
           /\ pi[i] = Update(type(i), entity(i)) /\ IsEntity("pi", entity(i))
           /\ type(i) \in UpdateTypes \cup {"UNSPECIFIED"}
  BY PartsOfUpdates
<1>2. ir = [i \in DOMAIN pi |-> PiUpdateToIr(info, opts, pi[i])] /\ DOMAIN ir = DOMAIN pi
  BY DEF IrUpdates
<1>3. \A i \in DOMAIN pi : ir[i] # Refused /\ ir[i] = PiUpdateToIr(info, opts, Update(type(i), entity(i)))
  BY <1>1, <1>2 DEF AllOk
<1>4. \A i \in DOMAIN pi : type(i) # "UNSPECIFIED" /\ read(i) # Refused /\ ir[i] = Update(type(i), read(i))
  BY <1>3, UpdateTranslations
<1>a. \A i \in DOMAIN pi : HasPrefixLengths(entity(i))
  BY DEF Elements
<1>5. \A i \in DOMAIN pi : sent(i) # Refused /\ MeaningUnder(opts, sent(i)) = MeaningUnder(opts, entity(i))
  BY <1>1, <1>4, <1>a, PiEntityIsSentAgain
<1> HIDE DEF read, sent
<1>6. \A i \in DOMAIN pi : IrUpdateToPi(info, opts, ir[i]) = Update(type(i), sent(i))
  BY <1>1, <1>4, <1>5, UpdateTranslations DEF sent
<1>7. IsSequence(ir) /\ Len(ir) = Len(pi)
  BY <1>1, <1>2, SequenceOfTheSameLength
<1> DEFINE again == PiUpdates(info, opts, ir)
<1>8. DOMAIN again = DOMAIN pi /\ \A i \in DOMAIN pi : again[i] = Update(type(i), sent(i))
  BY <1>2, <1>6 DEF PiUpdates
<1> HIDE DEF again
<1>9. \A i \in DOMAIN pi : /\ again[i] # Refused /\ again[i].type = type(i) /\ again[i].entity = sent(i)
  BY <1>8, UpdatesAreTheirParts
<1>10. AllOk(again) /\ UpdatesMeaning(opts, again) = UpdatesMeaning(opts, pi)
  BY <1>5, <1>8, <1>9 DEF AllOk, UpdatesMeaning
<1> QED
  BY <1>7, <1>10 DEF again

AreUpdates(updates) == \A i \in DOMAIN updates : updates[i] = Update(updates[i].type, updates[i].entity)

LEMMA TranslatedUpdates ==
  ASSUME ErrorsAreNoMessages, NEW info, NEW opts, NEW updates, AreUpdates(updates),
         NEW others, others \in {IrUpdates(info, opts, updates), PiUpdates(info, opts, updates)}, AllOk(others)
  PROVE  DOMAIN others = DOMAIN updates /\ AreUpdates(others)
<1>1. CASE others = IrUpdates(info, opts, updates)
  <2>1. /\ DOMAIN others = DOMAIN updates
        /\ \A i \in DOMAIN updates : others[i] = PiUpdateToIr(info, opts, updates[i]) /\ others[i] # Refused
    BY <1>1 DEF IrUpdates, AllOk
  <2>2. \A i \in DOMAIN updates :
          others[i] = Update(updates[i].type, PiEntityToIr(info, opts, updates[i].entity))
    BY <2>1, UpdateTranslations DEF AreUpdates
  <2> QED
    BY <2>1, <2>2, UpdatesAreTheirParts DEF AreUpdates
<1>2. CASE others = PiUpdates(info, opts, updates)
  <2>1. /\ DOMAIN others = DOMAIN updates
        /\ \A i \in DOMAIN updates : others[i] = IrUpdateToPi(info, opts, updates[i]) /\ others[i] # Refused
    BY <1>2 DEF PiUpdates, AllOk
  <2>2. \A i \in DOMAIN updates :
          others[i] = Update(updates[i].type, IrEntityToPi(info, opts, updates[i].entity))
    BY <2>1, UpdateTranslations DEF AreUpdates
  <2> QED
    BY <2>1, <2>2, UpdatesAreTheirParts DEF AreUpdates
<1> QED
  BY <1>1, <1>2

IrWrite(device, election, updates) ==
  [device_id |-> device, election_id |-> election, updates |-> updates]

PiWrite(role, atomicity, device, election, updates) ==
  [role_id |-> role, atomicity |-> atomicity,
   device_id |-> device, election_id |-> election, updates |-> updates]

LEMMA WritesAreTheirParts ==
  ASSUME ErrorsAreNoMessages, NEW message
  PROVE  /\ IsWrite("ir", message) =>
              message = IrWrite(message.device_id, message.election_id, message.updates)
         /\ IsWrite("pi", message) =>
              message = PiWrite(message.role_id, message.atomicity, message.device_id, message.election_id,
                                message.updates)
<1>1. WriteFields("ir") = {"device_id", "election_id", "updates"}
      /\ WriteFields("pi") = {"device_id", "election_id", "updates", "role_id", "atomicity"}
  BY DEF WriteFields
<1>2. ASSUME IsWrite("ir", message)
      PROVE  message = IrWrite(message.device_id, message.election_id, message.updates)
  BY <1>1, <1>2 DEF IsWrite, IsRecord, IrWrite
<1>3. ASSUME IsWrite("pi", message)
      PROVE  message = PiWrite(message.role_id, message.atomicity, message.device_id, message.election_id,
                               message.updates)
  BY <1>1, <1>3 DEF IsWrite, IsRecord, PiWrite
<1> QED
  BY <1>2, <1>3

LEMMA PartsOfWrites ==
  ASSUME ErrorsAreNoMessages, NEW role, NEW atomicity, NEW device, NEW election, NEW updates
  PROVE  LET ir == IrWrite(device, election, updates)
             pi == PiWrite(role, atomicity, device, election, updates)
         IN  /\ ir.device_id = device /\ ir.election_id = election /\ ir.updates = updates
             /\ pi.device_id = device /\ pi.election_id = election /\ pi.updates = updates
             /\ pi.role_id = role /\ pi.atomicity = atomicity
             /\ ir \notin {Refused, None} /\ pi \notin {Refused, None}
<1>1. /\ IsRecord(IrWrite(device, election, updates), {"device_id", "election_id", "updates"})
      /\ IsRecord(PiWrite(role, atomicity, device, election, updates),
                  {"role_id", "atomicity", "device_id", "election_id", "updates"})
  BY DEF IrWrite, PiWrite, IsRecord
<1> QED
  BY <1>1, RecordsAreNoErrors DEF IrWrite, PiWrite

LEMMA WriteTranslations ==
  ASSUME ErrorsAreNoMessages, NEW info, NEW opts,
         NEW role, NEW atomicity, NEW device, NEW election, NEW updates
  PROVE  /\ IrWriteRequestToPi(info, opts, IrWrite(device, election, updates)) =
              IF AllOk(PiUpdates(info, opts, updates))
              THEN PiWrite(0, "CONTINUE_ON_ERROR", device, election, PiUpdates(info, opts, updates))
              ELSE Refused
         /\ PiWriteRequestToIr(info, opts, PiWrite(role, atomicity, device, election, updates)) =
              IF role = 0 /\ atomicity = "CONTINUE_ON_ERROR" /\ AllOk(IrUpdates(info, opts, updates))
              THEN IrWrite(device, election, IrUpdates(info, opts, updates))
              ELSE Refused
<1> DEFINE ir == IrWrite(device, election, updates)
           pi == PiWrite(role, atomicity, device, election, updates)
           sent == PiUpdates(info, opts, updates)
           read == IrUpdates(info, opts, updates)
<1>1. /\ ir.device_id = device /\ ir.election_id = election /\ ir.updates = updates
      /\ pi.device_id = device /\ pi.election_id = election /\ pi.updates = updates
      /\ pi.role_id = role /\ pi.atomicity = atomicity
  BY PartsOfWrites
<1>2. sent # Refused /\ read # Refused
  BY FunctionsAreNoErrors DEF PiUpdates, IrUpdates
<1> HIDE DEF ir, pi
<1>3. IrWriteRequestToPi(info, opts, ir) = PiRequest(ir, All(sent))
  BY <1>1 DEF IrWriteRequestToPi, PiUpdates
<1>4. PiWriteRequestToIr(info, opts, pi) =
        IF role # 0 \/ atomicity # "CONTINUE_ON_ERROR" THEN Refused ELSE IrRequest(pi, All(read))
  BY <1>1 DEF PiWriteRequestToIr, IrUpdates
<1> HIDE DEF sent, read
<1>5. PiRequest(ir, All(sent)) =
        IF AllOk(sent) THEN PiWrite(0, "CONTINUE_ON_ERROR", device, election, sent) ELSE Refused
  BY <1>1, <1>2 DEF PiRequest, All, PiWrite
<1>6. IrRequest(pi, All(read)) = IF AllOk(read) THEN IrWrite(device, election, read) ELSE Refused
  BY <1>1, <1>2 DEF IrRequest, All, IrWrite
<1> QED
  BY <1>3, <1>4, <1>5, <1>6 DEF sent, read, ir, pi

LEMMA MeaningOfWrites ==
  ASSUME NEW opts, NEW role, NEW atomicity, NEW device, NEW election, NEW updates
  PROVE  /\ WriteMeaning(opts, IrWrite(device, election, updates))
              = IrWrite(device, election, UpdatesMeaning(opts, updates))
         /\ WriteMeaning(opts, PiWrite(role, atomicity, device, election, updates))
              = PiWrite(role, atomicity, device, election, UpdatesMeaning(opts, updates))
<1> DEFINE meaning == UpdatesMeaning(opts, updates)
<1>1. IrWrite(device, election, updates).updates = updates
      /\ PiWrite(role, atomicity, device, election, updates).updates = updates
  BY DEF IrWrite, PiWrite
<1> HIDE DEF meaning
<1>2. [IrWrite(device, election, updates) EXCEPT !.updates = meaning] = IrWrite(device, election, meaning)
  BY DEF IrWrite
<1>3. [PiWrite(role, atomicity, device, election, updates) EXCEPT !.updates = meaning]
        = PiWrite(role, atomicity, device, election, meaning)
  BY DEF PiWrite
<1> QED
  BY <1>1, <1>2, <1>3 DEF WriteMeaning, meaning

LEMMA IrWriteComesBack ==
  ASSUME ErrorsAreNoMessages, NEW info, IsInfo(info), NEW opts, ~opts.allow_arbitrary_format,
         NEW ir, IsWrite("ir", ir), IrWriteRequestToPi(info, opts, ir) # Refused
  PROVE  LET back == PiWriteRequestToIr(info, opts, IrWriteRequestToPi(info, opts, ir))
         IN  /\ back # Refused /\ AreUpdates(back.updates)
             /\ WriteMeaning(opts, back) = WriteMeaning(opts, ir)
<1> DEFINE updates == ir.updates
           sent    == PiUpdates(info, opts, updates)
           read    == IrUpdates(info, opts, sent)
           back    == PiWriteRequestToIr(info, opts, IrWriteRequestToPi(info, opts, ir))
<1>1. ir = IrWrite(ir.device_id, ir.election_id, updates) /\ IsUpdates("ir", updates)
  BY WritesAreTheirParts DEF IsWrite
<1>2. /\ AllOk(sent)
      /\ IrWriteRequestToPi(info, opts, ir) = PiWrite(0, "CONTINUE_ON_ERROR", ir.device_id, ir.election_id, sent)
  BY <1>1, WriteTranslations
<1> HIDE DEF updates
<1>3. AllOk(read) /\ UpdatesMeaning(opts, read) = UpdatesMeaning(opts, updates)
  BY <1>1, <1>2, IrUpdatesComeBack
<1>4. AreUpdates(read)
  <2>1. AreUpdates(updates)
    BY <1>1, PartsOfUpdates DEF AreUpdates
  <2>2. AreUpdates(sent)
    BY <1>2, <2>1, TranslatedUpdates
  <2> QED
    BY <1>3, <2>2, TranslatedUpdates
<1>5. back = IrWrite(ir.device_id, ir.election_id, read)
  BY <1>2, <1>3, WriteTranslations
<1>6. back # Refused /\ back.updates = read
  BY <1>5, PartsOfWrites
<1> HIDE DEF back, read
<1>7. WriteMeaning(opts, back) = IrWrite(ir.device_id, ir.election_id, UpdatesMeaning(opts, read))
  BY <1>5, MeaningOfWrites
<1>8. WriteMeaning(opts, IrWrite(ir.device_id, ir.election_id, updates))
        = IrWrite(ir.device_id, ir.election_id, UpdatesMeaning(opts, updates))
  BY MeaningOfWrites
<1>9. WriteMeaning(opts, back) = WriteMeaning(opts, ir)
  BY <1>1, <1>3, <1>7, <1>8, Zenon
<1> QED
  BY <1>4, <1>6, <1>9 DEF back

LEMMA PiWriteIsSentAgain ==
  ASSUME ErrorsAreNoMessages, NEW info, IsInfo(info), NEW opts,
         \A i \in DOMAIN info.tables_by_id : HasWholeAddresses(info.tables_by_id[i]),
         NEW pi, IsWrite("pi", pi), \A u \in Elements(pi.updates) : HasPrefixLengths(u.entity),
         PiWriteRequestToIr(info, opts, pi) # Refused
  PROVE  LET again == IrWriteRequestToPi(info, opts, PiWriteRequestToIr(info, opts, pi))
         IN  /\ again # Refused /\ AreUpdates(again.updates)
             /\ WriteMeaning(opts, again) = WriteMeaning(opts, pi)
<1> DEFINE updates == pi.updates
           read    == IrUpdates(info, opts, updates)
           sent    == PiUpdates(info, opts, read)
           again   == IrWriteRequestToPi(info, opts, PiWriteRequestToIr(info, opts, pi))
<1>1. /\ pi = PiWrite(pi.role_id, pi.atomicity, pi.device_id, pi.election_id, updates)
      /\ IsUpdates("pi", updates) /\ \A u \in Elements(updates) : HasPrefixLengths(u.entity)
  BY WritesAreTheirParts DEF IsWrite
<1>2. /\ AllOk(read) /\ pi.role_id = 0 /\ pi.atomicity = "CONTINUE_ON_ERROR"
      /\ PiWriteRequestToIr(info, opts, pi) = IrWrite(pi.device_id, pi.election_id, read)
  BY <1>1, WriteTranslations
<1> HIDE DEF updates
<1>3. AllOk(sent) /\ UpdatesMeaning(opts, sent) = UpdatesMeaning(opts, updates)
  BY <1>1, <1>2, PiUpdatesAreSentAgain
<1>4. AreUpdates(sent)
  <2>1. AreUpdates(updates)
    BY <1>1, PartsOfUpdates DEF AreUpdates
  <2>2. AreUpdates(read)
    BY <1>2, <2>1, TranslatedUpdates
  <2> QED
    BY <1>3, <2>2, TranslatedUpdates
<1>5. again = PiWrite(pi.role_id, pi.atomicity, pi.device_id, pi.election_id, sent)
  BY <1>2, <1>3, WriteTranslations
<1>6. again # Refused /\ again.updates = sent
  BY <1>5, PartsOfWrites
<1> HIDE DEF again, sent
<1>7. WriteMeaning(opts, again)
        = PiWrite(pi.role_id, pi.atomicity, pi.device_id, pi.election_id, UpdatesMeaning(opts, sent))
  BY <1>5, MeaningOfWrites
<1>8. WriteMeaning(opts, PiWrite(pi.role_id, pi.atomicity, pi.device_id, pi.election_id, updates))
        = PiWrite(pi.role_id, pi.atomicity, pi.device_id, pi.election_id, UpdatesMeaning(opts, updates))
  BY MeaningOfWrites
<1>9. WriteMeaning(opts, again) = WriteMeaning(opts, pi)
  BY <1>1, <1>3, <1>7, <1>8, Zenon
<1> QED
  BY <1>4, <1>6, <1>9 DEF again

------------------------------------------------------------------------------
(* Reads                                                                   *)

IrRead(device, counters, meters) ==
  [device_id |-> device, read_counter_data |-> counters, read_meter_configs |-> meters]

(* The one entity that a read asks for.                                     *)
Asked(kind_, wildcard, counter, meter) ==
  [kind |-> kind_, wildcard |-> wildcard, counter_data |-> counter, meter_config |-> meter]

PiRead(device, entities) == [device_id |-> device, entities |-> entities]

Wanted(want) == IF want THEN {"empty"} ELSE {}

IsGiven(part) == part # {}

LEMMA PartsOfReads ==
  ASSUME ErrorsAreNoMessages, NEW device, NEW counters, NEW meters, NEW entities, NEW what, NEW wildcard
  PROVE  /\ IrRead(device, counters, meters).device_id = device
         /\ IrRead(device, counters, meters).read_counter_data = counters
         /\ IrRead(device, counters, meters).read_meter_configs = meters
         /\ IrRead(device, counters, meters) \notin {Refused, None}
         /\ PiRead(device, entities).device_id = device /\ PiRead(device, entities).entities = entities
         /\ PiRead(device, entities) \notin {Refused, None}
         /\ Asked(what, wildcard, counters, meters).kind = what
         /\ Asked(what, wildcard, counters, meters).wildcard = wildcard
         /\ Asked(what, wildcard, counters, meters).counter_data = counters
         /\ Asked(what, wildcard, counters, meters).meter_config = meters
<1>1. IsRecord(IrRead(device, counters, meters), {"device_id", "read_counter_data", "read_meter_configs"})
  BY DEF IsRecord, IrRead
<1>2. IsRecord(PiRead(device, entities), {"device_id", "entities"})
  BY DEF IsRecord, PiRead
<1>3. /\ IrRead(device, counters, meters) \notin {Refused, None}
      /\ PiRead(device, entities) \notin {Refused, None}
  BY <1>1, <1>2, RecordsAreNoErrors
<1> QED
  BY <1>3 DEF IrRead, PiRead, Asked

LEMMA ReadsAreTheirParts ==
  ASSUME NEW message
  PROVE  /\ IsIrRead(message) =>
              message = IrRead(message.device_id, message.read_counter_data, message.read_meter_configs)
         /\ IsPiRead(message) => message = PiRead(message.device_id, message.entities)
<1>1. ASSUME IsIrRead(message)
      PROVE  message = IrRead(message.device_id, message.read_counter_data, message.read_meter_configs)
  <2>1. message = [f \in {"device_id", "read_counter_data", "read_meter_configs"} |-> message[f]]
    BY <1>1 DEF IsIrRead, IsRecord
  <2> QED
    BY <2>1 DEF IrRead
<1>2. ASSUME IsPiRead(message) PROVE message = PiRead(message.device_id, message.entities)
  <2>1. message = [f \in {"device_id", "entities"} |-> message[f]]
    BY <1>2 DEF IsPiRead, IsRecord
  <2> QED
    BY <2>1 DEF PiRead
<1> QED
  BY <1>1, <1>2

LEMMA ReadTranslations ==
  ASSUME NEW device, NEW counters, NEW meters, NEW entities
  PROVE  /\ IrReadRequestToPi(IrRead(device, counters, meters)) =
              IF device = 0 THEN Refused
              ELSE PiRead(device, <<Asked("table_entry", TRUE, Wanted(counters), Wanted(meters))>>)
         /\ PiReadRequestToIr(PiRead(device, entities)) =
              IF /\ device # 0 /\ Len(entities) = 1
                 /\ entities[1].kind = "table_entry" /\ entities[1].wildcard
                 /\ {"filled"} \cap (entities[1].counter_data \cup entities[1].meter_config) = {}
              THEN IrRead(device, IsGiven(entities[1].counter_data), IsGiven(entities[1].meter_config))
              ELSE Refused
  BY DEF IrReadRequestToPi, PiReadRequestToIr, IrRead, PiRead, Asked, Wanted, IsGiven

(* A read that is put on the wire is read as it was.                        *)
LEMMA IrReadComesBack ==
  ASSUME ErrorsAreNoMessages, NEW ir, IsIrRead(ir), IrReadRequestToPi(ir) # Refused
  PROVE  PiReadRequestToIr(IrReadRequestToPi(ir)) = ir
<1> DEFINE counters == ir.read_counter_data
           meters   == ir.read_meter_configs
           asked    == Asked("table_entry", TRUE, Wanted(counters), Wanted(meters))
           one      == <<asked>>
<1>1. ir = IrRead(ir.device_id, counters, meters)
  BY ReadsAreTheirParts
<1>2. counters \in BOOLEAN /\ meters \in BOOLEAN
  BY DEF IsIrRead
<1>3. ir.device_id # 0 /\ IrReadRequestToPi(ir) = PiRead(ir.device_id, one)
  BY <1>1, ReadTranslations
<1>4. Len(one) = 1 /\ one[1] = asked
  OBVIOUS
<1>5. /\ asked.kind = "table_entry" /\ asked.wildcard
      /\ asked.counter_data = Wanted(counters) /\ asked.meter_config = Wanted(meters)
  BY DEF Asked
<1>6. /\ {"filled"} \cap (Wanted(counters) \cup Wanted(meters)) = {}
      /\ IsGiven(Wanted(counters)) = counters /\ IsGiven(Wanted(meters)) = meters
  BY <1>2 DEF Wanted, IsGiven
<1> HIDE DEF one, asked
<1>7. PiReadRequestToIr(PiRead(ir.device_id, one)) = IrRead(ir.device_id, IsGiven(one[1].counter_data), IsGiven(one[1].meter_config))
  BY <1>3, <1>4, <1>5, <1>6, ReadTranslations
<1> QED
  BY <1>1, <1>3, <1>4, <1>5, <1>6, <1>7

(* A read that came over the wire is put there again as it was.             *)
LEMMA PiReadIsSentAgain ==
  ASSUME ErrorsAreNoMessages, NEW pi, IsPiRead(pi), PiReadRequestToIr(pi) # Refused
  PROVE  IrReadRequestToPi(PiReadRequestToIr(pi)) = pi
<1> DEFINE e        == pi.entities[1]
           counters == IsGiven(e.counter_data)
           meters   == IsGiven(e.meter_config)
           one      == <<Asked("table_entry", TRUE, Wanted(counters), Wanted(meters))>>
<1>1. pi = PiRead(pi.device_id, pi.entities)
  BY ReadsAreTheirParts
<1>2. /\ pi.device_id # 0 /\ Len(pi.entities) = 1 /\ e.kind = "table_entry" /\ e.wildcard
      /\ {"filled"} \cap (e.counter_data \cup e.meter_config) = {}
      /\ PiReadRequestToIr(pi) = IrRead(pi.device_id, counters, meters)
  BY <1>1, ReadTranslations
<1>3. IsSequence(pi.entities) /\ pi.entities = [i \in 1 .. 1 |-> pi.entities[i]]
  BY <1>2, PartsOfSequence DEF IsPiRead
<1>4. IsAsked(e)
  BY <1>2, <1>3 DEF IsPiRead, Elements
<1>5. e = Asked(e.kind, e.wildcard, e.counter_data, e.meter_config)
  <2>1. e = [f \in {"kind", "wildcard", "counter_data", "meter_config"} |-> e[f]]
    BY <1>4 DEF IsAsked, IsRecord
  <2> QED
    BY <2>1 DEF Asked
<1>6. e.counter_data = Wanted(counters) /\ e.meter_config = Wanted(meters)
  BY <1>2, <1>4 DEF IsAsked, Wanted, IsGiven
<1>7. e.wildcard = TRUE
  BY <1>2, <1>4 DEF IsAsked
<1>8. e = Asked("table_entry", TRUE, Wanted(counters), Wanted(meters))
  BY <1>2, <1>5, <1>6, <1>7
<1>9. pi.entities = one
  <2> HIDE DEF e, counters, meters
  <2>1. pi.entities[1] = Asked("table_entry", TRUE, Wanted(counters), Wanted(meters))
    BY <1>8 DEF e
  <2>2. one = [i \in 1 .. 1 |-> one[i]] /\ one[1] = Asked("table_entry", TRUE, Wanted(counters), Wanted(meters))
    OBVIOUS
  <2> HIDE DEF one, e, counters, meters
  <2>3. \A i \in 1 .. 1 : pi.entities[i] = one[i]
    <3>1. \A i \in 1 .. 1 : i = 1
      OBVIOUS
    <3>2. pi.entities[1] = one[1]
      BY <2>1, <2>2
    <3> QED
      BY <3>1, <3>2
  <2> QED
    BY <1>3, <2>2, <2>3
<1>10. IrReadRequestToPi(IrRead(pi.device_id, counters, meters)) = PiRead(pi.device_id, one)
  <2> HIDE DEF e, counters, meters
  <2> QED
    BY <1>2, ReadTranslations
<1> QED
  BY <1>1, <1>2, <1>9, <1>10

------------------------------------------------------------------------------
(* Packets                                                                 *)

LEMMA SequencesAreLists ==
  ASSUME NEW list, IsSequence(list), NEW values, Elements(list) \subseteq values
  PROVE  list \in Seq(values)
<1>1. list = [i \in 1 .. Len(list) |-> list[i]] /\ Len(list) \in Nat
  BY DEF IsSequence
<1>2. \A i \in 1 .. Len(list) : list[i] \in values
  BY <1>1 DEF Elements
<1>3. list \in [1 .. Len(list) -> values]
  BY <1>1, <1>2
<1> QED
  BY <1>1, <1>3, SeqDef

LEMMA ListsAreSequences ==
  ASSUME NEW values, NEW list \in Seq(values)
  PROVE  IsSequence(list) /\ Elements(list) \subseteq values /\ DOMAIN list = 1 .. Len(list)
<1>1. Len(list) \in Nat /\ list \in [1 .. Len(list) -> values] /\ DOMAIN list = 1 .. Len(list)
  BY LenProperties
<1>2. list = [i \in 1 .. Len(list) |-> list[i]]
  BY <1>1
<1> QED
  BY <1>1, <1>2 DEF IsSequence, Elements

LEMMA AppendedSequence ==
  ASSUME NEW list, IsSequence(list), NEW e
  PROVE  HasOneMore(Append(list, e), list, e)
<1> DEFINE values == Elements(list) \cup {e}
           longer == Append(list, e)
<1>1. list \in Seq(values)
  BY SequencesAreLists
<1>2. e \in values
  OBVIOUS
<1> HIDE DEF values
<1>3. /\ longer \in Seq(values) /\ Len(longer) = Len(list) + 1
      /\ \A i \in 1 .. Len(list) : longer[i] = list[i]
      /\ longer[Len(list) + 1] = e
  BY <1>1, <1>2, AppendProperties
<1>4. IsSequence(longer)
  BY <1>3, ListsAreSequences
<1> HIDE DEF longer
<1>5. /\ DOMAIN longer = 1 .. Len(list) + 1 /\ DOMAIN list = 1 .. Len(list) /\ Len(list) \in Nat
  BY <1>3, <1>4, PartsOfSequence
<1>6. \A i \in DOMAIN longer : i \in DOMAIN list \/ i = Len(list) + 1
  BY <1>5
<1>7. \A i \in DOMAIN list : i \in DOMAIN longer /\ longer[i] = list[i]
  BY <1>3, <1>5
<1>8. Len(list) + 1 \in DOMAIN longer
  BY <1>5
<1>9. Elements(longer) \subseteq Elements(list) \cup {e}
  BY <1>3, <1>6, <1>7 DEF Elements
<1>10. Elements(list) \subseteq Elements(longer)
  BY <1>7 DEF Elements
<1>11. e \in Elements(longer)
  BY <1>3, <1>8 DEF Elements
<1>12. HasOneMore(longer, list, e)
  BY <1>3, <1>4, <1>5, <1>9, <1>10, <1>11 DEF HasOneMore
<1> QED
  BY <1>12 DEF longer

LEMMA JoinedSequences ==
  ASSUME NEW list, IsSequence(list), NEW other, IsSequence(other)
  PROVE  HasBoth(list \o other, list, other)
<1> DEFINE values == Elements(list) \cup Elements(other)
           both   == list \o other
<1>1. list \in Seq(values) /\ other \in Seq(values)
  BY SequencesAreLists
<1> HIDE DEF values
<1>2. /\ both \in Seq(values) /\ Len(both) = Len(list) + Len(other)
      /\ \A i \in 1 .. Len(list) + Len(other) : both[i] = IF i <= Len(list) THEN list[i] ELSE other[i - Len(list)]
  BY <1>1, ConcatProperties
<1>3. IsSequence(both) /\ DOMAIN both = 1 .. Len(both)
  BY <1>2, ListsAreSequences
<1> HIDE DEF both
<1>4. /\ DOMAIN list = 1 .. Len(list) /\ DOMAIN other = 1 .. Len(other)
      /\ Len(list) \in Nat /\ Len(other) \in Nat
  BY PartsOfSequence
<1>5. \A i \in DOMAIN list : i \in DOMAIN both /\ both[i] = list[i]
  BY <1>2, <1>3, <1>4
<1>6. \A i \in DOMAIN other : Len(list) + i \in DOMAIN both /\ both[Len(list) + i] = other[i]
  BY <1>2, <1>3, <1>4
<1>7. \A i \in DOMAIN both :
        \/ i \in DOMAIN list
        \/ i - Len(list) \in DOMAIN other /\ Len(list) + (i - Len(list)) = i
  BY <1>2, <1>3, <1>4
<1>8. Elements(both) \subseteq Elements(list) \cup Elements(other)
  BY <1>5, <1>6, <1>7 DEF Elements
<1>9. Elements(list) \cup Elements(other) \subseteq Elements(both)
  <2>1. \A i \in DOMAIN list : list[i] \in Elements(both)
    BY <1>5 DEF Elements
  <2>2. \A i \in DOMAIN other : other[i] \in Elements(both)
    BY <1>6 DEF Elements
  <2> QED
    BY <2>1, <2>2 DEF Elements
<1>10. HasBoth(both, list, other)
  BY <1>2, <1>3, <1>5, <1>6, <1>7, <1>8, <1>9 DEF HasBoth
<1> QED
  BY <1>10 DEF both

LEMMA DataIsFound ==
  ASSUME NEW definitions, NEW metadata, Len(metadata) \in Nat
  PROVE  \E data : IsDataOf(definitions, metadata, data)
<1> DEFINE After(n, before) ==
             IF IsData(definitions, metadata[n]) THEN Append(before, metadata[n]) ELSE before
           Found(m, f) == f = [n \in 0 .. m |-> IF n = 0 THEN << >> ELSE After(n, f[n - 1])]
           T == {m \in Nat : ~ \E f : Found(m, f)}
<1> HIDE DEF After
<1>1. ASSUME T # {} PROVE FALSE
  <2>1. PICK m \in T : \A n \in T : m <= n
    <3>1. T \in SUBSET Nat
      OBVIOUS
    <3> QED
      BY <1>1, <3>1, LeastNatural
  <2>2. CASE m = 0
    <3> DEFINE f == [n \in 0 .. 0 |-> << >>]
    <3>1. Found(0, f)
      OBVIOUS
    <3> QED
      BY <2>1, <2>2, <3>1
  <2>3. CASE m # 0
    <3>1. m \in Nat /\ m - 1 \in Nat
      BY <2>1, <2>3
    <3> HIDE DEF Found
    <3>2. PICK old : Found(m - 1, old)
      <4>1. m - 1 \notin T
        BY <2>1, <3>1
      <4> QED
        BY <3>1, <4>1
    <3> USE DEF Found
    <3> DEFINE f == [n \in 0 .. m |-> IF n = m THEN After(m, old[m - 1]) ELSE old[n]]
    <3>3. (\A n \in 0 .. (m - 1) : f[n] = old[n]) /\ f[m] = After(m, old[m - 1])
      BY <3>1
    <3>4. f = [n \in 0 .. m |-> f[n]]
      OBVIOUS
    <3> HIDE DEF f
    <3>5. \A n \in 0 .. m : f[n] = IF n = 0 THEN << >> ELSE After(n, f[n - 1])
      <4>1. \A n \in 0 .. (m - 1) : old[n] = IF n = 0 THEN << >> ELSE After(n, old[n - 1])
        BY <3>2
      <4>2. \A n \in 0 .. m : n = m \/ (n \in 0 .. (m - 1) /\ (n = 0 \/ n - 1 \in 0 .. (m - 1)))
        BY <3>1
      <4>3. m - 1 \in 0 .. (m - 1) /\ m # 0
        BY <2>3, <3>1
      <4> QED
        BY <3>3, <4>1, <4>2, <4>3
    <3>6. f = [n \in 0 .. m |-> IF n = 0 THEN << >> ELSE After(n, f[n - 1])]
      BY <3>4, <3>5
    <3> QED
      BY <2>1, <3>6
  <2> QED
    BY <2>2, <2>3
<1>2. PICK f : Found(Len(metadata), f)
  BY <1>1
<1> QED
  BY <1>2 DEF IsDataOf, After

LEMMA DataOfMetadata ==
  ASSUME NEW definitions, NEW metadata, Len(metadata) \in Nat
  PROVE  \E data : IsDataOf(definitions, metadata, data) /\ DataOf(definitions, metadata) = data[Len(metadata)]
<1> DEFINE data == CHOOSE data : IsDataOf(definitions, metadata, data)
<1>1. IsDataOf(definitions, metadata, data)
  BY DataIsFound
<1>2. DataOf(definitions, metadata) = data[Len(metadata)]
  BY DEF DataOf, IsDataOf
<1> QED
  BY <1>1, <1>2

LEMMA StepsOfData ==
  ASSUME NEW definitions, NEW metadata, Len(metadata) \in Nat,
         NEW data, IsDataOf(definitions, metadata, data)
  PROVE  AddsData(definitions, metadata, data)
<1>1. \A n \in 0 .. Len(metadata) :
        data[n] = IF n = 0 THEN << >>
                  ELSE IF IsData(definitions, metadata[n]) THEN Append(data[n - 1], metadata[n])
                  ELSE data[n - 1]
  BY DEF IsDataOf
<1> QED
  BY <1>1 DEF AddsData

(* When all pieces that are no padding come first, these are the data.      *)
LEMMA DataOfStart ==
  ASSUME NEW definitions, NEW start, IsSequence(start), NEW rest, IsSequence(rest),
         \A f \in Elements(start) : IsData(definitions, f),
         \A f \in Elements(rest) : ~IsData(definitions, f),
         NEW metadata, metadata = start \o rest
  PROVE  DataOf(definitions, metadata) = start
<1>0. HasBoth(metadata, start, rest)
  BY JoinedSequences
<1>1. /\ IsSequence(metadata) /\ Len(metadata) = Len(start) + Len(rest)
      /\ \A i \in DOMAIN start : metadata[i] = start[i]
      /\ \A i \in DOMAIN rest : metadata[Len(start) + i] = rest[i]
  BY <1>0 DEF HasBoth
<1>2. /\ DOMAIN start = 1 .. Len(start) /\ DOMAIN rest = 1 .. Len(rest)
      /\ Len(start) \in Nat /\ Len(rest) \in Nat /\ Len(metadata) \in Nat
  BY <1>1, PartsOfSequence
<1>3. PICK data : /\ IsDataOf(definitions, metadata, data)
                  /\ DataOf(definitions, metadata) = data[Len(metadata)]
  BY <1>2, DataOfMetadata
<1>4. /\ data[0] = << >>
      /\ \A n \in 1 .. Len(metadata) :
           data[n] = IF IsData(definitions, metadata[n]) THEN Append(data[n - 1], metadata[n]) ELSE data[n - 1]
  <2>1. AddsData(definitions, metadata, data)
    BY <1>2, <1>3, StepsOfData
  <2> QED
    BY <2>1 DEF AddsData
<1>5. \A n \in 1 .. Len(metadata) :
        /\ n <= Len(start) => metadata[n] = start[n] /\ IsData(definitions, metadata[n])
        /\ n > Len(start) => ~IsData(definitions, metadata[n])
  <2> SUFFICES ASSUME NEW n \in 1 .. Len(metadata)
               PROVE  /\ n <= Len(start) => metadata[n] = start[n] /\ IsData(definitions, metadata[n])
                      /\ n > Len(start) => ~IsData(definitions, metadata[n])
    OBVIOUS
  <2>1. CASE n <= Len(start)
    <3>1. n \in DOMAIN start /\ metadata[n] = start[n]
      BY <1>1, <1>2, <2>1
    <3> QED
      BY <1>2, <2>1, <3>1 DEF Elements
  <2>2. CASE n > Len(start)
    <3>1. n - Len(start) \in DOMAIN rest /\ Len(start) + (n - Len(start)) = n
      BY <1>1, <1>2, <2>2
    <3>2. metadata[n] = rest[n - Len(start)]
      BY <1>1, <3>1
    <3> QED
      BY <1>2, <2>2, <3>1, <3>2 DEF Elements
  <2> QED
    BY <1>2, <2>1, <2>2
<1> DEFINE Upto(n) == IF n <= Len(start) THEN n ELSE Len(start)
           Good(n) == /\ IsSequence(data[n]) /\ Len(data[n]) = Upto(n)
                      /\ \A i \in 1 .. Upto(n) : data[n][i] = start[i]
           Bad == {n \in 0 .. Len(metadata) : ~Good(n)}
<1>6. Good(0)
  <2>1. Upto(0) = 0
    BY <1>2
  <2>2. IsSequence(<< >>) /\ Len(<< >>) = 0
    BY DEF IsSequence
  <2> QED
    BY <1>4, <2>1, <2>2
<1>7. ASSUME NEW n \in 1 .. Len(metadata), Good(n - 1)
      PROVE  Good(n)
  <2>1. CASE n <= Len(start)
    <3>1. Upto(n) = n /\ Upto(n - 1) = n - 1 /\ n - 1 \in Nat
      BY <1>2, <2>1
    <3>2. data[n] = Append(data[n - 1], start[n])
      BY <1>4, <1>5, <2>1
    <3> HIDE DEF Upto
    <3>3. /\ IsSequence(data[n]) /\ Len(data[n]) = (n - 1) + 1
          /\ \A i \in 1 .. (n - 1) : data[n][i] = data[n - 1][i]
          /\ data[n][(n - 1) + 1] = start[n]
      <4>1. HasOneMore(data[n], data[n - 1], start[n])
        BY <1>7, <3>2, AppendedSequence
      <4>2. Len(data[n - 1]) = n - 1
        BY <1>7, <3>1
      <4> QED
        BY <4>1, <4>2 DEF HasOneMore
    <3>4. \A i \in 1 .. n : i \in 1 .. (n - 1) \/ i = n
      BY <3>1
    <3>5. (n - 1) + 1 = n
      OBVIOUS
    <3>6. \A i \in 1 .. (n - 1) : data[n][i] = start[i]
      BY <1>7, <3>1, <3>3
    <3> QED
      BY <3>1, <3>3, <3>4, <3>5, <3>6
  <2>2. CASE n > Len(start)
    <3>1. Upto(n) = Len(start) /\ Upto(n - 1) = Len(start)
      <4>1. n \in Nat /\ ~(n <= Len(start)) /\ (n - 1 <= Len(start) => n - 1 = Len(start))
        BY <1>2, <2>2
      <4> QED
        BY <4>1
    <3>2. data[n] = data[n - 1]
      BY <1>4, <1>5, <2>2
    <3> QED
      BY <1>7, <3>1, <3>2
  <2> QED
    BY <1>2, <2>1, <2>2
<1>8. Bad = {}
  <2> SUFFICES ASSUME Bad # {} PROVE FALSE
    OBVIOUS
  <2>1. Bad \in SUBSET Nat
    BY <1>2
  <2> HIDE DEF Good
  <2>2. PICK n \in Bad : \A m \in Bad : n <= m
    BY <2>1, LeastNatural
  <2>3. n \in 0 .. Len(metadata) /\ ~Good(n)
    BY <2>2
  <2>4. n # 0 /\ n \in 1 .. Len(metadata) /\ n - 1 \in 0 .. Len(metadata)
    BY <1>2, <1>6, <2>3
  <2>5. Good(n - 1)
    BY <2>2, <2>4
  <2> QED
    BY <1>7, <2>3, <2>4, <2>5
<1>9. Good(Len(metadata)) /\ Upto(Len(metadata)) = Len(start)
  <2>1. Upto(Len(metadata)) = Len(start)
    <3>0. /\ Len(metadata) = Len(start) + Len(rest)
          /\ Len(start) \in Nat /\ Len(rest) \in Nat /\ Len(metadata) \in Nat
      BY <1>1, <1>2
    <3>1. Len(metadata) <= Len(start) => Len(metadata) = Len(start)
      BY <3>0
    <3> QED
      BY <3>1
  <2> HIDE DEF Good, Upto
  <2> QED
    BY <1>2, <1>8, <2>1
<1>10. data[Len(metadata)] = start
  <2> HIDE DEF Upto
  <2>1. /\ IsSequence(data[Len(metadata)]) /\ Len(data[Len(metadata)]) = Len(start)
        /\ \A i \in 1 .. Len(start) : data[Len(metadata)][i] = start[i]
    BY <1>9
  <2> QED
    BY <2>1 DEF IsSequence
<1> QED
  BY <1>3, <1>10

(* The data are the pieces that are no padding, each of them once.          *)
LEMMA DataOfAll ==
  ASSUME NEW definitions, NEW metadata, IsSequence(metadata), AreDistinct(metadata)
  PROVE  LET data == DataOf(definitions, metadata)
         IN  /\ IsSequence(data) /\ AreDistinct(data)
             /\ Elements(data) = {f \in Elements(metadata) : IsData(definitions, f)}
<1>1. DOMAIN metadata = 1 .. Len(metadata) /\ Len(metadata) \in Nat
  BY PartsOfSequence
<1>2. PICK data : /\ IsDataOf(definitions, metadata, data)
                  /\ DataOf(definitions, metadata) = data[Len(metadata)]
  BY <1>1, DataOfMetadata
<1>3. /\ data[0] = << >>
      /\ \A n \in 1 .. Len(metadata) :
           data[n] = IF IsData(definitions, metadata[n]) THEN Append(data[n - 1], metadata[n]) ELSE data[n - 1]
  <2>1. AddsData(definitions, metadata, data)
    BY <1>1, <1>2, StepsOfData
  <2> QED
    BY <2>1 DEF AddsData
<1> DEFINE Upto(n) == {metadata[i] : i \in {j \in 1 .. n : IsData(definitions, metadata[j])}}
           Good(n) == IsSequence(data[n]) /\ AreDistinct(data[n]) /\ Elements(data[n]) = Upto(n)
           Bad == {n \in 0 .. Len(metadata) : ~Good(n)}
<1>4. Good(0)
  <2>1. IsSequence(<< >>) /\ DOMAIN << >> = {}
    BY DEF IsSequence
  <2>2. Upto(0) = {} /\ Elements(<< >>) = {}
    BY <2>1 DEF Elements
  <2> QED
    BY <1>3, <2>1, <2>2 DEF AreDistinct
<1>5. ASSUME NEW n \in 1 .. Len(metadata), Good(n - 1)
      PROVE  Good(n)
  <2>0. \A i \in 1 .. n : i \in 1 .. (n - 1) \/ i = n
    BY <1>1
  <2>00. \A i \in 1 .. (n - 1) : i \in 1 .. n /\ i \in DOMAIN metadata /\ i # n
    BY <1>1
  <2>000. n \in 1 .. n /\ n \in DOMAIN metadata
    BY <1>1
  <2>1. CASE IsData(definitions, metadata[n])
    <3> DEFINE old == data[n - 1]
               new == data[n]
    <3>1. new = Append(old, metadata[n])
      BY <1>3, <2>1
    <3>2. IsSequence(old) /\ AreDistinct(old) /\ Elements(old) = Upto(n - 1)
      BY <1>5
    <3> HIDE DEF old, new
    <3>3. /\ IsSequence(new) /\ \A i \in 1 .. Len(old) : new[i] = old[i]
          /\ new[Len(old) + 1] = metadata[n]
          /\ Elements(new) = Elements(old) \cup {metadata[n]}
          /\ DOMAIN new = 1 .. Len(old) + 1 /\ DOMAIN old = 1 .. Len(old) /\ Len(old) \in Nat
      <4>1. HasOneMore(new, old, metadata[n])
        BY <3>1, <3>2, AppendedSequence
      <4> QED
        BY <4>1 DEF HasOneMore
    <3>5. Upto(n) = Upto(n - 1) \cup {metadata[n]}
      BY <2>0, <2>00, <2>000, <2>1
    <3>6. \A i \in DOMAIN old : old[i].field # metadata[n].field
      <4>1. \A f \in Upto(n - 1) : f.field # metadata[n].field
        BY <2>00, <2>000 DEF AreDistinct
      <4>2. \A i \in DOMAIN old : old[i] \in Elements(old)
        BY DEF Elements
      <4> QED
        BY <3>2, <4>1, <4>2
    <3>7. \A i \in DOMAIN new : (i \in DOMAIN old /\ new[i] = old[i]) \/ (i = Len(old) + 1 /\ new[i] = metadata[n])
      BY <3>3
    <3>8. AreDistinct(new)
      BY <3>2, <3>6, <3>7 DEF AreDistinct
    <3> HIDE DEF Upto
    <3>9. IsSequence(new) /\ AreDistinct(new) /\ Elements(new) = Upto(n)
      BY <3>2, <3>3, <3>5, <3>8
    <3> QED
      BY <3>9 DEF new
  <2>2. CASE ~IsData(definitions, metadata[n])
    <3>1. data[n] = data[n - 1]
      BY <1>3, <2>2
    <3>2. Upto(n) = Upto(n - 1)
      BY <2>0, <2>00, <2>2
    <3> HIDE DEF Upto
    <3> QED
      BY <1>5, <3>1, <3>2
  <2> QED
    BY <2>1, <2>2
<1>6. Bad = {}
  <2> SUFFICES ASSUME Bad # {} PROVE FALSE
    OBVIOUS
  <2>1. Bad \in SUBSET Nat
    BY <1>1
  <2> HIDE DEF Good
  <2>2. PICK n \in Bad : \A m \in Bad : n <= m
    BY <2>1, LeastNatural
  <2>3. n \in 0 .. Len(metadata) /\ ~Good(n)
    BY <2>2
  <2>4. n # 0 /\ n \in 1 .. Len(metadata) /\ n - 1 \in 0 .. Len(metadata)
    BY <1>1, <1>4, <2>3
  <2>5. Good(n - 1)
    BY <2>2, <2>4
  <2> QED
    BY <1>5, <2>3, <2>4, <2>5
<1>7. Good(Len(metadata))
  <2> HIDE DEF Good
  <2> QED
    BY <1>1, <1>6
<1>8. Upto(Len(metadata)) = {f \in Elements(metadata) : IsData(definitions, f)}
  BY <1>1 DEF Elements
<1> QED
  BY <1>2, <1>7, <1>8

(* Sets                                                                     *)

LEMMA InjectiveImages ==
  ASSUME NEW S, IsFiniteSet(S), NEW f, f = [x \in S |-> f[x]], \A x, y \in S : f[x] = f[y] => x = y
  PROVE  IsFiniteSet(Images(f, S)) /\ Cardinality(Images(f, S)) = Cardinality(S)
<1> DEFINE T == Images(f, S)
<1>1. f \in [S -> T]
  BY DEF Images
<1>2. f \in Injection(S, T)
  BY <1>1 DEF Injection, IsInjective
<1>3. f \in Surjection(S, T)
  BY <1>1 DEF Surjection, Images
<1>4. f \in Bijection(S, T)
  BY <1>2, <1>3 DEF Bijection
<1>5. ExistsBijection(S, T)
  BY <1>4 DEF ExistsBijection
<1> HIDE DEF T
<1>6. IsFiniteSet(T) /\ Cardinality(T) = Cardinality(S)
  BY <1>5, FS_Bijection
<1> QED
  BY <1>6 DEF T

LEMMA SizeOfInterval ==
  ASSUME NEW n \in Nat
  PROVE  IsFiniteSet(1 .. n) /\ Cardinality(1 .. n) = n
<1>1. IsFiniteSet(1 .. n) /\ Cardinality(1 .. n) = IF 1 > n THEN 0 ELSE n - 1 + 1
  BY FS_Interval
<1> QED
  BY <1>1

LEMMA SetsAreLists ==
  ASSUME NEW S, IsFiniteSet(S)
  PROVE  HasAllOnce(SetToSeq(S), S)
<1> DEFINE n == Cardinality(S)
           list == SetToSeq(S)
<1>1. n \in Nat /\ ExistsBijection(1 .. n, S)
  BY FS_CardinalityType
<1>2. \E f \in [1 .. n -> S] : IsInjective(f)
  BY <1>1 DEF ExistsBijection, Bijection, Injection
<1>3. list \in [1 .. n -> S] /\ IsInjective(list)
  BY <1>2 DEF SetToSeq
<1> HIDE DEF list, n
<1>4. IsFiniteSet(1 .. n) /\ Cardinality(1 .. n) = n
  BY <1>1, SizeOfInterval
<1>5. list \in Injection(1 .. n, S)
  BY <1>3 DEF Injection
<1>6. Cardinality(1 .. n) = Cardinality(S) <=> list \in Surjection(1 .. n, S)
  BY <1>5, FS_Injection
<1>7. list \in Surjection(1 .. n, S)
  BY <1>4, <1>6 DEF n
<1>8. Elements(list) = S
  BY <1>3, <1>7 DEF Surjection, Elements
<1>9. list = [i \in 1 .. n |-> list[i]]
  BY <1>3
<1>10. IsSequence(list) /\ Len(list) = n /\ DOMAIN list = 1 .. n
  BY <1>1, <1>9, SequencesAreFunctions
<1>11. HasAllOnce(list, S)
  BY <1>3, <1>8, <1>10 DEF HasAllOnce, IsInjective, n
<1> QED
  BY <1>11 DEF list

Ids(definitions) == {d.id : d \in definitions}

LEMMA IdsAreAsMany ==
  ASSUME NEW definitions, IsKeyed(definitions), IsFiniteSet(definitions)
  PROVE  IsFiniteSet(Ids(definitions)) /\ Cardinality(Ids(definitions)) = Cardinality(definitions)
<1> DEFINE f == [d \in definitions |-> d.id]
<1>1. f = [d \in definitions |-> f[d]]
  OBVIOUS
<1>2. \A d, e \in definitions : f[d] = f[e] => d = e
  BY DEF IsKeyed
<1>3. Images(f, definitions) = Ids(definitions)
  BY DEF Images, Ids
<1> HIDE DEF f
<1>4. /\ IsFiniteSet(Images(f, definitions))
      /\ Cardinality(Images(f, definitions)) = Cardinality(definitions)
  BY <1>1, <1>2, InjectiveImages
<1> QED
  BY <1>3, <1>4

FieldNames(fields) == {f.field : f \in Elements(fields)}

(* As many fields as a list has pieces, when no two are of the same field.  *)
LEMMA DistinctFieldsAreAsMany ==
  ASSUME NEW fields, IsSequence(fields), AreDistinct(fields)
  PROVE  IsFiniteSet(FieldNames(fields)) /\ Cardinality(FieldNames(fields)) = Len(fields)
<1> DEFINE f == [i \in DOMAIN fields |-> fields[i].field]
<1>1. f = [i \in DOMAIN fields |-> f[i]]
  OBVIOUS
<1>2. \A i, j \in DOMAIN fields : f[i] = f[j] => i = j
  BY DEF AreDistinct
<1>3. Images(f, DOMAIN fields) = FieldNames(fields)
  BY DEF Images, FieldNames, Elements
<1>4. IsFiniteSet(DOMAIN fields) /\ Cardinality(DOMAIN fields) = Len(fields)
  <2>1. DOMAIN fields = 1 .. Len(fields) /\ Len(fields) \in Nat
    BY PartsOfSequence
  <2> QED
    BY <2>1, SizeOfInterval
<1> HIDE DEF f
<1>5. /\ IsFiniteSet(Images(f, DOMAIN fields))
      /\ Cardinality(Images(f, DOMAIN fields)) = Cardinality(DOMAIN fields)
  BY <1>1, <1>2, <1>4, InjectiveImages
<1> QED
  BY <1>3, <1>4, <1>5

(* The definitions that are padding, and their pieces of metadata.          *)
Padding(definitions) == definitions \ NotPadding(definitions)

PaddingPieces(definitions) == {CreatePaddingMetadata(d.id) : d \in Padding(definitions)}

LEMMA PaddingIsCounted ==
  ASSUME NEW definitions, IsKeyed(definitions), IsFiniteSet(definitions)
  PROVE  /\ IsFiniteSet(NotPadding(definitions)) /\ IsFiniteSet(PaddingPieces(definitions))
         /\ Cardinality(NotPadding(definitions)) \in Nat
         /\ Cardinality(definitions) \in Nat
         /\ Cardinality(PaddingPieces(definitions)) =
              Cardinality(definitions) - Cardinality(NotPadding(definitions))
<1> DEFINE f == [d \in Padding(definitions) |-> CreatePaddingMetadata(d.id)]
           kept == NotPadding(definitions)
<1>1. kept \subseteq definitions /\ definitions \cap kept = kept
  BY DEF NotPadding
<1>2. IsFiniteSet(kept)
  BY <1>1, FS_Subset
<1>3. Cardinality(kept) \in Nat /\ Cardinality(definitions) \in Nat
  BY <1>2, FS_CardinalityType
<1>4. /\ IsFiniteSet(definitions \ kept)
      /\ Cardinality(definitions \ kept) = Cardinality(definitions) - Cardinality(definitions \cap kept)
  BY FS_Difference
<1>5. f = [d \in Padding(definitions) |-> f[d]]
  OBVIOUS
<1>6. \A d, e \in Padding(definitions) : f[d] = f[e] => d = e
  <2>1. \A a, b : CreatePaddingMetadata(a) = CreatePaddingMetadata(b) => a = b
    <3>1. \A a : CreatePaddingMetadata(a).field = a
      BY DEF CreatePaddingMetadata
    <3> QED
      BY <3>1
  <2>2. \A d, e \in Padding(definitions) : d.id = e.id => d = e
    BY DEF IsKeyed, Padding
  <2> QED
    BY <2>1, <2>2
<1>7. Images(f, Padding(definitions)) = PaddingPieces(definitions)
  BY DEF Images, PaddingPieces
<1> HIDE DEF f
<1>8. IsFiniteSet(Padding(definitions))
  BY <1>4 DEF Padding
<1>9. /\ IsFiniteSet(Images(f, Padding(definitions)))
      /\ Cardinality(Images(f, Padding(definitions))) = Cardinality(Padding(definitions))
  BY <1>5, <1>6, <1>8, InjectiveImages
<1> QED
  BY <1>1, <1>2, <1>3, <1>4, <1>7, <1>9 DEF Padding

(* Packets                                                                  *)

Packet(payload, metadata) == [payload |-> payload, metadata |-> metadata]

LEMMA PartsOfPacket ==
  ASSUME NEW side, NEW packet, IsPacket(side, packet)
  PROVE  packet = Packet(packet.payload, packet.metadata) /\ IsFields(side, packet.metadata)
<1>1. packet = [f \in {"payload", "metadata"} |-> packet[f]]
  BY DEF IsPacket, IsRecord
<1>2. packet = Packet(packet.payload, packet.metadata)
  BY <1>1 DEF Packet
<1> QED
  BY <1>2 DEF IsPacket

LEMMA PacketIsItsParts ==
  ASSUME ErrorsAreNoMessages, NEW payload, NEW metadata
  PROVE  /\ Packet(payload, metadata).payload = payload /\ Packet(payload, metadata).metadata = metadata
         /\ Packet(payload, metadata) \notin {Refused, None}
<1>1. IsRecord(Packet(payload, metadata), {"payload", "metadata"})
  BY DEF IsRecord, Packet
<1>2. Packet(payload, metadata) \notin {Refused, None}
  BY <1>1, RecordsAreNoErrors
<1> QED
  BY <1>2 DEF Packet

LEMMA PacketTranslations ==
  ASSUME NEW opts, NEW definitions, NEW payload, NEW metadata
  PROVE  /\ PiPacketIoToIr(definitions, Packet(payload, metadata)) =
              LET others == PiParamsToIr(NotPadding(definitions), DataOf(definitions, metadata))
              IN  IF PiecesOk(definitions, metadata) /\ others # Refused
                  THEN Packet(payload, others \o << >>) ELSE Refused
         /\ IrPacketIoToPi(opts, definitions, Packet(payload, metadata)) =
              LET others == IrParamsToPi(opts, NotPadding(definitions), metadata)
              IN  IF Len(metadata) = Cardinality(NotPadding(definitions)) /\ others # Refused
                  THEN Packet(payload, others \o SetToSeq(PaddingPieces(definitions))) ELSE Refused
<1>1. \A other, more :
        WithMetadata(Packet(payload, metadata), other, more) =
          IF other = Refused THEN Refused ELSE Packet(payload, other \o more)
  <2>1. \A list : [Packet(payload, metadata) EXCEPT !.metadata = list] = Packet(payload, list)
    BY DEF Packet
  <2> QED
    BY <2>1 DEF WithMetadata
<1>2. Packet(payload, metadata).metadata = metadata
  BY DEF Packet
<1> HIDE DEF Packet
<1>3. PaddingPieces(definitions) = {CreatePaddingMetadata(d.id) : d \in definitions \ NotPadding(definitions)}
  BY DEF PaddingPieces, Padding
<1>4. PiPacketIoToIr(definitions, Packet(payload, metadata)) =
        IF PiecesOk(definitions, metadata)
        THEN WithMetadata(Packet(payload, metadata),
               PiParamsToIr(NotPadding(definitions), DataOf(definitions, metadata)), << >>)
        ELSE Refused
  BY <1>2 DEF PiPacketIoToIr, PiecesOk
<1>5. IrPacketIoToPi(opts, definitions, Packet(payload, metadata)) =
        IF Len(metadata) = Cardinality(NotPadding(definitions))
        THEN WithMetadata(Packet(payload, metadata), IrParamsToPi(opts, NotPadding(definitions), metadata),
                          SetToSeq(PaddingPieces(definitions)))
        ELSE Refused
  BY <1>2, <1>3 DEF IrPacketIoToPi
<1> QED
  BY <1>1, <1>4, <1>5

LEMMA NothingJoined ==
  ASSUME NEW list, IsSequence(list)
  PROVE  list \o << >> = list
<1>1. list \in Seq(Elements(list))
  BY SequencesAreLists
<1> QED
  BY <1>1, ConcatEmptySeq

LEMMA DataDefinitions ==
  ASSUME NEW definitions, AreDefinitions(definitions)
  PROVE  /\ AreDefinitions(NotPadding(definitions))
         /\ \A f : IsData(definitions, f) <=> f.field \in Ids(NotPadding(definitions))
         /\ Ids(definitions) = Ids(NotPadding(definitions)) \cup Ids(Padding(definitions))
         /\ Ids(NotPadding(definitions)) \cap Ids(Padding(definitions)) = {}
<1>1. NotPadding(definitions) \subseteq definitions
  BY DEF NotPadding
<1>2. AreDefinitions(NotPadding(definitions))
  BY <1>1 DEF AreDefinitions, IsKeyed
<1>3. \A f : IsData(definitions, f) <=> f.field \in Ids(NotPadding(definitions))
  BY DEF IsData, Ids
<1>4. Ids(definitions) = Ids(NotPadding(definitions)) \cup Ids(Padding(definitions))
  BY <1>1 DEF Ids, Padding
<1>5. Ids(NotPadding(definitions)) \cap Ids(Padding(definitions)) = {}
  BY <1>1 DEF Ids, Padding, AreDefinitions, IsKeyed
<1> QED
  BY <1>2, <1>3, <1>4, <1>5

LEMMA PartsOfPadding ==
  ASSUME NEW definitions, NEW f \in PaddingPieces(definitions)
  PROVE  /\ IsRecord(f, {"field", "value"}) /\ f.field \in Ids(Padding(definitions))
         /\ f.value = Bytes(1, 0) /\ IsAllZeros(f.value)
<1>1. PICK d \in Padding(definitions) : f = CreatePaddingMetadata(d.id)
  BY DEF PaddingPieces
<1>2. f.field = d.id /\ f.value = Bytes(1, 0) /\ IsRecord(f, {"field", "value"})
  BY <1>1 DEF CreatePaddingMetadata, IsRecord
<1>3. Bytes(1, 0).number = 0
  BY PartsOfBytes
<1> QED
  BY <1>2, <1>3 DEF IsAllZeros, Ids

(* What is put on the wire has every piece that is defined, once.           *)
LEMMA MetadataIsComplete ==
  ASSUME NEW definitions, AreDefinitions(definitions), IsFiniteSet(definitions),
         NEW data, IsSequence(data), FieldsDefined(data, NotPadding(definitions), "id"),
         Len(data) = Cardinality(NotPadding(definitions)),
         NEW padding, HasAllOnce(padding, PaddingPieces(definitions)),
         NEW metadata, metadata = data \o padding
  PROVE  PiecesOk(definitions, metadata) /\ DataOf(definitions, metadata) = data
<1>1. HasBoth(metadata, data, padding)
  BY JoinedSequences DEF HasAllOnce
<1>2. IsSequence(padding) /\ Elements(padding) = PaddingPieces(definitions)
  BY DEF HasAllOnce
<1>3. \A f \in Elements(data) : f.field \in Ids(NotPadding(definitions))
  BY DEF FieldsDefined, Ids
<1>4. \A f \in Elements(padding) : f.field \in Ids(Padding(definitions)) /\ IsAllZeros(f.value)
  BY <1>2, PartsOfPadding
<1>5. /\ \A f \in Elements(data) : IsData(definitions, f)
      /\ \A f \in Elements(padding) : ~IsData(definitions, f)
  BY <1>3, <1>4, DataDefinitions
<1>6. DataOf(definitions, metadata) = data
  BY <1>2, <1>5, DataOfStart
<1>7. Len(metadata) = Cardinality(definitions)
  <2>1. Len(metadata) = Len(data) + Len(padding)
    BY <1>1 DEF HasBoth
  <2>2. Len(padding) = Cardinality(PaddingPieces(definitions))
    BY DEF HasAllOnce
  <2>3. /\ Cardinality(NotPadding(definitions)) \in Nat /\ Cardinality(definitions) \in Nat
        /\ Cardinality(PaddingPieces(definitions)) = Cardinality(definitions) - Cardinality(NotPadding(definitions))
    BY PaddingIsCounted DEF AreDefinitions
  <2> QED
    BY <2>1, <2>2, <2>3
<1>8. Elements(metadata) = Elements(data) \cup Elements(padding)
  BY <1>1 DEF HasBoth
<1>9. \A m \in Elements(metadata) : IsData(definitions, m) \/ IsAllZeros(m.value)
  BY <1>4, <1>5, <1>8
<1>10. \A f \in Elements(metadata) : f.field \in Ids(definitions)
  BY <1>3, <1>4, <1>8, DataDefinitions
<1>11. \A i, j \in DOMAIN metadata : metadata[i].field = metadata[j].field => i = j
  <2>1. /\ \A i \in DOMAIN data : metadata[i] = data[i]
        /\ \A i \in DOMAIN padding : metadata[Len(data) + i] = padding[i]
        /\ \A i \in DOMAIN metadata :
             i \in DOMAIN data \/ (i - Len(data) \in DOMAIN padding /\ Len(data) + (i - Len(data)) = i)
    BY <1>1 DEF HasBoth
  <2>2. \A i, j \in DOMAIN data : data[i].field = data[j].field => i = j
    BY DEF FieldsDefined
  <2>3. \A i, j \in DOMAIN padding : padding[i].field = padding[j].field => i = j
    <3>1. \A f, g \in PaddingPieces(definitions) : f.field = g.field => f = g
      BY DEF PaddingPieces, CreatePaddingMetadata
    <3>2. \A i \in DOMAIN padding : padding[i] \in PaddingPieces(definitions)
      BY <1>2 DEF Elements
    <3>3. \A i, j \in DOMAIN padding : padding[i] = padding[j] => i = j
      BY DEF HasAllOnce
    <3> QED
      BY <3>1, <3>2, <3>3
  <2>4. \A i \in DOMAIN data : \A j \in DOMAIN padding : data[i].field # padding[j].field
    <3>1. \A i \in DOMAIN data : data[i] \in Elements(data)
      BY DEF Elements
    <3>2. \A i \in DOMAIN padding : padding[i] \in Elements(padding)
      BY DEF Elements
    <3> QED
      BY <1>3, <1>4, <3>1, <3>2, DataDefinitions
  <2> DEFINE place(i) == i - Len(data)
  <2>5. \A i \in DOMAIN metadata :
          \/ i \in DOMAIN data /\ metadata[i] = data[i]
          \/ place(i) \in DOMAIN padding /\ metadata[i] = padding[place(i)] /\ Len(data) + place(i) = i
    BY <2>1
  <2> HIDE DEF place
  <2> QED
    BY <2>2, <2>3, <2>4, <2>5
<1>12. FieldsDefined(metadata, definitions, "id")
  BY <1>10, <1>11 DEF FieldsDefined, Ids
<1> QED
  BY <1>6, <1>7, <1>9, <1>12 DEF PiecesOk

(* A packet that is put on the wire is read as it was.                      *)
LEMMA IrPacketComesBack ==
  ASSUME ErrorsAreNoMessages, NEW opts, ~opts.allow_arbitrary_format,
         NEW definitions, AreDefinitions(definitions), IsFiniteSet(definitions),
         NEW ir, IsPacket("ir", ir), IrPacketIoToPi(opts, definitions, ir) # Refused
  PROVE  PiPacketIoToIr(definitions, IrPacketIoToPi(opts, definitions, ir)) = ir
<1> DEFINE kept == NotPadding(definitions)
           data == IrParamsToPi(opts, kept, ir.metadata)
           padding == SetToSeq(PaddingPieces(definitions))
           metadata == data \o padding
<1>1. ir = Packet(ir.payload, ir.metadata) /\ IsFields("ir", ir.metadata)
  BY PartsOfPacket
<1>2. /\ Len(ir.metadata) = Cardinality(kept) /\ data # Refused
      /\ IrPacketIoToPi(opts, definitions, ir) = Packet(ir.payload, metadata)
  BY <1>1, PacketTranslations
<1>3. AreDefinitions(kept)
  BY DataDefinitions
<1>4. /\ PiParamsToIr(kept, data) = ir.metadata
      /\ IsSequence(data) /\ Len(data) = Len(ir.metadata) /\ FieldsDefined(data, kept, "id")
  BY <1>1, <1>2, <1>3, IrParamsComeBack
<1>5. HasAllOnce(padding, PaddingPieces(definitions))
  BY PaddingIsCounted, SetsAreLists DEF AreDefinitions
<1> HIDE DEF data, padding, kept
<1>6. PiecesOk(definitions, metadata) /\ DataOf(definitions, metadata) = data
  BY <1>2, <1>4, <1>5, MetadataIsComplete DEF kept
<1>7. ir.metadata # Refused /\ IsSequence(ir.metadata)
  BY <1>1, FunctionsAreNoErrors, PartsOfSequence DEF IsFields
<1> HIDE DEF metadata
<1>8. PiPacketIoToIr(definitions, Packet(ir.payload, metadata)) = Packet(ir.payload, ir.metadata \o << >>)
  BY <1>4, <1>6, <1>7, PacketTranslations DEF kept
<1> QED
  BY <1>1, <1>2, <1>7, <1>8, NothingJoined

LEMMA MeaningOfFields ==
  ASSUME NEW fields
  PROVE  FieldsMeaning(fields) = {FieldMeaning(f) : f \in Elements(fields)}
  BY DEF FieldsMeaning, FieldMeaning

(* Fields that are zero differ in nothing but their names.                  *)
LEMMA MeaningOfZero ==
  ASSUME NEW f, IsRecord(f, {"field", "value"}), IsBytes(f.value), IsAllZeros(f.value)
  PROVE  FieldMeaning(f) = [field |-> f.field, value |-> 0]
<1>1. f = [n \in {"field", "value"} |-> f[n]]
  BY DEF IsRecord
<1>2. ValueMeaning(f.value) = 0
  BY MeaningOfProperBytes DEF IsAllZeros
<1> QED
  BY <1>1, <1>2 DEF FieldMeaning

LEMMA MetadataHasEveryField ==
  ASSUME NEW definitions, AreDefinitions(definitions), IsFiniteSet(definitions),
         NEW metadata, IsSequence(metadata), PiecesOk(definitions, metadata)
  PROVE  /\ FieldNames(metadata) = Ids(definitions) /\ AreDistinct(metadata)
<1>1. AreDistinct(metadata) /\ FieldNames(metadata) \subseteq Ids(definitions)
  BY DEF PiecesOk, FieldsDefined, AreDistinct, FieldNames, Ids
<1>2. Cardinality(FieldNames(metadata)) = Len(metadata)
  BY <1>1, DistinctFieldsAreAsMany
<1>3. IsFiniteSet(Ids(definitions)) /\ Cardinality(Ids(definitions)) = Cardinality(definitions)
  BY IdsAreAsMany DEF AreDefinitions
<1>4. Cardinality(FieldNames(metadata)) = Cardinality(Ids(definitions))
  BY <1>2, <1>3 DEF PiecesOk
<1>5. FieldNames(metadata) \in SUBSET Ids(definitions)
  BY <1>1
<1>6. Ids(definitions) = FieldNames(metadata)
  BY <1>3, <1>4, <1>5, FS_Subset
<1> QED
  BY <1>1, <1>6

LEMMA MeaningOfPacket ==
  ASSUME NEW payload, NEW metadata
  PROVE  PacketMeaning(Packet(payload, metadata)) = Packet(payload, FieldsMeaning(metadata))
  BY DEF PacketMeaning, Packet

LEMMA DataAreComplete ==
  ASSUME NEW definitions, AreDefinitions(definitions), IsFiniteSet(definitions),
         NEW metadata, IsFields("pi", metadata), PiecesOk(definitions, metadata),
         NEW data, data = DataOf(definitions, metadata)
  PROVE  /\ IsFields("pi", data) /\ Len(data) = Cardinality(NotPadding(definitions))
         /\ Elements(data) = {f \in Elements(metadata) : IsData(definitions, f)}
<1>1. IsSequence(metadata)
  BY PartsOfFields
<1>2. FieldNames(metadata) = Ids(definitions) /\ AreDistinct(metadata)
  BY <1>1, MetadataHasEveryField
<1>3. /\ IsSequence(data) /\ AreDistinct(data)
      /\ Elements(data) = {f \in Elements(metadata) : IsData(definitions, f)}
  BY <1>1, <1>2, DataOfAll
<1>4. FieldNames(data) = Ids(NotPadding(definitions))
  <2>1. Ids(NotPadding(definitions)) \subseteq Ids(definitions)
    BY DataDefinitions
  <2>2. \A f : IsData(definitions, f) <=> f.field \in Ids(NotPadding(definitions))
    BY DataDefinitions
  <2> QED
    BY <1>2, <1>3, <2>1, <2>2 DEF FieldNames
<1>5. Cardinality(FieldNames(data)) = Len(data)
  BY <1>3, DistinctFieldsAreAsMany
<1>6. Cardinality(Ids(NotPadding(definitions))) = Cardinality(NotPadding(definitions))
  <2>1. AreDefinitions(NotPadding(definitions))
    BY DataDefinitions
  <2>2. IsFiniteSet(NotPadding(definitions))
    BY PaddingIsCounted DEF AreDefinitions
  <2> QED
    BY <2>1, <2>2, IdsAreAsMany DEF AreDefinitions
<1>7. IsFields("pi", data)
  BY <1>3 DEF IsFields
<1> QED
  BY <1>3, <1>4, <1>5, <1>6, <1>7

(* Padding is zero wherever it is.                                          *)
LEMMA MetadataMeaning ==
  ASSUME NEW definitions, AreDefinitions(definitions), IsFiniteSet(definitions),
         NEW metadata, IsFields("pi", metadata), PiecesOk(definitions, metadata),
         NEW data, Elements(data) = {f \in Elements(metadata) : IsData(definitions, f)},
         NEW others, IsSequence(others), FieldsMeaning(others) = FieldsMeaning(data),
         NEW padding, HasAllOnce(padding, PaddingPieces(definitions))
  PROVE  FieldsMeaning(others \o padding) = FieldsMeaning(metadata)
<1> DEFINE Zero(id) == [field |-> id, value |-> 0]
           ids == Ids(Padding(definitions))
<1>1. IsSequence(metadata) /\ \A f \in Elements(metadata) : IsRecord(f, {"field", "value"}) /\ IsBytes(f.value)
  BY ValuesOfSides DEF IsFields
<1>2. FieldNames(metadata) = Ids(definitions)
  BY <1>1, MetadataHasEveryField
<1>3. /\ \A f : IsData(definitions, f) <=> f.field \in Ids(NotPadding(definitions))
      /\ Ids(definitions) = Ids(NotPadding(definitions)) \cup ids
      /\ Ids(NotPadding(definitions)) \cap ids = {}
  BY DataDefinitions
<1> HIDE DEF ids
<1>4. \A f \in Elements(metadata) : ~IsData(definitions, f) =>
        f.field \in ids /\ FieldMeaning(f) = Zero(f.field)
  <2> SUFFICES ASSUME NEW f \in Elements(metadata), ~IsData(definitions, f)
               PROVE  f.field \in ids /\ FieldMeaning(f) = Zero(f.field)
    OBVIOUS
  <2>1. f.field \in ids
    BY <1>2, <1>3 DEF FieldNames
  <2>2. IsAllZeros(f.value)
    BY DEF PiecesOk
  <2> QED
    BY <1>1, <2>1, <2>2, MeaningOfZero
<1>5. \A id \in ids : \E f \in Elements(metadata) : f.field = id /\ ~IsData(definitions, f)
  BY <1>2, <1>3 DEF FieldNames
<1> HIDE DEF Zero
<1>6. FieldsMeaning(metadata) = FieldsMeaning(data) \cup {Zero(id) : id \in ids}
  <2>1. FieldsMeaning(metadata) = {FieldMeaning(f) : f \in Elements(metadata)}
    BY MeaningOfFields
  <2>2. FieldsMeaning(data) = {FieldMeaning(f) : f \in Elements(data)}
    BY MeaningOfFields
  <2> QED
    BY <1>4, <1>5, <2>1, <2>2
<1>7. FieldsMeaning(padding) = {Zero(id) : id \in ids}
  <2>1. FieldsMeaning(padding) = {FieldMeaning(f) : f \in PaddingPieces(definitions)}
    BY MeaningOfFields DEF HasAllOnce
  <2>2. \A f \in PaddingPieces(definitions) : f.field \in ids /\ FieldMeaning(f) = Zero(f.field)
    <3> SUFFICES ASSUME NEW f \in PaddingPieces(definitions)
                 PROVE  f.field \in ids /\ FieldMeaning(f) = Zero(f.field)
      OBVIOUS
    <3>1. IsRecord(f, {"field", "value"}) /\ f.field \in ids /\ f.value = Bytes(1, 0) /\ IsAllZeros(f.value)
      BY PartsOfPadding DEF ids
    <3>2. IsBytes(Bytes(1, 0))
      BY DEF IsBytes, Bytes, IsRecord
    <3> QED
      BY <3>1, <3>2, MeaningOfZero DEF Zero
  <2>3. \A id \in ids : \E f \in PaddingPieces(definitions) : f.field = id
    <3>1. \A id \in ids : CreatePaddingMetadata(id) \in PaddingPieces(definitions)
      BY DEF ids, Ids, PaddingPieces
    <3>2. \A id \in ids : CreatePaddingMetadata(id).field = id
      BY DEF CreatePaddingMetadata
    <3> QED
      BY <3>1, <3>2
  <2> QED
    BY <2>1, <2>2, <2>3
<1>8. FieldsMeaning(others \o padding) = FieldsMeaning(others) \cup FieldsMeaning(padding)
  <2>1. HasBoth(others \o padding, others, padding)
    BY JoinedSequences DEF HasAllOnce
  <2>2. Elements(others \o padding) = Elements(others) \cup Elements(padding)
    BY <2>1 DEF HasBoth
  <2>3. \A list : FieldsMeaning(list) = {FieldMeaning(f) : f \in Elements(list)}
    BY MeaningOfFields
  <2> QED
    BY <2>2, <2>3
<1> QED
  BY <1>6, <1>7, <1>8

(* A packet that came over the wire can be put there again, and means the   *)
(* same.                                                                    *)
LEMMA PiPacketIsSentAgain ==
  ASSUME ErrorsAreNoMessages, NEW opts,
         NEW definitions, AreDefinitions(definitions), IsFiniteSet(definitions),
         NEW pi, IsPacket("pi", pi), PiPacketIoToIr(definitions, pi) # Refused
  PROVE  LET again == IrPacketIoToPi(opts, definitions, PiPacketIoToIr(definitions, pi))
         IN  again # Refused /\ PacketMeaning(again) = PacketMeaning(pi)
<1> DEFINE kept == NotPadding(definitions)
           metadata == pi.metadata
           data == DataOf(definitions, metadata)
           ir == PiParamsToIr(kept, data)
           again == IrParamsToPi(opts, kept, ir)
           padding == SetToSeq(PaddingPieces(definitions))
<1>1. pi = Packet(pi.payload, metadata) /\ IsFields("pi", metadata)
  BY PartsOfPacket
<1>2. /\ PiecesOk(definitions, metadata) /\ ir # Refused
      /\ PiPacketIoToIr(definitions, pi) = Packet(pi.payload, ir \o << >>)
  BY <1>1, PacketTranslations
<1>3. AreDefinitions(kept)
  BY DataDefinitions
<1>4. /\ IsFields("pi", data) /\ Len(data) = Cardinality(kept)
      /\ Elements(data) = {f \in Elements(metadata) : IsData(definitions, f)}
  BY <1>1, <1>2, DataAreComplete
<1> HIDE DEF data, kept
<1>5. /\ again # Refused /\ SameFields(again, data) /\ again = [i \in DOMAIN again |-> again[i]]
      /\ IsSequence(ir) /\ Len(ir) = Len(data)
  BY <1>2, <1>3, <1>4, PiParamsAreSentAgain, SMTT(40)
<1>6. IsSequence(again)
  <2>1. IsSequence(data) /\ DOMAIN again = DOMAIN data
    BY <1>4, <1>5, PartsOfFields DEF SameFields
  <2> HIDE DEF again
  <2> QED
    BY <1>5, <2>1, SequenceOfTheSameLength
<1>7. HasAllOnce(padding, PaddingPieces(definitions))
  BY PaddingIsCounted, SetsAreLists DEF AreDefinitions
<1>8. PiPacketIoToIr(definitions, pi) = Packet(pi.payload, ir)
  BY <1>2, <1>5, NothingJoined
<1> HIDE DEF ir
<1>9. IrPacketIoToPi(opts, definitions, Packet(pi.payload, ir)) = Packet(pi.payload, again \o padding)
  BY <1>4, <1>5, PacketTranslations DEF kept
<1> HIDE DEF again, padding
<1>10. FieldsMeaning(again) = FieldsMeaning(data)
  BY <1>5, SameFieldsMeanTheSame
<1> HIDE DEF metadata
<1>11. FieldsMeaning(again \o padding) = FieldsMeaning(metadata)
  BY <1>1, <1>2, <1>4, <1>6, <1>7, <1>10, MetadataMeaning
<1>12. PacketMeaning(Packet(pi.payload, again \o padding)) = PacketMeaning(Packet(pi.payload, metadata))
  BY <1>11, MeaningOfPacket
<1>13. Packet(pi.payload, again \o padding) # Refused
  BY PacketIsItsParts
<1> QED
  BY <1>1, <1>8, <1>9, <1>12, <1>13

------------------------------------------------------------------------------
(* Messages of the stream                                                  *)

WithNewPacket(message, packet) == [message EXCEPT !.packet = packet]

(* A message of the stream has a packet, unless it is an arbitration.       *)
HasPacket(side, message) ==
  /\ IsRecord(message, DOMAIN message) /\ {"kind", "packet"} \subseteq DOMAIN message
  /\ IsPacket(side, message.packet)

LEMMA MessageWithPacket ==
  ASSUME ErrorsAreNoMessages, NEW side, NEW message, HasPacket(side, message), NEW packet
  PROVE  LET new == WithNewPacket(message, packet)
         IN  /\ new # Refused /\ new.packet = packet /\ new.kind = message.kind
             /\ "details" \in DOMAIN message => new.details = message.details
             /\ \A other : WithNewPacket(new, other) = WithNewPacket(message, other)
             /\ WithNewPacket(message, message.packet) = message
             /\ StreamMeaning(new) = IF message.kind = "arbitration" THEN new
                                     ELSE WithNewPacket(message, PacketMeaning(packet))
<1> DEFINE new == WithNewPacket(message, packet)
<1>1. message = [f \in DOMAIN message |-> message[f]] /\ "kind" \in DOMAIN message /\ "packet" \in DOMAIN message
  BY DEF HasPacket, IsRecord
<1>2. new = [f \in DOMAIN message |-> IF f = "packet" THEN packet ELSE message[f]]
  BY DEF WithNewPacket
<1>3. new.packet = packet /\ new.kind = message.kind /\ ("details" \in DOMAIN message => new.details = message.details)
  BY <1>1, <1>2
<1>4. new # Refused
  <2>1. new = [f \in DOMAIN new |-> new[f]]
    BY <1>2
  <2> HIDE DEF new
  <2> QED
    BY <2>1, FunctionsAreNoErrors
<1>5. \A other : WithNewPacket(new, other) = WithNewPacket(message, other)
  BY <1>1 DEF WithNewPacket
<1>6. WithNewPacket(message, message.packet) = message
  BY <1>1 DEF WithNewPacket
<1>7. \A m : DOMAIN m = DOMAIN m /\ m.kind # "arbitration" =>
        StreamMeaning(m) = WithNewPacket(m, PacketMeaning(m.packet))
  BY DEF StreamMeaning, WithNewPacket, PacketMeaning
<1>8. new.kind = "arbitration" => StreamMeaning(new) = new
  BY DEF StreamMeaning
<1> HIDE DEF new
<1>9. StreamMeaning(new) = IF message.kind = "arbitration" THEN new ELSE WithNewPacket(message, PacketMeaning(packet))
  BY <1>3, <1>5, <1>7, <1>8
<1> QED
  BY <1>3, <1>4, <1>5, <1>6, <1>9 DEF new

LEMMA MeaningOfMessage ==
  ASSUME NEW message, message.kind # "arbitration"
  PROVE  StreamMeaning(message) = WithNewPacket(message, PacketMeaning(message.packet))
  BY DEF StreamMeaning, WithNewPacket, PacketMeaning

LEMMA KindsOfMessages ==
  ASSUME ErrorsAreNoMessages, NEW side, NEW message, IsStreamMessage(side, message)
  PROVE  /\ message \notin {Refused, None}
         /\ message.kind \in {"packet", "error"} => HasPacket(side, message)
         /\ message.kind = "error" => "details" \in DOMAIN message
         /\ side = "ir" /\ message.kind = "error" => message.details = "packet_out"
<1>1. message \notin {Refused, None}
  BY RecordsAreNoErrors DEF IsStreamMessage
<1> QED
  BY <1>1 DEF IsStreamMessage, HasPacket

(* A message with a packet, translated by the definitions of its metadata.  *)
IrPacketMessage(opts, definitions, message) ==
  WithPacket(message, IrPacketIoToPi(opts, definitions, message.packet))

PiPacketMessage(definitions, message) == WithPacket(message, PiPacketIoToIr(definitions, message.packet))

LEMMA PacketMessages ==
  ASSUME NEW opts, NEW definitions, NEW message
  PROVE  /\ IrPacketMessage(opts, definitions, message) =
              IF IrPacketIoToPi(opts, definitions, message.packet) = Refused THEN Refused
              ELSE WithNewPacket(message, IrPacketIoToPi(opts, definitions, message.packet))
         /\ PiPacketMessage(definitions, message) =
              IF PiPacketIoToIr(definitions, message.packet) = Refused THEN Refused
              ELSE WithNewPacket(message, PiPacketIoToIr(definitions, message.packet))
  BY DEF IrPacketMessage, PiPacketMessage, WithPacket, WithNewPacket

(* The same message, for the packet of another side.                        *)
SameKindAs(message, other) ==
  message.kind = other.kind /\ ("details" \in DOMAIN other => message.details = other.details)

LEMMA IrPacketMessageComesBack ==
  ASSUME ErrorsAreNoMessages, NEW opts, ~opts.allow_arbitrary_format,
         NEW definitions, AreDefinitions(definitions), IsFiniteSet(definitions),
         NEW ir, HasPacket("ir", ir), IrPacketMessage(opts, definitions, ir) # Refused
  PROVE  /\ SameKindAs(IrPacketMessage(opts, definitions, ir), ir)
         /\ PiPacketMessage(definitions, IrPacketMessage(opts, definitions, ir)) = ir
<1> DEFINE sent == IrPacketIoToPi(opts, definitions, ir.packet)
           pi   == WithNewPacket(ir, sent)
<1>1. sent # Refused /\ IrPacketMessage(opts, definitions, ir) = pi
  BY PacketMessages
<1>2. IsPacket("ir", ir.packet)
  BY DEF HasPacket
<1>3. PiPacketIoToIr(definitions, sent) = ir.packet
  BY <1>1, <1>2, IrPacketComesBack
<1> HIDE DEF sent
<1>4. /\ pi.packet = sent /\ SameKindAs(pi, ir)
      /\ WithNewPacket(pi, ir.packet) = WithNewPacket(ir, ir.packet) /\ WithNewPacket(ir, ir.packet) = ir
  BY MessageWithPacket DEF SameKindAs
<1>5. ir.packet # Refused
  BY <1>2, RecordsAreNoErrors DEF IsPacket
<1> HIDE DEF pi
<1>6. PiPacketMessage(definitions, pi) = WithNewPacket(pi, ir.packet)
  BY <1>3, <1>4, <1>5, PacketMessages
<1> QED
  BY <1>1, <1>4, <1>6

LEMMA PiPacketMessageIsSentAgain ==
  ASSUME ErrorsAreNoMessages, NEW opts,
         NEW definitions, AreDefinitions(definitions), IsFiniteSet(definitions),
         NEW pi, HasPacket("pi", pi), pi.kind # "arbitration", PiPacketMessage(definitions, pi) # Refused
  PROVE  LET again == IrPacketMessage(opts, definitions, PiPacketMessage(definitions, pi))
         IN  /\ SameKindAs(PiPacketMessage(definitions, pi), pi)
             /\ again # Refused /\ StreamMeaning(again) = StreamMeaning(pi)
<1> DEFINE read  == PiPacketIoToIr(definitions, pi.packet)
           ir    == WithNewPacket(pi, read)
           sent  == IrPacketIoToPi(opts, definitions, read)
           again == WithNewPacket(pi, sent)
<1>1. read # Refused /\ PiPacketMessage(definitions, pi) = ir
  BY PacketMessages
<1>2. IsPacket("pi", pi.packet)
  BY DEF HasPacket
<1>3. sent # Refused /\ PacketMeaning(sent) = PacketMeaning(pi.packet)
  BY <1>1, <1>2, PiPacketIsSentAgain
<1> HIDE DEF read
<1>4. ir.packet = read /\ SameKindAs(ir, pi) /\ WithNewPacket(ir, sent) = again
  BY MessageWithPacket DEF SameKindAs
<1> HIDE DEF ir
<1>5. IrPacketMessage(opts, definitions, ir) = WithNewPacket(ir, sent)
  BY <1>3, <1>4, PacketMessages
<1> HIDE DEF sent
<1>6. again # Refused /\ StreamMeaning(again) = WithNewPacket(pi, PacketMeaning(sent))
  BY MessageWithPacket
<1>7. StreamMeaning(pi) = WithNewPacket(pi, PacketMeaning(pi.packet))
  BY MeaningOfMessage
<1> HIDE DEF again
<1> QED
  BY <1>1, <1>3, <1>4, <1>5, <1>6, <1>7

LEMMA StreamTranslations ==
  ASSUME NEW info, NEW opts, NEW m
  PROVE  /\ IrStreamMessageRequestToPi(info, opts, m) =
              CASE m.kind = "arbitration" -> m
                [] m.kind = "packet"      -> IrPacketMessage(opts, info.packet_out_metadata, m)
                [] OTHER                  -> Refused
         /\ PiStreamMessageRequestToIr(info, m) =
              CASE m.kind = "arbitration" -> m
                [] m.kind = "packet"      -> PiPacketMessage(info.packet_out_metadata, m)
                [] OTHER                  -> Refused
         /\ IrStreamMessageResponseToPi(info, opts, m) =
              CASE m.kind = "arbitration" -> m
                [] m.kind = "packet"      -> IrPacketMessage(opts, info.packet_in_metadata, m)
                [] m.kind = "error"       -> IrPacketMessage(opts, info.packet_out_metadata, m)
                [] OTHER                  -> Refused
         /\ PiStreamMessageResponseToIr(info, m) =
              CASE m.kind = "arbitration" -> m
                [] m.kind = "packet"      -> PiPacketMessage(info.packet_in_metadata, m)
                [] m.kind = "error" /\ m.details = "packet_out" -> PiPacketMessage(info.packet_out_metadata, m)
                [] OTHER                  -> Refused
  BY DEF IrStreamMessageRequestToPi, PiStreamMessageRequestToIr, IrStreamMessageResponseToPi,
         PiStreamMessageResponseToIr, IrPacketMessage, PiPacketMessage

(* A message of the stream that is put on the wire is read as it was.       *)
LEMMA IrStreamComesBack ==
  ASSUME ErrorsAreNoMessages, NEW info, IsInfo(info), NEW opts, ~opts.allow_arbitrary_format,
         NEW ir, IsStreamMessage("ir", ir)
  PROVE  /\ IrStreamMessageRequestToPi(info, opts, ir) # Refused =>
              PiStreamMessageRequestToIr(info, IrStreamMessageRequestToPi(info, opts, ir)) = ir
         /\ IrStreamMessageResponseToPi(info, opts, ir) # Refused =>
              PiStreamMessageResponseToIr(info, IrStreamMessageResponseToPi(info, opts, ir)) = ir
<1> DEFINE ins  == info.packet_in_metadata
           outs == info.packet_out_metadata
<1>1. AreDefinitions(ins) /\ IsFiniteSet(ins) /\ AreDefinitions(outs) /\ IsFiniteSet(outs)
  BY DEF IsInfo
<1>2. /\ ir.kind \in {"packet", "error"} => HasPacket("ir", ir)
      /\ ir.kind = "error" => "details" \in DOMAIN ir /\ ir.details = "packet_out"
  BY KindsOfMessages
<1>3. \A definitions \in {ins, outs} :
        HasPacket("ir", ir) /\ IrPacketMessage(opts, definitions, ir) # Refused =>
          /\ SameKindAs(IrPacketMessage(opts, definitions, ir), ir)
          /\ PiPacketMessage(definitions, IrPacketMessage(opts, definitions, ir)) = ir
  BY <1>1, IrPacketMessageComesBack
<1> HIDE DEF ins, outs
<1>4. CASE ir.kind = "arbitration"
  BY <1>4, StreamTranslations
<1>5. CASE ir.kind = "packet"
  BY <1>2, <1>3, <1>5, StreamTranslations DEF SameKindAs, ins, outs
<1>6. CASE ir.kind = "error"
  BY <1>2, <1>3, <1>6, StreamTranslations DEF SameKindAs, ins, outs
<1>7. CASE ir.kind \notin {"arbitration", "packet", "error"}
  BY <1>7, StreamTranslations
<1> QED
  BY <1>4, <1>5, <1>6, <1>7

(* A message of the stream that came over the wire can be put there again,  *)
(* and means the same.                                                      *)
LEMMA PiStreamIsSentAgain ==
  ASSUME ErrorsAreNoMessages, NEW info, IsInfo(info), NEW opts, NEW pi, IsStreamMessage("pi", pi)
  PROVE  LET again    == IrStreamMessageRequestToPi(info, opts, PiStreamMessageRequestToIr(info, pi))
             answered == IrStreamMessageResponseToPi(info, opts, PiStreamMessageResponseToIr(info, pi))
         IN  /\ PiStreamMessageRequestToIr(info, pi) # Refused =>
                  again # Refused /\ StreamMeaning(again) = StreamMeaning(pi)
             /\ PiStreamMessageResponseToIr(info, pi) # Refused =>
                  answered # Refused /\ StreamMeaning(answered) = StreamMeaning(pi)
<1> DEFINE ins  == info.packet_in_metadata
           outs == info.packet_out_metadata
<1>1. AreDefinitions(ins) /\ IsFiniteSet(ins) /\ AreDefinitions(outs) /\ IsFiniteSet(outs)
  BY DEF IsInfo
<1>2. /\ pi # Refused
      /\ pi.kind \in {"packet", "error"} => HasPacket("pi", pi)
  BY KindsOfMessages
<1>3. \A definitions \in {ins, outs} :
        HasPacket("pi", pi) /\ pi.kind # "arbitration" /\ PiPacketMessage(definitions, pi) # Refused =>
          /\ SameKindAs(PiPacketMessage(definitions, pi), pi)
          /\ IrPacketMessage(opts, definitions, PiPacketMessage(definitions, pi)) # Refused
          /\ StreamMeaning(IrPacketMessage(opts, definitions, PiPacketMessage(definitions, pi))) = StreamMeaning(pi)
  BY <1>1, PiPacketMessageIsSentAgain
<1> HIDE DEF ins, outs
<1>4. CASE pi.kind = "arbitration"
  BY <1>2, <1>4, StreamTranslations
<1>5. CASE pi.kind = "packet"
  BY <1>2, <1>3, <1>5, StreamTranslations DEF SameKindAs, ins, outs
<1>6. CASE pi.kind = "error"
  BY <1>2, <1>3, <1>6, StreamTranslations DEF SameKindAs, ins, outs
<1>7. CASE pi.kind \notin {"arbitration", "packet", "error"}
  BY <1>7, StreamTranslations
<1> QED
  BY <1>4, <1>5, <1>6, <1>7

------------------------------------------------------------------------------
(* The IrP4Info of a program                                               *)

(* What a definition is made of that a program gives.                       *)
IsGivenAs(definition, element, info) ==
  /\ definition.id = element.id /\ definition.name = element.name
  /\ definition.format = Format(info, element) /\ definition.bitwidth = element.bitwidth

BitsOk(info, element) ==
  element.bitwidth \in Nat /\ (Format(info, element) = "HEX_STRING" => element.bitwidth # 0)

LEMMA FormatsAreDefined ==
  ASSUME NEW info, NEW element, FormatOk(info, element), BitsOk(info, element),
         NEW definition, IsGivenAs(definition, element, info)
  PROVE  IsDefinition(definition)
<1> DEFINE a == CHOOSE a \in Annotations("format", element) : TRUE
<1>1. CASE SdnString(info, element)
  <2>1. definition.format = "STRING"
    BY <1>1 DEF IsGivenAs, Format
  <2> QED
    BY <2>1 DEF IsDefinition, IsGivenAs, BitsOk, AddressFormats
<1>2. CASE ~SdnString(info, element) /\ HasAnnotation("format", element)
  <2>1. a \in Annotations("format", element)
    BY <1>2 DEF HasAnnotation
  <2>2. definition.format = a.args[1]
    BY <1>2 DEF IsGivenAs, Format
  <2> HIDE DEF a
  <2>3. \/ a.args = <<"MAC_ADDRESS">> /\ element.bitwidth = AddressBits.MAC_ADDRESS
        \/ a.args = <<"IPV4_ADDRESS">> /\ element.bitwidth = AddressBits.IPV4_ADDRESS
        \/ a.args = <<"IPV6_ADDRESS">> /\ element.bitwidth <= AddressBits.IPV6_ADDRESS
    BY <2>1 DEF FormatOk
  <2>4. \/ definition.format = "MAC_ADDRESS" /\ element.bitwidth = AddressBits.MAC_ADDRESS
        \/ definition.format = "IPV4_ADDRESS" /\ element.bitwidth = AddressBits.IPV4_ADDRESS
        \/ definition.format = "IPV6_ADDRESS" /\ element.bitwidth <= AddressBits.IPV6_ADDRESS
    BY <2>2, <2>3
  <2>5. definition.bitwidth = element.bitwidth /\ element.bitwidth \in Nat
    BY DEF IsGivenAs, BitsOk
  <2> QED
    BY <2>4, <2>5 DEF IsDefinition, AddressFormats
<1>3. CASE ~SdnString(info, element) /\ ~HasAnnotation("format", element)
  <2>1. definition.format = "HEX_STRING"
    BY <1>3 DEF IsGivenAs, Format
  <2> QED
    BY <2>1 DEF IsDefinition, IsGivenAs, BitsOk, AddressFormats
<1> QED
  BY <1>1, <1>2, <1>3


LEMMA UniqueElements ==
  ASSUME NEW fields, Unique(fields)
  PROVE  \A d, e \in Elements(fields) : d.id = e.id \/ d.name = e.name => d = e
  BY DEF Unique, Elements

(* The definitions of a list whose ids and names are unique.                *)
LEMMA DefinitionsAreKeyed ==
  ASSUME NEW info, NEW elements, \A d, e \in elements : d.id = e.id \/ d.name = e.name => d = e,
         \A e \in elements : FormatOk(info, e) /\ BitsOk(info, e),
         NEW given, \A e \in elements : IsGivenAs(given[e], e, info)
  PROVE  AreDefinitions(Images(given, elements))
<1>1. IsKeyed(Images(given, elements))
  BY DEF IsKeyed, Images, IsGivenAs
<1>2. \A d \in Images(given, elements) : IsDefinition(d)
  BY FormatsAreDefined DEF Images
<1> QED
  BY <1>1, <1>2 DEF AreDefinitions

LEMMA FormatsOfElements ==
  ASSUME NEW info, NEW elements, \A d, e \in elements : d.id = e.id \/ d.name = e.name => d = e,
         \A e \in elements : FormatOk(info, e) /\ BitsOk(info, e)
  PROVE  AreDefinitions({WithFormat(info, e) : e \in elements})
<1> DEFINE given == [e \in elements |-> WithFormat(info, e)]
<1>1. \A e \in elements : IsGivenAs(given[e], e, info)
  BY DEF IsGivenAs, WithFormat
<1>2. Images(given, elements) = {WithFormat(info, e) : e \in elements}
  BY DEF Images
<1> HIDE DEF given
<1>3. AreDefinitions(Images(given, elements))
  BY <1>1, DefinitionsAreKeyed
<1> QED
  BY <1>2, <1>3

LEMMA MatchFieldsAreDefined ==
  ASSUME NEW info, NEW table, MatchFieldsOk(info, table),
         \A f \in Elements(table.match_fields) : BitsOk(info, f)
  PROVE  LET fields == {IrMatchField(info, f) : f \in Elements(table.match_fields)}
         IN  IsKeyed(fields) /\ \A f \in fields : IsMatchField(f)
<1> DEFINE elements == Elements(table.match_fields)
           given == [f \in elements |-> IrMatchField(info, f)]
<1>1. \A d, e \in elements : d.id = e.id \/ d.name = e.name => d = e
  BY UniqueElements DEF MatchFieldsOk
<1>2. /\ \A f \in elements : FormatOk(info, f) /\ BitsOk(info, f)
      /\ \A f \in elements : ValidateMatchFieldDefinition(info, f)
  BY DEF MatchFieldsOk
<1>3. \A f \in elements : IsGivenAs(given[f], f, info) /\ given[f].match_type = f.match_type
  BY DEF IsGivenAs, IrMatchField
<1>4. Images(given, elements) = {IrMatchField(info, f) : f \in elements}
  BY DEF Images
<1> HIDE DEF given, elements
<1>5. AreDefinitions(Images(given, elements))
  BY <1>1, <1>2, <1>3, DefinitionsAreKeyed
<1>6. \A f \in elements : given[f].match_type \in {"LPM", "TERNARY"} => given[f].format # "STRING"
  BY <1>2, <1>3 DEF ValidateMatchFieldDefinition, IsGivenAs
<1>7. \A d \in Images(given, elements) : d.match_type \in {"LPM", "TERNARY"} => d.format # "STRING"
  BY <1>6 DEF Images
<1> QED
  BY <1>4, <1>5, <1>7 DEF AreDefinitions, IsMatchField, elements

LEMMA ProgramFields ==
  ASSUME NEW info, IsProgram(info)
  PROVE  /\ \A a \in Elements(info.actions) : \A p \in Elements(a.params) : BitsOk(info, p)
         /\ \A t \in Elements(info.tables) : \A f \in Elements(t.match_fields) : BitsOk(info, f)
         /\ \A c \in Elements(info.controller_packet_metadata) :
              IsSequence(c.metadata) /\ \A m \in Elements(c.metadata) : BitsOk(info, m)
<1>1. \A fields \in FieldLists(info) : IsSequence(fields) /\ \A f \in Elements(fields) : BitsOk(info, f)
  BY DEF IsProgram, BitsOk
<1>2. /\ \A a \in Elements(info.actions) : a.params \in FieldLists(info)
      /\ \A t \in Elements(info.tables) : t.match_fields \in FieldLists(info)
      /\ \A c \in Elements(info.controller_packet_metadata) : c.metadata \in FieldLists(info)
  BY DEF FieldLists
<1> QED
  BY <1>1, <1>2

(* The actions of a program, found by id.                                   *)
LEMMA ActionsAreFound ==
  ASSUME NEW info, IsProgram(info), NEW id \in DOMAIN ActionsById(info)
  PROVE  /\ ActionsById(info)[id].id = id
         /\ \E a \in Elements(info.actions) : ActionsById(info)[id] = IrAction(info, a)
<1> DEFINE actions == {IrAction(info, a) : a \in Elements(info.actions)}
           found == CHOOSE d \in actions : d.id = id
<1>1. id \in {d.id : d \in actions} /\ ActionsById(info)[id] = found
  BY DEF ActionsById, ById
<1>2. found \in actions /\ found.id = id
  BY <1>1
<1> QED
  BY <1>1, <1>2

LEMMA ActionParamsAreDefined ==
  ASSUME NEW info, IsProgram(info), NEW a \in Elements(info.actions)
  PROVE  AreDefinitions(IrAction(info, a).params)
<1>1. ActionOk(info, a)
  BY DEF IsProgram, CreationOk
<1>2. \A p \in Elements(a.params) : FormatOk(info, p) /\ BitsOk(info, p)
  BY <1>1, ProgramFields DEF ActionOk
<1>3. \A d, e \in Elements(a.params) : d.id = e.id \/ d.name = e.name => d = e
  BY <1>1, UniqueElements DEF ActionOk
<1>4. AreDefinitions({WithFormat(info, p) : p \in Elements(a.params)})
  BY <1>2, <1>3, FormatsOfElements
<1> QED
  BY <1>4 DEF IrAction

LEMMA TableActionsAreReferences ==
  ASSUME NEW info, IsProgram(info), NEW table \in Elements(info.tables)
  PROVE  AreReferences(IrTable(info, table).entry_actions)
<1> DEFINE refs == IrTable(info, table).entry_actions
<1>1. \A r \in refs : \E q \in Elements(table.action_refs) : r = IrActionReference(info, q)
  BY DEF IrTable
<1>2. \A q \in Elements(table.action_refs) : q.id \in DOMAIN ActionsById(info)
  BY DEF IsProgram, CreationOk, TableOk
<1> HIDE DEF refs
<1>3. \A r \in refs : \E a \in Elements(info.actions) : r.action = IrAction(info, a)
  <2> SUFFICES ASSUME NEW r \in refs PROVE \E a \in Elements(info.actions) : r.action = IrAction(info, a)
    OBVIOUS
  <2>1. PICK q \in Elements(table.action_refs) : r = IrActionReference(info, q)
    BY <1>1
  <2>2. r.action = ActionsById(info)[q.id]
    BY <2>1 DEF IrActionReference
  <2> QED
    BY <1>2, <2>2, ActionsAreFound
<1>4. \A a, b \in Elements(info.actions) : a.id = b.id \/ a.name = b.name => a = b
  BY UniqueElements DEF IsProgram, CreationOk
<1>5. \A a : IrAction(info, a).id = a.id /\ IrAction(info, a).name = a.name
  BY DEF IrAction
<1>6. ASSUME NEW r \in refs, NEW s \in refs
      PROVE  r.action.id = s.action.id <=> r.action.name = s.action.name
  <2>1. PICK a \in Elements(info.actions) : r.action = IrAction(info, a)
    BY <1>3
  <2>2. PICK b \in Elements(info.actions) : s.action = IrAction(info, b)
    BY <1>3
  <2>3. a.id = b.id <=> a.name = b.name
    BY <1>4
  <2> QED
    BY <1>5, <2>1, <2>2, <2>3
<1>7. \A r \in refs : AreDefinitions(r.action.params)
  BY <1>3, ActionParamsAreDefined
<1>8. AreReferences(refs)
  BY <1>6, <1>7 DEF AreReferences
<1> QED
  BY <1>8 DEF refs

LEMMA TablesAreTables ==
  ASSUME NEW info, IsProgram(info), NEW table \in Elements(info.tables)
  PROVE  IsTable(IrTable(info, table))
<1>1. MatchFieldsOk(info, table)
  BY DEF IsProgram, CreationOk, TableOk
<1>2. \A f \in Elements(table.match_fields) : BitsOk(info, f)
  BY ProgramFields
<1>3. LET fields == {IrMatchField(info, f) : f \in Elements(table.match_fields)}
      IN  IsKeyed(fields) /\ \A f \in fields : IsMatchField(f)
  BY <1>1, <1>2, MatchFieldsAreDefined
<1>4. IrTable(info, table).match_fields = {IrMatchField(info, f) : f \in Elements(table.match_fields)}
  BY DEF IrTable
<1> QED
  BY <1>3, <1>4 DEF IsTable

(* A table with the references that were found.                             *)
Inserted(references, t) ==
  [t EXCEPT !.outgoing_references = {r \in references : r.source = t.name},
            !.incoming_references = {r \in references : r.destination = t.name}]

LEMMA InsertedTables ==
  ASSUME NEW references, NEW info, NEW table, NEW t, t = Inserted(references, IrTable(info, table))
  PROVE  /\ t.id = table.id /\ t.name = table.name
         /\ t.match_fields = IrTable(info, table).match_fields
         /\ t.entry_actions = IrTable(info, table).entry_actions
<1> DEFINE made == IrTable(info, table)
<1>1. /\ {"id", "name", "match_fields", "entry_actions"} \subseteq DOMAIN made
      /\ made.id = table.id /\ made.name = table.name
  BY DEF IrTable
<1> HIDE DEF made
<1>2. \A f \in DOMAIN made \ {"outgoing_references", "incoming_references"} : Inserted(references, made)[f] = made[f]
  BY DEF Inserted
<1>3. t = Inserted(references, made)
  BY DEF made
<1>4. /\ t.id = made.id /\ t.name = made.name
      /\ t.match_fields = made.match_fields /\ t.entry_actions = made.entry_actions
  BY <1>1, <1>2, <1>3
<1> QED
  BY <1>1, <1>4 DEF made

(* A table that is found by id or by name is one of the program.            *)
LEMMA TablesAreFound ==
  ASSUME NEW info, IsProgram(info), NEW created, created = CreateIrP4Info(info)
  PROVE  LET In(table) == Inserted(ParseIrTableReferences(info), IrTable(info, table))
         IN  /\ DOMAIN created.tables_by_id = {t.id : t \in Elements(info.tables)}
             /\ DOMAIN created.tables_by_name = {t.name : t \in Elements(info.tables)}
             /\ \A t \in Elements(info.tables) :
                  created.tables_by_id[t.id] = In(t) /\ created.tables_by_name[t.name] = In(t)
<1> DEFINE references == ParseIrTableReferences(info)
           made == {IrTable(info, t) : t \in Elements(info.tables)}
<1>1. /\ created.tables_by_id = InsertReferences(references, ById(made))
      /\ created.tables_by_name = InsertReferences(references, ByName(made))
  BY DEF CreateIrP4Info, IrP4InfoOf
<1>2. \A s, t \in Elements(info.tables) : s.id = t.id \/ s.name = t.name => s = t
  BY UniqueElements DEF IsProgram, CreationOk
<1>3. \A t : IrTable(info, t).id = t.id /\ IrTable(info, t).name = t.name
  BY DEF IrTable
<1>4. \A s, t \in made : s.id = t.id \/ s.name = t.name => s = t
  BY <1>2, <1>3
<1>5. \A t \in Elements(info.tables) : IrTable(info, t) \in made
  OBVIOUS
<1>6. /\ {t.id : t \in made} = {t.id : t \in Elements(info.tables)}
      /\ {t.name : t \in made} = {t.name : t \in Elements(info.tables)}
  <2>1. \A t \in made : \E s \in Elements(info.tables) : t.id = s.id /\ t.name = s.name
    BY <1>3
  <2> HIDE DEF made
  <2> QED
    BY <1>3, <1>5, <2>1
<1> HIDE DEF made, references
<1>7. /\ DOMAIN ById(made) = {t.id : t \in made} /\ DOMAIN ByName(made) = {t.name : t \in made}
      /\ \A t \in made : ById(made)[t.id] = t /\ ByName(made)[t.name] = t
  BY <1>4 DEF ById, ByName
<1>8. \A map : DOMAIN InsertReferences(references, map) = DOMAIN map
  BY DEF InsertReferences
<1>9. \A map : \A k \in DOMAIN map : InsertReferences(references, map)[k] = Inserted(references, map[k])
  BY DEF InsertReferences, Inserted
<1>10. ASSUME NEW t \in Elements(info.tables)
       PROVE  /\ created.tables_by_id[t.id] = Inserted(references, IrTable(info, t))
              /\ created.tables_by_name[t.name] = Inserted(references, IrTable(info, t))
  <2> DEFINE m == IrTable(info, t)
  <2>1. m \in made /\ m.id = t.id /\ m.name = t.name
    BY <1>3, <1>5
  <2> HIDE DEF m
  <2>2. m.id \in DOMAIN ById(made) /\ m.name \in DOMAIN ByName(made)
    BY <1>7, <2>1
  <2>3. /\ InsertReferences(references, ById(made))[m.id] = Inserted(references, m)
        /\ InsertReferences(references, ByName(made))[m.name] = Inserted(references, m)
    BY <1>7, <1>9, <2>1, <2>2
  <2> QED
    BY <1>1, <2>1, <2>3 DEF m
<1> QED
  BY <1>1, <1>6, <1>7, <1>8, <1>10 DEF references

LEMMA ImagesAreFinite ==
  ASSUME NEW S, IsFiniteSet(S), NEW f
  PROVE  IsFiniteSet(Images(f, S))
<1> DEFINE g == [x \in S |-> f[x]]
<1>1. g \in Surjection(S, Images(f, S))
  BY DEF Surjection, Images
<1> HIDE DEF g
<1> QED
  BY <1>1, FS_Surjection

LEMMA ElementsAreFinite ==
  ASSUME NEW list, IsSequence(list)
  PROVE  IsFiniteSet(Elements(list))
<1>1. DOMAIN list = 1 .. Len(list) /\ Len(list) \in Nat
  BY PartsOfSequence
<1>2. IsFiniteSet(DOMAIN list)
  BY <1>1, SizeOfInterval
<1>3. IsFiniteSet(Images(list, DOMAIN list))
  BY <1>2, ImagesAreFinite
<1>4. Images(list, DOMAIN list) = Elements(list)
  BY DEF Images, Elements
<1> QED
  BY <1>3, <1>4

(* Only one message of a name has metadata.                                 *)
PiecesOf(info, message) ==
  UNION {Elements(c.metadata) : c \in {d \in Elements(info.controller_packet_metadata) : d.name = message}}

LEMMA PiecesOfOneMessage ==
  ASSUME NEW info, IsProgram(info), NEW message
  PROVE  \/ PiecesOf(info, message) = {}
         \/ \E c \in Elements(info.controller_packet_metadata) : PiecesOf(info, message) = Elements(c.metadata)
<1> DEFINE messages == info.controller_packet_metadata
<1>1. DOMAIN messages = 1 .. Len(messages) /\ Len(messages) \in Nat
  BY PartsOfSequence DEF IsProgram
<1>2. \A i \in DOMAIN messages : \A j \in 1 .. (i - 1) :
        messages[j].name = messages[i].name => messages[j].metadata = << >>
  BY DEF IsProgram, CreationOk, MetadataOk
<1>3. Elements(<< >>) = {}
  BY DEF Elements
<1>4. \A i, j \in DOMAIN messages :
        /\ messages[i].name = messages[j].name
        /\ Elements(messages[i].metadata) # {} /\ Elements(messages[j].metadata) # {}
        => i = j
  <2> SUFFICES ASSUME NEW i \in DOMAIN messages, NEW j \in DOMAIN messages,
                      messages[i].name = messages[j].name,
                      Elements(messages[i].metadata) # {}, Elements(messages[j].metadata) # {},
                      i # j
               PROVE  FALSE
    OBVIOUS
  <2>1. i \in 1 .. (j - 1) \/ j \in 1 .. (i - 1)
    BY <1>1
  <2> QED
    BY <1>2, <1>3, <2>1
<1>5. ASSUME NEW i \in DOMAIN messages, messages[i].name = message, Elements(messages[i].metadata) # {}
      PROVE  PiecesOf(info, message) = Elements(messages[i].metadata)
  <2>1. \A c \in Elements(messages) : c.name = message =>
          Elements(c.metadata) = {} \/ c = messages[i]
    BY <1>4, <1>5 DEF Elements
  <2>2. messages[i] \in Elements(messages)
    BY DEF Elements
  <2> QED
    BY <1>5, <2>1, <2>2 DEF PiecesOf
<1>6. ASSUME \A i \in DOMAIN messages : messages[i].name = message => Elements(messages[i].metadata) = {}
      PROVE  PiecesOf(info, message) = {}
  <2>1. \A c \in Elements(messages) : c.name = message => Elements(c.metadata) = {}
    BY <1>6 DEF Elements
  <2> QED
    BY <2>1 DEF PiecesOf
<1>7. \A i \in DOMAIN messages : messages[i] \in Elements(messages)
  BY DEF Elements
<1> QED
  BY <1>5, <1>6, <1>7

LEMMA MetadataIsDefined ==
  ASSUME NEW info, IsProgram(info), NEW message
  PROVE  AreDefinitions(Metadata(info, message)) /\ IsFiniteSet(Metadata(info, message))
<1> DEFINE pieces == PiecesOf(info, message)
           given == [e \in pieces |-> WithFormat(info, e)]
<1>1. Metadata(info, message) = {WithFormat(info, m) : m \in pieces}
  BY DEF Metadata, PiecesOf
<1>2. \A c \in Elements(info.controller_packet_metadata) :
        /\ IsSequence(c.metadata)
        /\ \A d, e \in Elements(c.metadata) : d.id = e.id \/ d.name = e.name => d = e
        /\ \A m \in Elements(c.metadata) : FormatOk(info, m) /\ BitsOk(info, m)
  <2>1. \A c \in Elements(info.controller_packet_metadata) :
          /\ Unique(c.metadata) /\ \A m \in Elements(c.metadata) : FormatOk(info, m)
    BY DEF IsProgram, CreationOk, MetadataOk, Elements
  <2> QED
    BY <2>1, ProgramFields, UniqueElements
<1>3. /\ IsFiniteSet(pieces)
      /\ \A d, e \in pieces : d.id = e.id \/ d.name = e.name => d = e
      /\ \A m \in pieces : FormatOk(info, m) /\ BitsOk(info, m)
  <2>1. CASE pieces = {}
    BY <2>1, FS_EmptySet
  <2>2. CASE \E c \in Elements(info.controller_packet_metadata) : pieces = Elements(c.metadata)
    BY <1>2, <2>2, ElementsAreFinite
  <2> QED
    BY <2>1, <2>2, PiecesOfOneMessage
<1>4. AreDefinitions({WithFormat(info, m) : m \in pieces})
  <2> HIDE DEF pieces
  <2> QED
    BY <1>3, FormatsOfElements
<1>5. Images(given, pieces) = {WithFormat(info, m) : m \in pieces}
  BY DEF Images
<1> HIDE DEF given, pieces
<1>6. IsFiniteSet(Images(given, pieces))
  BY <1>3, ImagesAreFinite
<1> QED
  BY <1>1, <1>4, <1>5, <1>6

(* The IrP4Info that is created from a program is what the translations     *)
(* need.                                                                    *)
LEMMA CreatedInfo ==
  ASSUME NEW info, IsProgram(info)
  PROVE  IsInfo(CreateIrP4Info(info))
<1> DEFINE created == CreateIrP4Info(info)
           In(table) == Inserted(ParseIrTableReferences(info), IrTable(info, table))
<1>1. /\ created.packet_in_metadata = Metadata(info, "packet_in")
      /\ created.packet_out_metadata = Metadata(info, "packet_out")
  BY DEF CreateIrP4Info, IrP4InfoOf
<1>2. /\ DOMAIN created.tables_by_id = {t.id : t \in Elements(info.tables)}
      /\ DOMAIN created.tables_by_name = {t.name : t \in Elements(info.tables)}
      /\ \A t \in Elements(info.tables) :
           created.tables_by_id[t.id] = In(t) /\ created.tables_by_name[t.name] = In(t)
  BY TablesAreFound
<1>3. \A t \in Elements(info.tables) :
        /\ In(t).id = t.id /\ In(t).name = t.name
        /\ IsTable(In(t)) /\ AreReferences(In(t).entry_actions)
  <2> SUFFICES ASSUME NEW t \in Elements(info.tables)
               PROVE  /\ In(t).id = t.id /\ In(t).name = t.name
                      /\ IsTable(In(t)) /\ AreReferences(In(t).entry_actions)
    OBVIOUS
  <2>1. /\ In(t).id = t.id /\ In(t).name = t.name
        /\ In(t).match_fields = IrTable(info, t).match_fields
        /\ In(t).entry_actions = IrTable(info, t).entry_actions
    BY InsertedTables
  <2>2. IsTable(IrTable(info, t)) /\ AreReferences(IrTable(info, t).entry_actions)
    BY TablesAreTables, TableActionsAreReferences
  <2> QED
    BY <2>1, <2>2 DEF IsTable
<1> HIDE DEF In, created
<1>4. \A u \in {created.tables_by_id[i] : i \in DOMAIN created.tables_by_id}
              \cup {created.tables_by_name[n] : n \in DOMAIN created.tables_by_name} :
        \E t \in Elements(info.tables) : u = In(t)
  BY <1>2
<1>5. \A u \in {created.tables_by_id[i] : i \in DOMAIN created.tables_by_id}
              \cup {created.tables_by_name[n] : n \in DOMAIN created.tables_by_name} :
        /\ u.id \in DOMAIN created.tables_by_id /\ created.tables_by_id[u.id] = u
        /\ u.name \in DOMAIN created.tables_by_name /\ created.tables_by_name[u.name] = u
        /\ IsTable(u) /\ AreReferences(u.entry_actions)
  <2> SUFFICES ASSUME NEW t \in Elements(info.tables), NEW u, u = In(t)
               PROVE  /\ u.id \in DOMAIN created.tables_by_id /\ created.tables_by_id[u.id] = u
                      /\ u.name \in DOMAIN created.tables_by_name /\ created.tables_by_name[u.name] = u
                      /\ IsTable(u) /\ AreReferences(u.entry_actions)
    BY <1>4
  <2> QED
    BY <1>2, <1>3
<1>6. /\ \A i \in DOMAIN created.tables_by_id : created.tables_by_id[i].id = i
      /\ \A n \in DOMAIN created.tables_by_name : created.tables_by_name[n].name = n
  BY <1>2, <1>3
<1>7. /\ AreDefinitions(created.packet_in_metadata) /\ AreDefinitions(created.packet_out_metadata)
      /\ IsFiniteSet(created.packet_in_metadata) /\ IsFiniteSet(created.packet_out_metadata)
  BY <1>1, MetadataIsDefined
<1>8. IsInfo(created)
  BY <1>5, <1>6, <1>7 DEF IsInfo
<1> QED
  BY <1>8 DEF created

(* The prefixes of such a program are of whole addresses.                   *)
LEMMA CreatedAddresses ==
  ASSUME NEW info, IsProgram(info), PrefixesAreOfWholeAddresses(info),
         NEW created, created = CreateIrP4Info(info), NEW id \in DOMAIN created.tables_by_id
  PROVE  HasWholeAddresses(created.tables_by_id[id])
<1> DEFINE In(table) == Inserted(ParseIrTableReferences(info), IrTable(info, table))
<1>1. PICK t \in Elements(info.tables) : created.tables_by_id[id] = In(t)
  BY TablesAreFound
<1>2. In(t).match_fields = IrTable(info, t).match_fields
  BY InsertedTables
<1>3. IrTable(info, t).match_fields = {IrMatchField(info, f) : f \in Elements(t.match_fields)}
  BY DEF IrTable
<1>4. MatchFieldsOk(info, t)
  BY DEF IsProgram, CreationOk, TableOk
<1>5. ASSUME NEW f \in Elements(t.match_fields), NEW d, d = IrMatchField(info, f), d.match_type = "LPM"
      PROVE  WireSize(d) = Ceiling(d.bitwidth, BitsPerByte)
  <2>1. IsGivenAs(d, f, info) /\ f.match_type = "LPM"
    BY <1>5 DEF IsGivenAs, IrMatchField
  <2>2. FormatOk(info, f) /\ BitsOk(info, f)
    BY <1>4, ProgramFields DEF MatchFieldsOk
  <2>3. IsDefinition(d)
    BY <2>1, <2>2, FormatsAreDefined
  <2>4. d.format \in {"MAC_ADDRESS", "IPV4_ADDRESS"} => d.bitwidth = AddressBits[d.format]
    BY <2>3 DEF IsDefinition
  <2>5. d.format = "IPV6_ADDRESS" =>
          Ceiling(d.bitwidth, BitsPerByte) = Ceiling(AddressBits["IPV6_ADDRESS"], BitsPerByte)
    <3>1. d.format = Format(info, f) /\ d.bitwidth = f.bitwidth
      BY <2>1 DEF IsGivenAs
    <3>2. AddressBits.IPV6_ADDRESS = AddressBits["IPV6_ADDRESS"]
      OBVIOUS
    <3>3. Format(info, f) = "IPV6_ADDRESS" =>
            Ceiling(f.bitwidth, BitsPerByte) = Ceiling(AddressBits.IPV6_ADDRESS, BitsPerByte)
      BY <1>5, <2>1, Zenon DEF PrefixesAreOfWholeAddresses
    <3> QED
      BY <3>1, <3>2, <3>3, Zenon
  <2>6. CASE d.format = "IPV6_ADDRESS"
    BY <2>5, <2>6 DEF WireSize, AddressFormats
  <2>7. CASE d.format \in {"MAC_ADDRESS", "IPV4_ADDRESS"}
    BY <2>4, <2>7 DEF WireSize, AddressFormats
  <2>8. CASE d.format \notin {"MAC_ADDRESS", "IPV4_ADDRESS", "IPV6_ADDRESS"}
    BY <2>8 DEF WireSize, AddressFormats
  <2> QED
    BY <2>6, <2>7, <2>8
<1> QED
  BY <1>1, <1>2, <1>3, <1>5 DEF HasWholeAddresses

------------------------------------------------------------------------------
(* The status of a write                                                   *)

StatusOf(code, message) == [code |-> code, message |-> message]

DetailsOf(statuses) == [code |-> UNKNOWN, statuses |-> statuses]

LEMMA PartsOfStatuses ==
  ASSUME NEW code, NEW message, NEW details, NEW statuses, NEW status
  PROVE  /\ GrpcStatus(code, message, details).code = code
         /\ GrpcStatus(code, message, details).message = message
         /\ GrpcStatus(code, message, details).details = details
         /\ Response(statuses).kind = "rpc_response" /\ Response(statuses).statuses = statuses
         /\ WideError(status).kind = "rpc_wide_error" /\ WideError(status).status = status
         /\ StatusOf(code, message).code = code /\ StatusOf(code, message).message = message
         /\ DetailsOf(statuses).code = UNKNOWN /\ DetailsOf(statuses).statuses = statuses
  BY DEF GrpcStatus, Response, WideError, StatusOf, DetailsOf

LEMMA StatusesAreNoErrors ==
  ASSUME ErrorsAreNoMessages, NEW code, NEW message, NEW details, NEW statuses, NEW status
  PROVE  /\ GrpcStatus(code, message, details) \notin {Refused, None}
         /\ Response(statuses) \notin {Refused, None}
         /\ WideError(status) \notin {Refused, None}
         /\ DetailsOf(statuses) # Refused
<1>1. IsRecord(GrpcStatus(code, message, details), {"code", "message", "details"})
  BY DEF IsRecord, GrpcStatus
<1>2. IsRecord(Response(statuses), {"kind", "statuses"})
  BY DEF IsRecord, Response
<1>3. IsRecord(WideError(status), {"kind", "status"})
  BY DEF IsRecord, WideError
<1>4. IsRecord(DetailsOf(statuses), {"code", "statuses"})
  BY DEF IsRecord, DetailsOf
<1> QED
  BY <1>1, <1>2, <1>3, <1>4, RecordsAreNoErrors

LEMMA WriteStatusIsItsParts ==
  ASSUME NEW status, IsIrWriteStatus(status)
  PROVE  /\ status.kind = "rpc_response" =>
              status = Response(status.statuses) /\ IsStatuses(status.statuses)
         /\ status.kind = "rpc_wide_error" =>
              status = WideError(status.status)
              /\ status.status = StatusOf(status.status.code, status.status.message)
<1>1. ASSUME status.kind = "rpc_response"
      PROVE  status = Response(status.statuses) /\ IsStatuses(status.statuses)
  <2>1. status = [f \in {"kind", "statuses"} |-> status[f]] /\ IsStatuses(status.statuses)
    BY <1>1 DEF IsIrWriteStatus, IsRecord
  <2> QED
    BY <1>1, <2>1 DEF Response
<1>2. ASSUME status.kind = "rpc_wide_error"
      PROVE  /\ status = WideError(status.status)
             /\ status.status = StatusOf(status.status.code, status.status.message)
  <2>1. status = [f \in {"kind", "status"} |-> status[f]] /\ IsStatus(status.status)
    BY <1>2 DEF IsIrWriteStatus, IsRecord
  <2>2. status.status = [f \in {"code", "message"} |-> status.status[f]]
    BY <2>1 DEF IsStatus, IsRecord
  <2> QED
    BY <1>2, <2>1, <2>2 DEF WideError, StatusOf
<1> QED
  BY <1>1, <1>2

(* As many updates that all succeeded.                                      *)
Successes(n) == [i \in 1 .. n |-> StatusOf(OK, "")]

AreSuccesses(statuses) == \A s \in Elements(statuses) : s.code = OK /\ s.message = ""

LEMMA SuccessesAreCounted ==
  ASSUME NEW n \in Nat
  PROVE  /\ Len(Successes(n)) = n /\ AllOK(Successes(n))
         /\ \A statuses : IsStatuses(statuses) /\ Len(statuses) = n /\ AreSuccesses(statuses) =>
              statuses = Successes(n)
<1>1. Successes(n) \in Seq({StatusOf(OK, "")})
  BY SeqDef DEF Successes
<1>2. Len(Successes(n)) = n /\ DOMAIN Successes(n) = 1 .. n
  BY <1>1 DEF Successes
<1>3. \A s \in Elements(Successes(n)) : s.code = OK
  <2>1. \A i \in DOMAIN Successes(n) : Successes(n)[i] = StatusOf(OK, "")
    BY DEF Successes
  <2>2. StatusOf(OK, "").code = OK
    BY DEF StatusOf
  <2> QED
    BY <2>1, <2>2 DEF Elements
<1>4. ASSUME NEW statuses, IsStatuses(statuses), Len(statuses) = n, AreSuccesses(statuses)
      PROVE  statuses = Successes(n)
  <2>1. DOMAIN statuses = 1 .. n /\ statuses = [i \in DOMAIN statuses |-> statuses[i]]
    BY <1>4, PartsOfSequence DEF IsStatuses, IsSequence
  <2>2. \A i \in 1 .. n : IsStatus(statuses[i]) /\ statuses[i].code = OK /\ statuses[i].message = ""
    BY <1>4, <2>1 DEF IsStatuses, AreSuccesses, Elements
  <2>3. \A i \in 1 .. n : statuses[i] = [f \in {"code", "message"} |-> statuses[i][f]]
    BY <2>2 DEF IsStatus, IsRecord
  <2>4. \A i \in 1 .. n : statuses[i] = StatusOf(OK, "")
    BY <2>2, <2>3 DEF StatusOf
  <2> QED
    BY <2>1, <2>4 DEF Successes
<1> QED
  BY <1>2, <1>3, <1>4 DEF AllOK

(* What a client reads from a status, by its code and its details.          *)
LEMMA StatusIsRead ==
  ASSUME NEW n \in Nat, NEW grpc
  PROVE  LET ir == GrpcStatusToIrWriteRpcStatus(grpc, n)
         IN  /\ grpc.code = OK =>
                  ir = IF grpc.message = "" /\ grpc.details = {} THEN Response(Successes(n)) ELSE Refused
             /\ grpc.code # OK /\ grpc.details = {} =>
                  ir = IF IsGoogleRpcCode(grpc.code)
                            THEN WideError(StatusOf(grpc.code, grpc.message)) ELSE Refused
             /\ grpc.code # OK /\ grpc.details # {} =>
                  ir = IF grpc.code = UNKNOWN /\ \A d \in grpc.details : DetailsOk(d, n)
                            THEN Response((CHOOSE d \in grpc.details : TRUE).statuses) ELSE Refused
  BY DEF GrpcStatusToIrWriteRpcStatus, Successes, StatusOf

(* What a server sends.                                                     *)
LEMMA StatusIsSent ==
  ASSUME NEW statuses, NEW status
  PROVE  /\ IrWriteRpcStatusToGrpcStatus(Response(statuses)) =
              IF AreSuccesses(statuses) THEN GrpcStatus(OK, "", {})
              ELSE IF StatusesOk(statuses)
              THEN GrpcStatus(UNKNOWN, IrWriteResponseToReadableMessage(statuses), {DetailsOf(statuses)})
              ELSE Refused
         /\ IrWriteRpcStatusToGrpcStatus(WideError(status)) =
              IF IsGoogleRpcCode(status.code) /\ status.code # OK
              THEN GrpcStatus(status.code, status.message, {}) ELSE Refused
<1>1. ASSUME NEW ir, ir.kind = "rpc_response"
      PROVE  IrWriteRpcStatusToGrpcStatus(ir) =
               IF AreSuccesses(ir.statuses) THEN GrpcStatus(OK, "", {})
               ELSE IrWriteResponseToGrpcStatus(ir.statuses)
  BY <1>1 DEF IrWriteRpcStatusToGrpcStatus, AreSuccesses
<1>2. ASSUME NEW ir, ir.kind = "rpc_wide_error"
      PROVE  IrWriteRpcStatusToGrpcStatus(ir) =
               IF IsGoogleRpcCode(ir.status.code) /\ ir.status.code # OK
               THEN GrpcStatus(ir.status.code, ir.status.message, {}) ELSE Refused
  BY <1>2 DEF IrWriteRpcStatusToGrpcStatus
<1>3. /\ Response(statuses).kind = "rpc_response" /\ Response(statuses).statuses = statuses
      /\ WideError(status).kind = "rpc_wide_error" /\ WideError(status).status = status
  BY PartsOfStatuses
<1>4. IrWriteRpcStatusToGrpcStatus(Response(statuses)) =
        IF AreSuccesses(statuses) THEN GrpcStatus(OK, "", {}) ELSE IrWriteResponseToGrpcStatus(statuses)
  BY <1>1, <1>3
<1>5. IrWriteRpcStatusToGrpcStatus(WideError(status)) =
        IF IsGoogleRpcCode(status.code) /\ status.code # OK
        THEN GrpcStatus(status.code, status.message, {}) ELSE Refused
  BY <1>2, <1>3
<1> QED
  BY <1>4, <1>5 DEF IrWriteResponseToGrpcStatus, DetailsOf

LEMMA StatusOfTheWhole ==
  ASSUME NEW n, NEW grpc, NEW ir, ir = GrpcStatusToIrWriteRpcStatus(grpc, n),
         MayBeRead(ir)
  PROVE  IsOkAsAWhole(grpc, ir, n)
<1> DEFINE whole == WriteRpcGrpcStatusToAbslStatus(grpc, n)
<1>1. whole = IF ir = Refused THEN Refused
              ELSE IF ir.kind = "rpc_wide_error" THEN ir.status.code
              ELSE IF AllOK(ir.statuses) THEN OK ELSE UNKNOWN
  BY DEF WriteRpcGrpcStatusToAbslStatus
<1>2. Refused # OK /\ UNKNOWN # OK
  BY NothingIsNoError DEF UNKNOWN, OK
<1> HIDE DEF whole
<1>3. whole = OK <=> ir # Refused /\ ir.kind = "rpc_response" /\ AllOK(ir.statuses)
  BY <1>1, <1>2 DEF MayBeRead
<1> QED
  BY <1>3 DEF whole, IsOkAsAWhole

(* What is read has a status for each update, or is an error of all.        *)
LEMMA ReadStatus ==
  ASSUME ErrorsAreNoMessages, NEW n \in Nat, NEW grpc,
         NEW ir, ir = GrpcStatusToIrWriteRpcStatus(grpc, n), ir # Refused
  PROVE  \/ ir.kind = "rpc_response" /\ Len(ir.statuses) = n
         \/ ir.kind = "rpc_wide_error" /\ ir.status.code # OK
<1>1. CASE grpc.code = OK
  <2>1. ir = Response(Successes(n))
    BY <1>1, StatusIsRead
  <2> QED
    BY <2>1, PartsOfStatuses, SuccessesAreCounted
<1>2. CASE grpc.code # OK /\ grpc.details = {}
  <2>1. ir = WideError(StatusOf(grpc.code, grpc.message))
    BY <1>2, StatusIsRead
  <2> QED
    BY <1>2, <2>1, PartsOfStatuses
<1>3. CASE grpc.code # OK /\ grpc.details # {}
  <2> DEFINE d == CHOOSE e \in grpc.details : TRUE
  <2>1. ir = Response(d.statuses) /\ \A e \in grpc.details : DetailsOk(e, n)
    BY <1>3, StatusIsRead
  <2>2. d \in grpc.details
    BY <1>3
  <2> HIDE DEF d
  <2>3. Len(d.statuses) = n
    BY <2>1, <2>2 DEF DetailsOk
  <2> QED
    BY <2>1, <2>3, PartsOfStatuses
<1> QED
  BY <1>1, <1>2, <1>3

(* What a server of the library says is read as it is, but for a number of  *)
(* statuses that is not that of the updates.                                *)
LEMMA SentStatus ==
  ASSUME ErrorsAreNoMessages, NEW n \in Nat, NEW answer_, IsIrWriteStatus(answer_),
         NEW grpc, grpc = IrWriteRpcStatusToGrpcStatus(answer_), grpc # Refused,
         NEW ir, ir = GrpcStatusToIrWriteRpcStatus(grpc, n)
  PROVE  \/ answer_.kind = "rpc_wide_error" /\ ir = answer_
         \/ /\ answer_.kind = "rpc_response"
            /\ Len(answer_.statuses) = n => ir = answer_
            /\ ir # Refused => ir = answer_ \/ AllOK(answer_.statuses)
<1>0. answer_.kind \in {"rpc_response", "rpc_wide_error"}
  BY DEF IrWriteRpcStatusToGrpcStatus
<1>1. CASE answer_.kind = "rpc_wide_error"
  <2> DEFINE s == answer_.status
  <2>1. answer_ = WideError(s) /\ s = StatusOf(s.code, s.message)
    BY <1>1, WriteStatusIsItsParts
  <2>2. IsGoogleRpcCode(s.code) /\ s.code # OK /\ grpc = GrpcStatus(s.code, s.message, {})
    <3> HIDE DEF s
    <3> QED
      BY <2>1, StatusIsSent
  <2> HIDE DEF s
  <2>3. grpc.code = s.code /\ grpc.message = s.message /\ grpc.details = {}
    BY <2>2 DEF GrpcStatus
  <2>4. ir = WideError(StatusOf(grpc.code, grpc.message))
    BY <2>2, <2>3, StatusIsRead
  <2> QED
    BY <1>1, <2>1, <2>3, <2>4
<1>2. CASE answer_.kind = "rpc_response"
  <2> DEFINE s == answer_.statuses
  <2>1. answer_ = Response(s) /\ IsStatuses(s)
    BY <1>2, WriteStatusIsItsParts
  <2> HIDE DEF s
  <2>2. answer_.statuses = s
    BY DEF s
  <2>3. CASE AreSuccesses(s)
    <3>1. grpc = GrpcStatus(OK, "", {})
      BY <2>1, <2>3, StatusIsSent
    <3>2. grpc.code = OK /\ grpc.message = "" /\ grpc.details = {}
      <4> DEFINE text == ""
                 none == {}
      <4>1. grpc = GrpcStatus(OK, text, none)
        BY <3>1
      <4> HIDE DEF text, none
      <4>2. grpc.code = OK /\ grpc.message = text /\ grpc.details = none
        BY <4>1, PartsOfStatuses
      <4> QED
        BY <4>2 DEF text, none
    <3>3. ir = Response(Successes(n))
      BY <3>2, StatusIsRead
    <3>4. Len(s) = n => s = Successes(n)
      BY <2>1, <2>3, SuccessesAreCounted
    <3>5. AllOK(s)
      BY <2>3 DEF AreSuccesses, AllOK
    <3> QED
      BY <1>2, <2>1, <2>2, <3>3, <3>4, <3>5
  <2>4. CASE ~AreSuccesses(s)
    <3> DEFINE text == IrWriteResponseToReadableMessage(s)
               details == DetailsOf(s)
    <3>1. StatusesOk(s) /\ grpc = GrpcStatus(UNKNOWN, text, {details})
      BY <2>1, <2>4, StatusIsSent
    <3>2. details # Refused /\ details.code = UNKNOWN /\ details.statuses = s
      BY StatusesAreNoErrors, PartsOfStatuses
    <3> HIDE DEF text, details
    <3>3. grpc.code = UNKNOWN /\ grpc.details = {details}
      BY <3>1 DEF GrpcStatus
    <3>4. grpc.code # OK /\ grpc.details # {} /\ (CHOOSE e \in grpc.details : TRUE) = details
      BY <3>3 DEF UNKNOWN, OK
    <3>5. ir = IF DetailsOk(details, n) THEN Response(s) ELSE Refused
      BY <3>2, <3>3, <3>4, StatusIsRead
    <3>6. ~AllOK(s)
      BY <2>4, <3>1 DEF AreSuccesses, AllOK, StatusesOk, ValidateGenericUpdateStatus
    <3>7. Len(s) = n => DetailsOk(details, n)
      BY <3>1, <3>2, <3>6 DEF DetailsOk
    <3> QED
      BY <1>2, <2>1, <2>2, <3>5, <3>7
  <2> QED
    BY <2>3, <2>4
<1> QED
  BY <1>0, <1>1, <1>2

LEMMA EveryOutcomeIsLearned ==
  ASSUME ErrorsAreNoMessages, NEW n \in Nat, NEW grpc, grpc # Refused,
         NEW answer_,
         answer_ # None => IsIrWriteStatus(answer_) /\ grpc = IrWriteRpcStatusToGrpcStatus(answer_),
         NEW ir, ir = GrpcStatusToIrWriteRpcStatus(grpc, n)
  PROVE  OutcomesAreLearned(answer_, grpc, ir, n)
<1>1. ir # Refused =>
        \/ ir.kind = "rpc_response" /\ Len(ir.statuses) = n
        \/ ir.kind = "rpc_wide_error" /\ ir.status.code # OK
  BY ReadStatus
<1>2. WriteRpcGrpcStatusToAbslStatus(grpc, n) = OK <=>
        ir # Refused /\ ir.kind = "rpc_response" /\ AllOK(ir.statuses)
  <2>1. MayBeRead(ir)
    BY <1>1 DEF MayBeRead
  <2>2. IsOkAsAWhole(grpc, ir, n)
    BY <2>1, StatusOfTheWhole
  <2> QED
    BY <2>2 DEF IsOkAsAWhole
<1>3. answer_ # None =>
        \/ answer_.kind = "rpc_wide_error" /\ ir = answer_
        \/ /\ answer_.kind = "rpc_response"
           /\ Len(answer_.statuses) = n => ir = answer_
           /\ ir # Refused => ir = answer_ \/ AllOK(answer_.statuses)
  BY SentStatus
<1>4. ir # Refused /\ ir.kind = "rpc_response" => Len(ir.statuses) = n
  BY <1>1
<1>5. ir # Refused /\ ir.kind = "rpc_response" /\ answer_ # None => answer_ = ir \/ AllOK(answer_.statuses)
  BY <1>3
<1>6. /\ answer_ # None /\ answer_.kind = "rpc_response" /\ Len(answer_.statuses) = n => ir = answer_
      /\ answer_ # None /\ answer_.kind = "rpc_wide_error" => ir = answer_
  BY <1>3
<1> QED
  BY <1>2, <1>4, <1>5, <1>6 DEF OutcomesAreLearned

(* What was read can be said again.                                         *)
LEMMA ReadStatusIsSentAgain ==
  ASSUME ErrorsAreNoMessages, NEW n \in Nat, NEW grpc,
         NEW ir, ir = GrpcStatusToIrWriteRpcStatus(grpc, n), ir # Refused
  PROVE  IrWriteRpcStatusToGrpcStatus(ir) # Refused
<1>1. CASE grpc.code = OK
  <2>1. ir = Response(Successes(n))
    BY <1>1, StatusIsRead
  <2>2. AreSuccesses(Successes(n))
    <3>1. \A i \in DOMAIN Successes(n) : Successes(n)[i] = StatusOf(OK, "")
      BY DEF Successes
    <3>2. StatusOf(OK, "").code = OK /\ StatusOf(OK, "").message = ""
      BY DEF StatusOf
    <3> QED
      BY <3>1, <3>2 DEF Elements, AreSuccesses
  <2>3. IrWriteRpcStatusToGrpcStatus(ir) = GrpcStatus(OK, "", {})
    BY <2>1, <2>2, StatusIsSent
  <2> QED
    BY <2>3, StatusesAreNoErrors
<1>2. CASE grpc.code # OK /\ grpc.details = {}
  <2> DEFINE s == StatusOf(grpc.code, grpc.message)
  <2>1. ir = WideError(s) /\ IsGoogleRpcCode(grpc.code)
    BY <1>2, StatusIsRead
  <2>2. s.code = grpc.code
    BY PartsOfStatuses
  <2> HIDE DEF s
  <2>3. IrWriteRpcStatusToGrpcStatus(ir) = GrpcStatus(s.code, s.message, {})
    BY <1>2, <2>1, <2>2, StatusIsSent
  <2> QED
    BY <2>3, StatusesAreNoErrors
<1>3. CASE grpc.code # OK /\ grpc.details # {}
  <2> DEFINE d == CHOOSE e \in grpc.details : TRUE
             s == d.statuses
  <2>1. ir = Response(s) /\ \A e \in grpc.details : DetailsOk(e, n)
    BY <1>3, StatusIsRead
  <2>2. d \in grpc.details
    BY <1>3
  <2> HIDE DEF d
  <2>3. StatusesOk(s)
    BY <2>1, <2>2 DEF DetailsOk
  <2> HIDE DEF s
  <2>4. IrWriteRpcStatusToGrpcStatus(ir) \in
          {GrpcStatus(OK, "", {}),
           GrpcStatus(UNKNOWN, IrWriteResponseToReadableMessage(s), {DetailsOf(s)})}
    BY <2>1, <2>3, StatusIsSent
  <2> QED
    BY <2>4, StatusesAreNoErrors
<1> QED
  BY <1>1, <1>2, <1>3

------------------------------------------------------------------------------
(* PD: what is read from it is proper IR                                   *)

Before(definitions, d) == {e \in definitions : e.id < d.id}

IsNumbered(definitions) ==
  /\ IsFiniteSet(definitions)
  /\ \A d \in definitions : d.id \in Nat
  /\ \A d, e \in definitions : d.id = e.id => d = e

LEMMA RankIsStrict ==
  ASSUME NEW S, IsNumbered(S), NEW d \in S
  PROVE  /\ Cardinality(Before(S, d)) \in 0 .. (Cardinality(S) - 1)
         /\ \A e \in S : d.id < e.id => Cardinality(Before(S, d)) < Cardinality(Before(S, e))
<1> DEFINE B == Before(S, d)
<1>1. B \subseteq S /\ d \notin B /\ IsFiniteSet(S) /\ d.id \in Nat
  BY DEF Before, IsNumbered
<1> HIDE DEF B
<1>2. IsFiniteSet(B) /\ Cardinality(B) \in Nat
  BY <1>1, FS_Subset, FS_CardinalityType
<1>3. IsFiniteSet(B \cup {d}) /\ Cardinality(B \cup {d}) = Cardinality(B) + 1
  BY <1>1, <1>2, FS_AddElement
<1>4. B \cup {d} \subseteq S /\ Cardinality(S) \in Nat
  BY <1>1, FS_CardinalityType
<1>5. Cardinality(B \cup {d}) <= Cardinality(S)
  BY <1>1, <1>4, FS_Subset
<1>6. ASSUME NEW e \in S, d.id < e.id
      PROVE  Cardinality(B) < Cardinality(Before(S, e))
  <2> DEFINE C == Before(S, e)
  <2>1. B \cup {d} \subseteq C /\ C \subseteq S
    <3>1. \A c \in S : c.id \in Nat
      BY DEF IsNumbered
    <3>2. e.id \in Nat
      BY <3>1
    <3>3. \A c \in B : c \in S /\ c.id \in Nat /\ c.id < d.id
      BY <3>1 DEF B, Before
    <3>4. \A c \in B : c.id < e.id
      BY <1>1, <1>6, <3>2, <3>3
    <3> QED
      BY <1>6, <3>3, <3>4 DEF Before
  <2> HIDE DEF C
  <2>2. IsFiniteSet(C) /\ Cardinality(C) \in Nat
    BY <1>1, <2>1, FS_Subset, FS_CardinalityType
  <2>3. Cardinality(B \cup {d}) <= Cardinality(C)
    BY <2>1, <2>2, FS_Subset
  <2>4. Cardinality(B) < Cardinality(C)
    BY <1>2, <1>3, <2>2, <2>3
  <2> QED
    BY <2>4 DEF C
<1>7. Cardinality(B) \in 0 .. (Cardinality(S) - 1)
  BY <1>2, <1>3, <1>4, <1>5
<1> QED
  BY <1>6, <1>7 DEF B

LEMMA EveryRankIsTaken ==
  ASSUME NEW S, IsNumbered(S), NEW i \in 1 .. Cardinality(S)
  PROVE  \E d \in S : Cardinality(Before(S, d)) = i - 1
<1> DEFINE rank == [d \in S |-> Cardinality(Before(S, d))]
           n == Cardinality(S)
<1>1. IsFiniteSet(S) /\ n \in Nat
  BY FS_CardinalityType DEF IsNumbered
<1>2. \A d \in S : rank[d] \in 0 .. (n - 1)
  BY RankIsStrict
<1>3. ASSUME NEW d \in S, NEW e \in S, rank[d] = rank[e]
      PROVE  d = e
  <2>1. d.id \in Nat /\ e.id \in Nat /\ (d.id = e.id => d = e)
    BY DEF IsNumbered
  <2>2. rank[d] \in Nat /\ rank[e] \in Nat
    BY <1>1, <1>2
  <2>3. /\ d.id < e.id => Cardinality(Before(S, d)) < Cardinality(Before(S, e))
        /\ e.id < d.id => Cardinality(Before(S, e)) < Cardinality(Before(S, d))
    BY RankIsStrict
  <2>4. /\ d.id < e.id => rank[d] < rank[e]
        /\ e.id < d.id => rank[e] < rank[d]
    BY <2>3
  <2> HIDE DEF rank
  <2> QED
    BY <1>3, <2>1, <2>2, <2>4
<1>4. rank = [d \in S |-> rank[d]]
  OBVIOUS
<1> HIDE DEF rank
<1>5. Cardinality(Images(rank, S)) = n
  BY <1>1, <1>3, <1>4, InjectiveImages
<1>6. IsFiniteSet(0 .. (n - 1)) /\ Cardinality(0 .. (n - 1)) = n
  <2>1. 0 \in Int /\ n - 1 \in Int
    BY <1>1
  <2>2. IsFiniteSet(0 .. (n - 1)) /\ Cardinality(0 .. (n - 1)) = IF 0 > n - 1 THEN 0 ELSE n - 1 - 0 + 1
    BY <2>1, FS_Interval
  <2> HIDE DEF n
  <2> QED
    BY <1>1, <2>2
<1>7. Images(rank, S) \subseteq 0 .. (n - 1)
  BY <1>2 DEF Images
<1>8. Images(rank, S) = 0 .. (n - 1)
  <2> HIDE DEF n
  <2> QED
    BY <1>5, <1>6, <1>7, FS_Subset
<1>9. i - 1 \in 0 .. (n - 1)
  BY <1>1
<1>10. PICK d \in S : rank[d] = i - 1
  BY <1>8, <1>9 DEF Images
<1> QED
  BY <1>10 DEF rank

LEMMA OrderedById ==
  ASSUME NEW S, IsNumbered(S)
  PROVE  IsSequence(InIdOrder(S)) /\ \A i \in DOMAIN InIdOrder(S) : InIdOrder(S)[i] \in S
<1> DEFINE n == Cardinality(S)
           list == InIdOrder(S)
<1>1. n \in Nat
  BY FS_CardinalityType DEF IsNumbered
<1>2. list = [i \in 1 .. n |-> CHOOSE d \in S : Cardinality(Before(S, d)) = i - 1]
  BY DEF InIdOrder, Before
<1>3. \A i \in 1 .. n : list[i] \in S
  BY <1>2, EveryRankIsTaken
<1> HIDE DEF list, n
<1>4. list = [i \in 1 .. n |-> list[i]]
  BY <1>2
<1>5. list \in Seq(S)
  BY <1>1, <1>3, <1>4, SeqDef
<1>6. IsSequence(list) /\ DOMAIN list = 1 .. n
  BY <1>4, <1>5, ListsAreSequences
<1> QED
  BY <1>3, <1>6 DEF list

------------------------------------------------------------------------------
(* What is put together from proper parts is proper                        *)

Piece(field, value) == [field |-> field, value |-> value]

LEMMA ProperFields ==
  ASSUME NEW side, NEW fields, IsSequence(fields),
         \A i \in DOMAIN fields : \E name, value : fields[i] = Piece(name, value) /\ IsValue(side, value)
  PROVE  IsFields(side, fields)
<1>1. ASSUME NEW i \in DOMAIN fields
      PROVE  IsRecord(fields[i], {"field", "value"}) /\ IsValue(side, fields[i].value)
  <2>1. PICK name, value : fields[i] = Piece(name, value) /\ IsValue(side, value)
    OBVIOUS
  <2>2. Piece(name, value).value = value /\ IsRecord(Piece(name, value), {"field", "value"})
    BY DEF Piece, IsRecord
  <2> QED
    BY <2>1, <2>2
<1> QED
  BY <1>1 DEF IsFields, Elements

LEMMA ProperMatches ==
  ASSUME NEW side, NEW matches, IsSequence(matches),
         \A i \in DOMAIN matches : \E name, value : matches[i] = Piece(name, value) /\ IsMatch(side, value)
  PROVE  IsMatches(side, matches)
<1>1. ASSUME NEW i \in DOMAIN matches
      PROVE  IsRecord(matches[i], {"field", "value"}) /\ IsMatch(side, matches[i].value)
  <2>1. PICK name, value : matches[i] = Piece(name, value) /\ IsMatch(side, value)
    OBVIOUS
  <2>2. Piece(name, value).value = value /\ IsRecord(Piece(name, value), {"field", "value"})
    BY DEF Piece, IsRecord
  <2> QED
    BY <2>1, <2>2
<1> QED
  BY <1>1 DEF IsMatches, Elements

LEMMA NoFieldsAreProper ==
  ASSUME NEW side
  PROVE  IsFields(side, << >>) /\ IsSequence(<< >>)
<1>1. IsSequence(<< >>) /\ Elements(<< >>) = {}
  BY DEF IsSequence, Elements
<1> QED
  BY <1>1 DEF IsFields

LEMMA ProperInvocation ==
  ASSUME NEW side, NEW action, NEW params, IsFields(side, params)
  PROVE  IsInvocation(side, Invocation(action, params))
  BY DEF IsInvocation, Invocation, IsRecord

LEMMA ProperMember ==
  ASSUME NEW side, NEW member, IsRecord(member, {"action", "weight", "port"}),
         NEW action, IsInvocation(side, action)
  PROVE  IsMember(side, WithAction(member, action))
<1>1. member = [f \in {"action", "weight", "port"} |-> member[f]]
  BY DEF IsRecord
<1>2. /\ WithAction(member, action) = [f \in {"action", "weight", "port"} |-> WithAction(member, action)[f]]
      /\ WithAction(member, action).action = action
  BY <1>1 DEF WithAction
<1> QED
  BY <1>2 DEF IsMember, IsRecord

LEMMA ProperSet ==
  ASSUME NEW side, NEW group, IsOptional(group), \A a \in group : IsInvocation(side, a),
         NEW members, AreMembers(side, members), NEW mode, NEW semantics
  PROVE  IsActionSet(side, Set(group, members, mode, semantics))
<1> DEFINE set == Set(group, members, mode, semantics)
<1>1. /\ set.type = "action_set" /\ set.group_action = group /\ set.members = members
      /\ IsRecord(set, {"type", "group_action", "members", "mode", "semantics"})
  BY DEF Set, IsRecord
<1> HIDE DEF set
<1>2. IsActionSet(side, set)
  BY <1>1 DEF IsActionSet, AreMembers, Elements
<1> QED
  BY <1>2 DEF set

LEMMA ProperEntry ==
  ASSUME NEW side, NEW table, NEW matches, IsMatches(side, matches), NEW priority, NEW metadata,
         NEW action, IsOptional(action), \A a \in action : IsAction(side, a),
         NEW meter, NEW data, NEW counter,
         NEW e, e = Entry(table, matches, priority, metadata, action, meter, data, counter)
  PROVE  IsTableEntry(side, e) /\ IsEntity(side, e)
<1>1. e.matches = matches /\ e.action = action /\ e.kind = "table_entry"
  BY PartsOfEntry
<1>2. IsRecord(e, EntryFields) /\ DOMAIN e = EntryFields
  BY DEF IsRecord, EntryFields, Entry
<1>3. IsTableEntry(side, e)
  BY <1>1, <1>2 DEF IsTableEntry
<1>4. "kind" \in DOMAIN e /\ IsRecord(e, DOMAIN e)
  BY <1>2 DEF EntryFields
<1> QED
  BY <1>1, <1>3, <1>4 DEF IsEntity

LEMMA ProperEntities ==
  ASSUME NEW side, NEW entities, IsSequence(entities), \A i \in DOMAIN entities : IsEntity(side, entities[i])
  PROVE  IsEntities(side, entities)
  BY DEF IsEntities, Elements

LEMMA ProperUpdates ==
  ASSUME NEW side, NEW updates, IsSequence(updates),
         \A i \in DOMAIN updates :
           \E type \in UpdateTypes \cup {"UNSPECIFIED"} : \E entity :
             updates[i] = Update(type, entity) /\ IsEntity(side, entity)
  PROVE  IsUpdates(side, updates)
<1>1. ASSUME NEW i \in DOMAIN updates
      PROVE  /\ IsRecord(updates[i], {"type", "entity"})
             /\ updates[i].type \in UpdateTypes \cup {"UNSPECIFIED"}
             /\ IsEntity(side, updates[i].entity)
  <2>0. PICK type \in UpdateTypes \cup {"UNSPECIFIED"} :
          \E entity : updates[i] = Update(type, entity) /\ IsEntity(side, entity)
    OBVIOUS
  <2>1. PICK entity : updates[i] = Update(type, entity) /\ IsEntity(side, entity)
    BY <2>0
  <2>2. /\ Update(type, entity).type = type /\ Update(type, entity).entity = entity
        /\ IsRecord(Update(type, entity), {"type", "entity"})
    BY DEF Update, IsRecord
  <2> QED
    BY <2>1, <2>2
<1> QED
  BY <1>1 DEF IsUpdates, Elements

(* Of an optional part that translates, everything translates.              *)
LEMMA OptionalPartIsOk ==
  ASSUME NEW part, IsOptional(part), OptionalOk(part)
  PROVE  Refused \notin part
  BY DEF IsOptional, OptionalOk

LEMMA OptionalImages ==
  ASSUME NEW part, IsOptional(part), NEW f
  PROVE  IsOptional({f[a] : a \in part})
  BY DEF IsOptional

(* Values and matches of PD                                                 *)

LEMMA TextIsValue ==
  ASSUME NEW text, IsIrValue(text), NEW format
  PROVE  IsIrValue(FormattedStringToIrValue(text, format))
<1> DEFINE none == IrValue(format, 0, 0)
<1>1. none.format = format /\ none.size = 0 /\ none.number = 0 /\ IsRecord(none, {"format", "size", "number"})
  BY DEF IrValue, IsRecord
<1> HIDE DEF none
<1>2. format \in AddressFormats => AddressBits[format] # 0
  BY BitsAreCounted DEF AddressFormats
<1>3. IsStructurallyValid(none)
  BY <1>1 DEF IsStructurallyValid
<1>4. IsIrValue(none)
  <2>1. none.size \in Nat /\ none.number \in Nat
    BY <1>1
  <2>2. ~(none.format \in AddressFormats /\ none.size = AddressBits[none.format])
    BY <1>1, <1>2
  <2>3. none.number < TwoTo[BitsPerByte * none.size]
    BY <1>1, BytesHaveBits, TwoToNext
  <2> QED
    BY <1>1, <1>3, <2>1, <2>2, <2>3 DEF IsIrValue
<1>5. FormattedStringToIrValue(text, format) \in {text, none}
  BY DEF FormattedStringToIrValue, none
<1> QED
  BY <1>4, <1>5

LEMMA NoTextIsValue == IsIrValue(NoText)
<1>1. /\ NoText.format = "NOT_SET" /\ NoText.size = 0 /\ NoText.number = 0
      /\ IsRecord(NoText, {"format", "size", "number"})
  BY DEF NoText, IrValue, IsRecord
<1> QED
  BY <1>1 DEF IsIrValue, AddressFormats

(* The match of a field, as it is read in the format of the field.          *)
TextMatch(match, format) ==
  [n \in DOMAIN match |->
     IF n \in {"value", "mask"} THEN FormattedStringToIrValue(match[n], format) ELSE match[n]]

LEMMA TextMatchIsMatch ==
  ASSUME NEW match, IsMatch("ir", match), NEW format
  PROVE  IsMatch("ir", TextMatch(match, format))
<1> DEFINE other == TextMatch(match, format)
<1>1. DOMAIN match = PartsOf(match.type) /\ \A n \in ValuesOf(match.type) : IsIrValue(match[n])
  BY DEF IsMatch, IsRecord, IsValue
<1>2. /\ other = [n \in DOMAIN match |-> other[n]] /\ DOMAIN other = DOMAIN match
      /\ \A n \in DOMAIN match : n \notin {"value", "mask"} => other[n] = match[n]
      /\ \A n \in DOMAIN match : n \in {"value", "mask"} =>
           other[n] = FormattedStringToIrValue(match[n], format)
  BY DEF TextMatch
<1> HIDE DEF other
<1>3. "type" \in DOMAIN match /\ ValuesOf(match.type) \subseteq DOMAIN match \cap {"value", "mask"}
  BY <1>1 DEF PartsOf, ValuesOf
<1>4. other.type = match.type
  BY <1>2, <1>3
<1>5. \A n \in ValuesOf(match.type) : IsIrValue(other[n])
  BY <1>1, <1>2, <1>3, TextIsValue
<1>6. IsMatch("ir", other)
  BY <1>1, <1>2, <1>4, <1>5 DEF IsMatch, IsRecord, IsValue
<1> QED
  BY <1>6 DEF other

NoExact == [type |-> "EXACT", value |-> NoText]

LEMMA NoExactIsMatch == IsMatch("ir", NoExact)
<1>1. NoExact.type = "EXACT" /\ NoExact.value = NoText /\ NoExact = [n \in {"type", "value"} |-> NoExact[n]]
  BY DEF NoExact
<1>2. ValuesOf("EXACT") = {"value"} /\ PartsOf("EXACT") = {"type", "value"}
  BY DEF ValuesOf, PartsOf
<1> QED
  BY <1>1, <1>2, NoTextIsValue DEF IsMatch, IsRecord, IsValue

AreTexts(pd) == \A n \in DOMAIN pd : IsMatch("ir", pd[n])

LEMMA PdMatchesAreProper ==
  ASSUME NEW table, IsNumbered(table.match_fields), NEW opts, NEW pd, AreTexts(pd),
         PdMatchEntryToIr(table, opts, pd) # Refused
  PROVE  IsMatches("ir", PdMatchEntryToIr(table, opts, pd))
<1> DEFINE used == {f \in table.match_fields : f.match_type = "EXACT" \/ f.name \in DOMAIN pd}
           list == InIdOrder(used)
           Match(f) == IF f.name \in DOMAIN pd THEN pd[f.name] ELSE NoExact
           ir == PdMatchEntryToIr(table, opts, pd)
<1>1. IsNumbered(used)
  BY FS_Subset DEF IsNumbered
<1>2. IsSequence(list)
  BY <1>1, OrderedById, SMTT(40)
<1>3. ir = [i \in DOMAIN list |-> Piece(list[i].name, TextMatch(Match(list[i]), list[i].format))]
  BY DEF PdMatchEntryToIr, EachValue, TextMatch, NoExact, Piece
<1> HIDE DEF ir, list
<1>4. IsSequence(ir) /\ DOMAIN ir = DOMAIN list
  <2>1. ir = [i \in DOMAIN list |-> ir[i]]
    BY <1>3
  <2> QED
    BY <1>2, <2>1, SequenceOfTheSameLength
<1>5. \A f : IsMatch("ir", Match(f))
  BY NoExactIsMatch DEF AreTexts
<1> HIDE DEF Match
<1>6. \A i \in DOMAIN ir : \E name, value : ir[i] = Piece(name, value) /\ IsMatch("ir", value)
  <2> SUFFICES ASSUME NEW i \in DOMAIN ir
               PROVE  \E name, value : ir[i] = Piece(name, value) /\ IsMatch("ir", value)
    OBVIOUS
  <2> DEFINE value == TextMatch(Match(list[i]), list[i].format)
  <2>1. IsMatch("ir", value)
    BY <1>5, TextMatchIsMatch
  <2>2. ir[i] = Piece(list[i].name, value)
    BY <1>3, <1>4
  <2> HIDE DEF value
  <2> QED
    BY <2>1, <2>2
<1>7. IsMatches("ir", ir)
  BY <1>4, <1>6, ProperMatches
<1> QED
  BY <1>7 DEF ir

(* Actions of PD                                                            *)

HasNumberedParams(info) == \A n \in DOMAIN info.actions_by_name : IsNumbered(info.actions_by_name[n].params)

LEMMA PdInvocationIsProper ==
  ASSUME NEW info, HasNumberedParams(info), NEW opts, NEW pd, IsPdInvocation(pd),
         PdActionInvocationToIr(info, opts, pd) # Refused
  PROVE  IsInvocation("ir", PdActionInvocationToIr(info, opts, pd))
<1> DEFINE action == info.actions_by_name[pd.action]
           given == {p \in action.params : p.name \in DOMAIN pd.params}
           list == InIdOrder(given)
           params == [i \in DOMAIN list |->
                        Piece(list[i].name, FormattedStringToIrValue(pd.params[list[i].name], list[i].format))]
<1>1. pd = Invocation(pd.action, pd.params) /\ \A n \in DOMAIN pd.params : IsIrValue(pd.params[n])
  BY SMTT(40) DEF IsPdInvocation, IsRecord, Invocation, IsTexts
<1>2. pd.action \in DOMAIN info.actions_by_name /\ PdActionInvocationToIr(info, opts, pd) = [pd EXCEPT !.params = params]
  BY DEF PdActionInvocationToIr, Piece
<1>3. IsNumbered(given)
  <2>1. IsNumbered(action.params)
    BY <1>2 DEF HasNumberedParams
  <2> HIDE DEF action
  <2> QED
    BY <2>1, FS_Subset, SMTT(40) DEF IsNumbered
<1>4. IsSequence(list) /\ \A i \in DOMAIN list : list[i] \in given
  BY <1>3, OrderedById
<1>5. \A i \in DOMAIN list : list[i].name \in DOMAIN pd.params
  BY <1>4
<1> HIDE DEF list, given, action
<1>6. IsSequence(params) /\ DOMAIN params = DOMAIN list
  <2>1. params = [i \in DOMAIN list |-> params[i]]
    OBVIOUS
  <2> HIDE DEF params
  <2> QED
    BY <1>4, <2>1, SequenceOfTheSameLength
<1>7. \A i \in DOMAIN params : \E name, value : params[i] = Piece(name, value) /\ IsValue("ir", value)
  <2> SUFFICES ASSUME NEW i \in DOMAIN list
               PROVE  \E name, value : params[i] = Piece(name, value) /\ IsValue("ir", value)
    BY <1>6
  <2> DEFINE value == FormattedStringToIrValue(pd.params[list[i].name], list[i].format)
  <2>1. IsIrValue(value)
    BY <1>1, <1>5, TextIsValue
  <2>2. params[i] = Piece(list[i].name, value)
    OBVIOUS
  <2> HIDE DEF value, params
  <2> QED
    BY <2>1, <2>2 DEF IsValue
<1> HIDE DEF params
<1>8. IsFields("ir", params)
  BY <1>6, <1>7, ProperFields
<1>9. [pd EXCEPT !.params = params] = Invocation(pd.action, params)
  BY <1>1 DEF Invocation
<1>10. IsInvocation("ir", Invocation(pd.action, params))
  BY <1>8, ProperInvocation
<1> QED
  BY <1>2, <1>9, <1>10

PdGroup(info, opts, group) == {PdActionInvocationToIr(info, opts, a) : a \in group}

PdMemberAction(info, opts, a) == IF a = NoAction THEN NoAction ELSE PdActionInvocationToIr(info, opts, a)

PdMembers(info, opts, members) == [i \in DOMAIN members |-> PdMemberAction(info, opts, members[i].action)]

LEMMA PdSetIsProper ==
  ASSUME NEW info, HasNumberedParams(info), NEW opts, NEW pd, IsPdActionSet(pd),
         PdActionSetToIr(info, opts, pd) # Refused
  PROVE  IsActionSet("ir", PdActionSetToIr(info, opts, pd))
<1> DEFINE group == PdGroup(info, opts, pd.group_action)
           actions == PdMembers(info, opts, pd.members)
           new == NewMembers(pd.members, actions)
<1>1. /\ pd = Set(pd.group_action, pd.members, pd.mode, pd.semantics)
      /\ IsOptional(pd.group_action) /\ \A a \in pd.group_action : IsPdInvocation(a)
      /\ IsSequence(pd.members)
      /\ \A i \in DOMAIN pd.members :
           IsRecord(pd.members[i], {"action", "weight", "port"}) /\ IsPdInvocation(pd.members[i].action)
  BY DEF IsPdActionSet, IsRecord, Set, Elements
<1>2. PdActionSetToIr(info, opts, pd) = WithActions(pd, group, actions)
  BY DEF PdActionSetToIr, PdGroup, PdMembers, PdMemberAction
<1> HIDE DEF group, actions
<1>3. WithActions(Set(pd.group_action, pd.members, pd.mode, pd.semantics), group, actions) =
        IF OptionalOk(group) /\ AllOk(actions) THEN Set(group, new, pd.mode, pd.semantics) ELSE Refused
  BY SetWithActions
<1>4. /\ PdActionSetToIr(info, opts, pd) = Set(group, new, pd.mode, pd.semantics)
      /\ OptionalOk(group) /\ AllOk(actions)
  BY <1>1, <1>2, <1>3
<1>5. IsOptional(group) /\ \A a \in group : IsInvocation("ir", a)
  <2>1. IsOptional(group)
    BY <1>1 DEF group, PdGroup, IsOptional
  <2>2. Refused \notin group
    BY <1>4, <2>1, OptionalPartIsOk
  <2>3. \A a \in group : \E p \in pd.group_action : a = PdActionInvocationToIr(info, opts, p)
    BY DEF group, PdGroup
  <2> QED
    BY <1>1, <2>1, <2>2, <2>3, PdInvocationIsProper
<1>6. \A i \in DOMAIN pd.members : IsInvocation("ir", actions[i])
  <2> SUFFICES ASSUME NEW i \in DOMAIN pd.members
               PROVE  IsInvocation("ir", actions[i])
    OBVIOUS
  <2> DEFINE a == pd.members[i].action
  <2>1. DOMAIN actions = DOMAIN pd.members /\ actions[i] = PdMemberAction(info, opts, a)
    BY DEF actions, PdMembers
  <2>2. actions[i] # Refused
    BY <1>4, <2>1 DEF AllOk
  <2>3. IsInvocation("ir", NoAction)
    <3>1. NoAction = Invocation("", << >>)
      BY DEF NoAction, Invocation
    <3> DEFINE name == ""
    <3>2. NoAction = Invocation(name, << >>)
      BY <3>1
    <3> HIDE DEF name
    <3>3. IsFields("ir", << >>)
      BY NoFieldsAreProper
    <3> QED
      BY <3>2, <3>3, ProperInvocation
  <2>4. IsPdInvocation(a)
    BY <1>1
  <2> HIDE DEF a
  <2> QED
    BY <2>1, <2>2, <2>3, <2>4, PdInvocationIsProper DEF PdMemberAction
<1>7. AreMembers("ir", new)
  <2>1. new = [i \in DOMAIN pd.members |-> new[i]]
    BY DEF NewMembers
  <2>2. \A i \in DOMAIN pd.members : new[i] = WithAction(pd.members[i], actions[i])
    BY DEF NewMembers
  <2> HIDE DEF new
  <2>3. IsSequence(new) /\ DOMAIN new = DOMAIN pd.members
    BY <1>1, <2>1, SequenceOfTheSameLength
  <2>4. \A i \in DOMAIN pd.members : IsMember("ir", new[i])
    BY <1>1, <1>6, <2>2, ProperMember
  <2> QED
    BY <2>3, <2>4 DEF AreMembers
<1> HIDE DEF new
<1> QED
  BY <1>4, <1>5, <1>7, ProperSet

ArePdActions(action) == IsOptional(action) /\ \A a \in action : IsPdInvocation(a) \/ IsPdActionSet(a)

LEMMA PdActionsAreProper ==
  ASSUME NEW info, HasNumberedParams(info), NEW opts, NEW table, NEW action, ArePdActions(action),
         NEW ir, ir = ActionToIr(table, info, opts, action), Refused \notin ir
  PROVE  IsOptional(ir) /\ \A a \in ir : IsAction("ir", a)
<1>1. \A a \in action : /\ a.type = "action" => IsPdInvocation(a)
                        /\ a.type = "action_set" => IsPdActionSet(a)
  BY DEF ArePdActions, IsPdInvocation, IsPdActionSet
<1>2. CASE ~UsesOneshot(table)
  <2>1. ir = {PdActionInvocationToIr(info, opts, a) : a \in OfType(action, "action")}
    BY <1>2 DEF ActionToIr
  <2>2. \A a \in OfType(action, "action") : IsPdInvocation(a)
    BY <1>1 DEF OfType
  <2>3. \A a \in ir : \E p : IsPdInvocation(p) /\ a = PdActionInvocationToIr(info, opts, p)
    BY <2>1, <2>2
  <2>4. \A a \in ir : IsInvocation("ir", a)
    BY <2>3, PdInvocationIsProper
  <2>5. IsOptional(ir)
    BY <2>1 DEF ArePdActions, IsOptional, OfType
  <2> QED
    BY <2>4, <2>5 DEF IsAction, IsInvocation
<1>3. CASE UsesOneshot(table)
  <2>1. OfType(action, "action_set") # {} /\ ir = {PdActionSetToIr(info, opts, a) : a \in action}
    BY <1>3 DEF ActionToIr
  <2>2. \A a \in action : IsPdActionSet(a)
    BY <1>1, <2>1 DEF ArePdActions, IsOptional, OfType
  <2>3. \A a \in ir : \E p : IsPdActionSet(p) /\ a = PdActionSetToIr(info, opts, p)
    BY <2>1, <2>2
  <2>4. \A a \in ir : IsActionSet("ir", a)
    BY <2>3, PdSetIsProper
  <2>5. IsOptional(ir)
    BY <2>1 DEF ArePdActions, IsOptional
  <2> QED
    BY <2>4, <2>5 DEF IsAction, IsActionSet
<1> QED
  BY <1>2, <1>3

(* Entities of PD                                                           *)

WithParts(entry, matches, action) == [entry EXCEPT !.matches = matches, !.action = action]

WithCounters(entry, meter, data, counter) ==
  [entry EXCEPT !.meter_config = meter, !.meter_counter_data = data, !.counter_data = counter]

LEMMA ChangedEntry ==
  ASSUME NEW table, NEW matches, NEW priority, NEW metadata, NEW action, NEW meter, NEW data, NEW counter,
         NEW newMatches, NEW newAction, NEW newMeter, NEW newData, NEW newCounter
  PROVE  /\ WithParts(Entry(table, matches, priority, metadata, action, meter, data, counter), newMatches, newAction)
              = Entry(table, newMatches, priority, metadata, newAction, meter, data, counter)
         /\ WithCounters(Entry(table, matches, priority, metadata, action, meter, data, counter),
                         newMeter, newData, newCounter)
              = Entry(table, matches, priority, metadata, action, newMeter, newData, newCounter)
<1> DEFINE e == Entry(table, matches, priority, metadata, action, meter, data, counter)
<1>1. [e EXCEPT !.matches = newMatches] = Entry(table, newMatches, priority, metadata, action, meter, data, counter)
  BY DEF Entry
<1>2. [Entry(table, newMatches, priority, metadata, action, meter, data, counter) EXCEPT !.action = newAction]
        = Entry(table, newMatches, priority, metadata, newAction, meter, data, counter)
  BY DEF Entry
<1>3. [e EXCEPT !.meter_config = newMeter] = Entry(table, matches, priority, metadata, action, newMeter, data, counter)
  BY DEF Entry
<1>4. [Entry(table, matches, priority, metadata, action, newMeter, data, counter) EXCEPT !.meter_counter_data = newData]
        = Entry(table, matches, priority, metadata, action, newMeter, newData, counter)
  BY DEF Entry
<1>5. [Entry(table, matches, priority, metadata, action, newMeter, newData, counter) EXCEPT !.counter_data = newCounter]
        = Entry(table, matches, priority, metadata, action, newMeter, newData, newCounter)
  BY DEF Entry
<1> HIDE DEF e
<1>6. WithParts(e, newMatches, newAction) = [[e EXCEPT !.matches = newMatches] EXCEPT !.action = newAction]
  BY DEF WithParts
<1>7. WithCounters(e, newMeter, newData, newCounter)
        = [[[e EXCEPT !.meter_config = newMeter] EXCEPT !.meter_counter_data = newData]
              EXCEPT !.counter_data = newCounter]
  BY DEF WithCounters
<1> QED
  BY <1>1, <1>2, <1>3, <1>4, <1>5, <1>6, <1>7 DEF e

IsForPd(info) ==
  /\ \A n \in DOMAIN info.tables_by_name : IsNumbered(info.tables_by_name[n].match_fields)
  /\ HasNumberedParams(info)

LEMMA ProperKey ==
  ASSUME NEW side, NEW table, NEW matches, IsMatches(side, matches), NEW priority, NEW metadata,
         NEW action, NEW meter, NEW data, NEW counter,
         NEW e, e = Entry(table, matches, priority, metadata, action, meter, data, counter)
  PROVE  IsEntity(side, OnlyKey(e))
<1>1. OnlyKey(Entry(table, matches, priority, metadata, action, meter, data, counter))
        = Entry(table, matches, priority, "", {}, {}, {}, {})
  BY KeyOfEntry
<1> DEFINE text == ""
           none == {}
           key == OnlyKey(e)
<1>2. key = Entry(table, matches, priority, text, none, none, none, none)
  BY <1>1
<1>3. IsOptional(none) /\ \A a \in none : IsAction(side, a)
  BY DEF IsOptional
<1> HIDE DEF text, none, key
<1>4. IsEntity(side, key)
  BY <1>2, <1>3, ProperEntry
<1> QED
  BY <1>4 DEF key

LEMMA PdEntryIsProper ==
  ASSUME NEW info, IsForPd(info), NEW opts, NEW pd, pd.kind = "table_entry", IsPdTableEntry(pd),
         PdTableEntryToIr(info, opts, pd) # Refused
  PROVE  IsEntity("ir", PdTableEntryToIr(info, opts, pd))
<1> DEFINE table == info.tables_by_name[pd.table]
           matches == PdMatchEntryToIr(table, opts, pd.matches)
           action == ActionToIr(table, info, opts, pd.action)
           counted == CountersToIr(table, pd)
           whole == WithParts(counted, matches, action)
           ir == PdTableEntryToIr(info, opts, pd)
<1>1. /\ pd = Entry(pd.table, pd.matches, pd.priority, pd.metadata, pd.action, pd.meter_config,
                    pd.meter_counter_data, pd.counter_data)
      /\ AreTexts(pd.matches) /\ ArePdActions(pd.action)
  BY DEF IsPdTableEntry, IsRecord, EntryFields, Entry, AreTexts, ArePdActions
<1>2. /\ pd.table \in DOMAIN info.tables_by_name /\ matches # Refused
      /\ opts.key_only \/ Refused \notin action
      /\ ir = IF opts.key_only THEN OnlyKey(whole) ELSE whole
  BY DEF PdTableEntryToIr, WithParts
<1>3. IsNumbered(table.match_fields) /\ HasNumberedParams(info)
  BY <1>2, SMTT(40) DEF IsForPd
<1>4. PICK meter, data, counter : counted = WithCounters(pd, meter, data, counter)
  BY DEF CountersToIr, WithCounters
<1> HIDE DEF matches, action, counted, table, ir
<1>5. IsMatches("ir", matches)
  BY <1>1, <1>2, <1>3, PdMatchesAreProper DEF matches
<1>6. counted = Entry(pd.table, pd.matches, pd.priority, pd.metadata, pd.action, meter, data, counter)
  BY <1>1, <1>4, ChangedEntry
<1>7. whole = Entry(pd.table, matches, pd.priority, pd.metadata, action, meter, data, counter)
  BY <1>6, ChangedEntry
<1> HIDE DEF whole
<1>8. CASE opts.key_only
  <2>1. ir = OnlyKey(whole)
    BY <1>2, <1>8
  <2>2. IsEntity("ir", ir)
    BY <1>5, <1>7, <2>1, ProperKey
  <2> QED
    BY <2>2 DEF ir
<1>9. CASE ~opts.key_only
  <2>1. ir = Entry(pd.table, matches, pd.priority, pd.metadata, action, meter, data, counter)
    BY <1>2, <1>7, <1>9
  <2>2. IsOptional(action) /\ \A a \in action : IsAction("ir", a)
    BY <1>1, <1>2, <1>3, <1>9, PdActionsAreProper DEF action
  <2>3. IsEntity("ir", ir)
    BY <1>5, <2>1, <2>2, ProperEntry
  <2> QED
    BY <2>3 DEF ir
<1> QED
  BY <1>8, <1>9

Group(id, metadata, replicas) ==
  [kind |-> "multicast_group_entry", group_id |-> id, metadata |-> metadata, replicas |-> replicas]

LEMMA ProperGroup ==
  ASSUME NEW side, NEW id, NEW metadata, NEW replicas, IsReplicas(side, replicas),
         NEW group, group = Group(id, metadata, replicas)
  PROVE  IsEntity(side, group)
<1>1. /\ group.kind = "multicast_group_entry" /\ group.replicas = replicas
      /\ DOMAIN group = GroupFields /\ group = [f \in GroupFields |-> group[f]]
  BY DEF Group, GroupFields
<1>2. "kind" \in GroupFields
  BY DEF GroupFields
<1> QED
  BY <1>1, <1>2 DEF IsEntity, IsRecord

LEMMA NoReplicas ==
  ASSUME NEW side
  PROVE  IsReplicas(side, << >>)
<1>1. IsSequence(<< >>) /\ Elements(<< >>) = {}
  BY DEF IsSequence, Elements
<1> QED
  BY <1>1 DEF IsReplicas

LEMMA PdGroupIsProper ==
  ASSUME NEW opts, NEW pd, pd.kind = "multicast_group_entry", \A r \in pd.replicate : IsReplicas("ir", r),
         PdMulticastGroupEntryToIr(opts, pd) # Refused
  PROVE  IsEntity("ir", PdMulticastGroupEntryToIr(opts, pd))
<1> DEFINE replicas == CHOOSE r \in pd.replicate : TRUE
           ir == PdMulticastGroupEntryToIr(opts, pd)
<1>1. \A metadata, list :
        [kind |-> pd.kind, group_id |-> pd.group_id, metadata |-> metadata, replicas |-> list]
          = Group(pd.group_id, metadata, list)
  BY DEF Group
<1>2. CASE opts.key_only
  <2> DEFINE text == ""
             none == << >>
  <2>1. ir = Group(pd.group_id, text, none)
    BY <1>1, <1>2 DEF PdMulticastGroupEntryToIr
  <2>2. IsReplicas("ir", none)
    BY NoReplicas
  <2> HIDE DEF text, none, ir
  <2>3. IsEntity("ir", ir)
    BY <2>1, <2>2, ProperGroup
  <2> QED
    BY <2>3 DEF ir
<1>3. CASE ~opts.key_only
  <2>1. pd.replicate # {} /\ ir = Group(pd.group_id, pd.metadata, replicas)
    BY <1>1, <1>3 DEF PdMulticastGroupEntryToIr
  <2>2. replicas \in pd.replicate
    BY <2>1
  <2> HIDE DEF replicas, ir
  <2>3. IsEntity("ir", ir)
    BY <2>1, <2>2, ProperGroup
  <2> QED
    BY <2>3 DEF ir
<1> QED
  BY <1>2, <1>3

LEMMA PdEntityIsProper ==
  ASSUME NEW info, IsForPd(info), NEW opts, NEW pd, IsPdEntity(pd),
         PdTableEntryToIrEntity(info, opts, pd) # Refused
  PROVE  IsEntity("ir", PdTableEntryToIrEntity(info, opts, pd))
<1>1. CASE pd.kind = "table_entry" /\ IsPdTableEntry(pd)
  <2>1. PdTableEntryToIrEntity(info, opts, pd) = PdTableEntryToIr(info, opts, pd)
    BY <1>1 DEF PdTableEntryToIrEntity
  <2> QED
    BY <1>1, <2>1, PdEntryIsProper
<1>2. CASE pd.kind = "multicast_group_entry" /\ \A r \in pd.replicate : IsReplicas("ir", r)
  <2>1. PdTableEntryToIrEntity(info, opts, pd) = PdMulticastGroupEntryToIr(opts, pd)
    BY <1>2 DEF PdTableEntryToIrEntity
  <2> QED
    BY <1>2, <2>1, PdGroupIsProper
<1> QED
  BY <1>1, <1>2 DEF IsPdEntity

(* Requests of PD                                                           *)

LEMMA ProperWrite ==
  ASSUME NEW device, NEW election, NEW updates, IsUpdates("ir", updates)
  PROVE  IsWrite("ir", IrWrite(device, election, updates))
<1>1. WriteFields("ir") = {"device_id", "election_id", "updates"}
  BY DEF WriteFields
<1>2. IrWrite(device, election, updates).updates = updates
  BY DEF IrWrite
<1>3. IsRecord(IrWrite(device, election, updates), {"device_id", "election_id", "updates"})
  BY DEF IsRecord, IrWrite
<1> QED
  BY <1>1, <1>2, <1>3 DEF IsWrite

IrFromPd(info, opts, u) == WithEntity(u, PdTableEntryToIrEntity(info, opts, u.entity))

LEMMA PdUpdateIsProper ==
  ASSUME NEW info, IsForPd(info), NEW opts,
         NEW u, IsRecord(u, {"type", "entity"}), IsPdEntity(u.entity), IrFromPd(info, opts, u) # Refused
  PROVE  \E entity : IrFromPd(info, opts, u) = Update(u.type, entity) /\ IsEntity("ir", entity)
<1> DEFINE entity == PdTableEntryToIrEntity(info, opts, u.entity)
<1>1. entity # Refused /\ IrFromPd(info, opts, u) = [u EXCEPT !.entity = entity]
  BY DEF IrFromPd, WithEntity
<1>2. IsEntity("ir", entity)
  BY <1>1, PdEntityIsProper
<1> HIDE DEF entity
<1>3. u = [f \in {"type", "entity"} |-> u[f]]
  BY DEF IsRecord
<1>4. [u EXCEPT !.entity = entity] = Update(u.type, entity)
  BY <1>3 DEF Update
<1> QED
  BY <1>1, <1>2, <1>4

LEMMA PdWriteIsProper ==
  ASSUME NEW info, IsForPd(info), NEW opts, NEW pd, IsPdWrite(pd),
         PdWriteRequestToIr(info, opts, pd) # Refused
  PROVE  IsWrite("ir", PdWriteRequestToIr(info, opts, pd))
<1> DEFINE updates == [i \in DOMAIN pd.updates |-> IrFromPd(info, opts, pd.updates[i])]
<1>1. PdWriteRequestToIr(info, opts, pd) = WithUpdates(pd, All(updates))
  BY DEF PdWriteRequestToIr, IrFromPd
<1>2. /\ IsSequence(pd.updates)
      /\ \A i \in DOMAIN pd.updates :
           /\ IsRecord(pd.updates[i], {"type", "entity"})
           /\ pd.updates[i].type \in UpdateTypes \cup {"UNSPECIFIED"} /\ IsPdEntity(pd.updates[i].entity)
  BY DEF IsPdWrite, Elements
<1>3. updates = [i \in DOMAIN pd.updates |-> updates[i]]
  OBVIOUS
<1>4. \A i \in DOMAIN pd.updates : updates[i] = IrFromPd(info, opts, pd.updates[i])
  OBVIOUS
<1> HIDE DEF updates
<1>5. AllOk(updates) /\ PdWriteRequestToIr(info, opts, pd) = [pd EXCEPT !.updates = updates]
  BY <1>1 DEF WithUpdates, All
<1>6. IsSequence(updates) /\ DOMAIN updates = DOMAIN pd.updates
  BY <1>2, <1>3, SequenceOfTheSameLength
<1>7. \A i \in DOMAIN updates :
        \E type \in UpdateTypes \cup {"UNSPECIFIED"} : \E entity :
          updates[i] = Update(type, entity) /\ IsEntity("ir", entity)
  <2> SUFFICES ASSUME NEW i \in DOMAIN updates
               PROVE  \E type \in UpdateTypes \cup {"UNSPECIFIED"} : \E entity :
                        updates[i] = Update(type, entity) /\ IsEntity("ir", entity)
    OBVIOUS
  <2> DEFINE u == pd.updates[i]
  <2>1. IrFromPd(info, opts, u) # Refused
    BY <1>4, <1>5, <1>6 DEF AllOk
  <2>2. IsRecord(u, {"type", "entity"}) /\ u.type \in UpdateTypes \cup {"UNSPECIFIED"} /\ IsPdEntity(u.entity)
    BY <1>2, <1>6
  <2>3. updates[i] = IrFromPd(info, opts, u)
    BY <1>4, <1>6
  <2> HIDE DEF u
  <2>4. \E entity : IrFromPd(info, opts, u) = Update(u.type, entity) /\ IsEntity("ir", entity)
    BY <2>1, <2>2, PdUpdateIsProper
  <2> QED
    BY <2>2, <2>3, <2>4
<1>8. IsUpdates("ir", updates)
  BY <1>6, <1>7, ProperUpdates
<1>9. WriteFields("ir") = {"device_id", "election_id", "updates"}
  BY DEF WriteFields
<1>10. pd = [f \in {"device_id", "election_id", "updates"} |-> pd[f]]
  BY <1>9 DEF IsPdWrite, IsRecord
<1>11. [pd EXCEPT !.updates = updates] = IrWrite(pd.device_id, pd.election_id, updates)
  BY <1>10 DEF IrWrite
<1>12. IsWrite("ir", IrWrite(pd.device_id, pd.election_id, updates))
  BY <1>8, ProperWrite
<1> QED
  BY <1>5, <1>11, <1>12

LEMMA ProperPacket ==
  ASSUME NEW side, NEW payload, NEW metadata, IsFields(side, metadata)
  PROVE  IsPacket(side, Packet(payload, metadata))
  BY DEF IsPacket, IsRecord, Packet

PdText(metadata, d) == IF d.name \in DOMAIN metadata THEN metadata[d.name] ELSE NoText

LEMMA PdPacketIsProper ==
  ASSUME NEW fields, NEW definitions, IsFiniteSet(definitions),
         NEW packet, IsRecord(packet, {"payload", "metadata"}), IsTexts(packet.metadata),
         PdPacketIoToIr(fields, definitions, packet) # Refused
  PROVE  IsPacket("ir", PdPacketIoToIr(fields, definitions, packet))
<1> DEFINE pieces == SetToSeq(NotPadding(definitions))
           metadata == [i \in DOMAIN pieces |->
                          Piece(pieces[i].name,
                                FormattedStringToIrValue(PdText(packet.metadata, pieces[i]), pieces[i].format))]
<1>1. IsSequence(pieces)
  <2>1. IsFiniteSet(NotPadding(definitions))
    BY FS_Subset DEF NotPadding
  <2> QED
    BY <2>1, SetsAreLists DEF HasAllOnce
<1>2. PdPacketIoToIr(fields, definitions, packet) = [packet EXCEPT !.metadata = metadata]
  BY DEF PdPacketIoToIr, PdText, Piece
<1> HIDE DEF pieces
<1>3. metadata = [i \in DOMAIN pieces |-> metadata[i]]
  OBVIOUS
<1>4. \A i \in DOMAIN pieces : \E name, value : metadata[i] = Piece(name, value) /\ IsValue("ir", value)
  <2> SUFFICES ASSUME NEW i \in DOMAIN pieces
               PROVE  \E name, value : metadata[i] = Piece(name, value) /\ IsValue("ir", value)
    OBVIOUS
  <2> DEFINE text == PdText(packet.metadata, pieces[i])
             value == FormattedStringToIrValue(text, pieces[i].format)
  <2>1. IsIrValue(text)
    BY NoTextIsValue DEF PdText, IsTexts
  <2>2. metadata[i] = Piece(pieces[i].name, value)
    OBVIOUS
  <2> HIDE DEF text, metadata
  <2>3. IsIrValue(value)
    BY <2>1, TextIsValue
  <2> HIDE DEF value
  <2> QED
    BY <2>2, <2>3 DEF IsValue
<1> HIDE DEF metadata
<1>5. IsSequence(metadata) /\ DOMAIN metadata = DOMAIN pieces
  BY <1>1, <1>3, SequenceOfTheSameLength
<1>6. IsFields("ir", metadata)
  BY <1>4, <1>5, ProperFields
<1>7. packet = [f \in {"payload", "metadata"} |-> packet[f]]
  BY DEF IsRecord
<1>8. [packet EXCEPT !.metadata = metadata] = Packet(packet.payload, metadata)
  BY <1>7 DEF Packet
<1>9. IsPacket("ir", Packet(packet.payload, metadata))
  BY <1>6, ProperPacket
<1> QED
  BY <1>2, <1>8, <1>9

(* A message whose packet is translated stays one of its kind.              *)
LEMMA ProperMessage ==
  ASSUME NEW side, NEW message, IsRecord(message, DOMAIN message), {"kind", "packet"} \subseteq DOMAIN message,
         message.kind = "error" => "details" \in DOMAIN message,
         side = "ir" /\ message.kind = "error" => message.details = "packet_out",
         NEW packet, IsPacket(side, packet)
  PROVE  IsStreamMessage(side, WithNewPacket(message, packet))
<1> DEFINE new == WithNewPacket(message, packet)
<1>1. message = [f \in DOMAIN message |-> message[f]]
  BY DEF IsRecord
<1>2. /\ new = [f \in DOMAIN message |-> new[f]] /\ DOMAIN new = DOMAIN message
      /\ new.packet = packet /\ new.kind = message.kind
      /\ "details" \in DOMAIN message => new.details = message.details
  BY <1>1 DEF WithNewPacket
<1> HIDE DEF new
<1>3. IsStreamMessage(side, new)
  BY <1>2 DEF IsStreamMessage, IsRecord
<1> QED
  BY <1>3 DEF new

LEMMA PdStreamIsProper ==
  ASSUME NEW schema, NEW info, IsFiniteSet(info.packet_out_metadata), NEW pd, IsPdStreamMessage(pd),
         PdStreamMessageRequestToIr(schema, info, pd) # Refused
  PROVE  IsStreamMessage("ir", PdStreamMessageRequestToIr(schema, info, pd))
<1> DEFINE packet == PdPacketIoToIr(schema.packet_out_metadata, info.packet_out_metadata, pd.packet)
<1>1. CASE pd.kind = "arbitration"
  <2>1. PdStreamMessageRequestToIr(schema, info, pd) = pd
    BY <1>1 DEF PdStreamMessageRequestToIr, StreamMessage
  <2> QED
    BY <1>1, <2>1 DEF IsStreamMessage, IsPdStreamMessage
<1>2. CASE pd.kind = "packet"
  <2>1. PdStreamMessageRequestToIr(schema, info, pd) = WithPacket(pd, packet)
    BY <1>2 DEF PdStreamMessageRequestToIr, StreamMessage
  <2>2. packet # Refused /\ PdStreamMessageRequestToIr(schema, info, pd) = WithNewPacket(pd, packet)
    BY <2>1 DEF WithPacket, WithNewPacket
  <2>3. /\ IsRecord(pd, DOMAIN pd) /\ {"kind", "packet"} \subseteq DOMAIN pd
        /\ IsRecord(pd.packet, {"payload", "metadata"}) /\ IsTexts(pd.packet.metadata)
    BY <1>2 DEF IsPdStreamMessage
  <2>4. IsPacket("ir", packet)
    BY <2>2, <2>3, PdPacketIsProper
  <2> HIDE DEF packet
  <2> QED
    BY <1>2, <2>2, <2>3, <2>4, ProperMessage
<1> QED
  BY <1>1, <1>2 DEF IsPdStreamMessage

(* The definitions of a list of a program can be put in the order of their  *)
(* ids.                                                                     *)
LEMMA DefinitionsAreNumbered ==
  ASSUME NEW fields, IsSequence(fields), \A f \in Elements(fields) : f.id \in Nat,
         \A d, e \in Elements(fields) : d.id = e.id \/ d.name = e.name => d = e,
         NEW given, \A f \in Elements(fields) : given[f].id = f.id
  PROVE  IsNumbered(Images(given, Elements(fields)))
<1> DEFINE S == Elements(fields)
           T == Images(given, S)
<1>1. IsFiniteSet(T)
  BY ElementsAreFinite, ImagesAreFinite
<1>2. \A t \in T : \E f \in S : t = given[f]
  BY DEF Images
<1> HIDE DEF S, T
<1>3. \A f \in S : f.id \in Nat /\ given[f].id = f.id
  BY DEF S
<1>4. \A d, e \in S : d.id = e.id => d = e
  BY DEF S
<1>5. \A t \in T : t.id \in Nat
  BY <1>2, <1>3
<1>6. ASSUME NEW t \in T, NEW u \in T, t.id = u.id PROVE t = u
  <2>1. PICK d \in S : t = given[d]
    BY <1>2
  <2>2. PICK e \in S : u = given[e]
    BY <1>2
  <2>3. d.id = e.id
    BY <1>3, <1>6, <2>1, <2>2
  <2> QED
    BY <1>4, <2>1, <2>2, <2>3
<1>7. IsNumbered(T)
  BY <1>1, <1>5, <1>6 DEF IsNumbered
<1> QED
  BY <1>7 DEF S, T

LEMMA ProgramIds ==
  ASSUME NEW info, IsProgram(info)
  PROVE  /\ \A a \in Elements(info.actions) :
              IsSequence(a.params) /\ \A p \in Elements(a.params) : p.id \in Nat
         /\ \A t \in Elements(info.tables) :
              IsSequence(t.match_fields) /\ \A f \in Elements(t.match_fields) : f.id \in Nat
<1>1. \A fields \in FieldLists(info) : IsSequence(fields) /\ \A f \in Elements(fields) : f.id \in Nat
  BY DEF IsProgram
<1>2. /\ \A a \in Elements(info.actions) : a.params \in FieldLists(info)
      /\ \A t \in Elements(info.tables) : t.match_fields \in FieldLists(info)
  BY DEF FieldLists
<1> QED
  BY <1>1, <1>2

LEMMA ParamsAreNumbered ==
  ASSUME NEW info, IsProgram(info), NEW a \in Elements(info.actions)
  PROVE  IsNumbered(IrAction(info, a).params)
<1> DEFINE given == [p \in Elements(a.params) |-> WithFormat(info, p)]
<1>1. IsSequence(a.params) /\ \A p \in Elements(a.params) : p.id \in Nat
  BY ProgramIds
<1>2. \A d, e \in Elements(a.params) : d.id = e.id \/ d.name = e.name => d = e
  BY UniqueElements DEF IsProgram, CreationOk, ActionOk
<1>3. \A p \in Elements(a.params) : given[p].id = p.id
  BY DEF WithFormat
<1>4. IrAction(info, a).params = Images(given, Elements(a.params))
  BY DEF IrAction, Images
<1> HIDE DEF given
<1>5. IsNumbered(Images(given, Elements(a.params)))
  BY <1>1, <1>2, <1>3, DefinitionsAreNumbered
<1> QED
  BY <1>4, <1>5

LEMMA MatchFieldsAreNumbered ==
  ASSUME NEW info, IsProgram(info), NEW t \in Elements(info.tables)
  PROVE  IsNumbered(IrTable(info, t).match_fields)
<1> DEFINE given == [f \in Elements(t.match_fields) |-> IrMatchField(info, f)]
<1>1. IsSequence(t.match_fields) /\ \A f \in Elements(t.match_fields) : f.id \in Nat
  BY ProgramIds
<1>2. \A d, e \in Elements(t.match_fields) : d.id = e.id \/ d.name = e.name => d = e
  BY UniqueElements DEF IsProgram, CreationOk, TableOk, MatchFieldsOk
<1>3. \A f \in Elements(t.match_fields) : given[f].id = f.id
  BY DEF IrMatchField
<1>4. IrTable(info, t).match_fields = Images(given, Elements(t.match_fields))
  BY DEF IrTable, Images
<1> HIDE DEF given
<1>5. IsNumbered(Images(given, Elements(t.match_fields)))
  BY <1>1, <1>2, <1>3, DefinitionsAreNumbered
<1> QED
  BY <1>4, <1>5

(* The IrP4Info of a program is what the reading of PD needs.               *)
LEMMA CreatedForPd ==
  ASSUME NEW info, IsProgram(info)
  PROVE  IsForPd(CreateIrP4Info(info))
<1> DEFINE created == CreateIrP4Info(info)
           In(table) == Inserted(ParseIrTableReferences(info), IrTable(info, table))
           actions == {IrAction(info, a) : a \in Elements(info.actions)}
<1>1. /\ DOMAIN created.tables_by_name = {t.name : t \in Elements(info.tables)}
      /\ \A t \in Elements(info.tables) : created.tables_by_name[t.name] = In(t)
  BY TablesAreFound
<1>2. \A t \in Elements(info.tables) : In(t).match_fields = IrTable(info, t).match_fields
  BY InsertedTables
<1>3. created.actions_by_name = ByName(actions)
  BY DEF CreateIrP4Info, IrP4InfoOf
<1>4. \A a \in actions : IsNumbered(a.params)
  BY ParamsAreNumbered
<1> HIDE DEF created, In, actions
<1>5. \A n \in DOMAIN created.tables_by_name : IsNumbered(created.tables_by_name[n].match_fields)
  BY <1>1, <1>2, MatchFieldsAreNumbered
<1>6. ASSUME NEW n \in DOMAIN created.actions_by_name
      PROVE  IsNumbered(created.actions_by_name[n].params)
  <2>1. n \in {d.name : d \in actions} /\ created.actions_by_name[n] = CHOOSE d \in actions : d.name = n
    BY <1>3, <1>6 DEF ByName
  <2>2. created.actions_by_name[n] \in actions
    BY <2>1
  <2> QED
    BY <1>4, <2>2
<1>7. IsForPd(created)
  BY <1>5, <1>6 DEF IsForPd, HasNumberedParams
<1> QED
  BY <1>7 DEF created

------------------------------------------------------------------------------
(* What is put on the wire is proper PI                                    *)

LEMMA ProperBytes ==
  ASSUME NEW size \in Nat, NEW number \in Nat
  PROVE  IsBytes(Bytes(size, number)) /\ IsValue("pi", Bytes(size, number))
<1>1. IsRecord(Bytes(size, number), {"size", "number"})
  BY DEF IsRecord, Bytes
<1> QED
  BY <1>1, PartsOfBytes DEF IsBytes, IsValue

(* Bytes that are not empty and hold their number.                          *)
AreWhole(bytes) ==
  \E size \in Nat \ {0}, number \in Nat : bytes = Bytes(size, number) /\ number < TwoTo[BitsPerByte * size]

LEMMA WholeBytes ==
  ASSUME NEW bits \in Nat, NEW number \in Nat, number < TwoTo[bits], bits # 0
  PROVE  AreWhole(Bytes(Ceiling(bits, BitsPerByte), number))
<1>1. Ceiling(bits, BitsPerByte) \in Nat \ {0}
  BY BytesHaveBits, CeilingIsEnough
<1>2. number < TwoTo[BitsPerByte * Ceiling(bits, BitsPerByte)]
  BY NumbersFitIntoTheirBytes
<1> QED
  BY <1>1, <1>2 DEF AreWhole

LEMMA UpperBitsAreFewer ==
  ASSUME NEW value, value.size \in Nat, value.number \in Nat, value.number < TwoTo[value.size], NEW bits \in Nat
  PROVE  UpperBits(value, bits) \in Nat /\ UpperBits(value, bits) < TwoTo[value.size]
<1>1. CASE bits > value.size
  BY <1>1, TwoToIsPositive DEF UpperBits
<1>2. CASE ~(bits > value.size)
  <2> DEFINE d == TwoTo[value.size - bits]
  <2>1. UpperBits(value, bits) = Quotient(value.number, d)
    BY <1>2 DEF UpperBits, Quotient
  <2>2. value.size - bits \in Nat
    BY <1>2
  <2>3. d \in Nat \ {0}
    BY <2>2, TwoToIsPositive
  <2> HIDE DEF d
  <2>4. /\ Quotient(value.number, d) \in Nat /\ Rest(value.number, d) \in Nat
        /\ value.number = d * Quotient(value.number, d) + Rest(value.number, d)
    BY <2>3, QuotientAndRest
  <2>5. ASSUME NEW q \in Nat, NEW r \in Nat, value.number = d * q + r PROVE q <= value.number
    <3>1. d * q >= q
      BY <2>3
    <3> QED
      BY <2>5, <3>1, <2>3
  <2>6. Quotient(value.number, d) <= value.number
    BY <2>4, <2>5
  <2>7. TwoTo[value.size] \in Nat
    BY TwoToIsPositive
  <2> QED
    BY <2>1, <2>4, <2>6, <2>7
<1> QED
  BY <1>1, <1>2

(* A value of the IR as bytes is never empty, and the bytes hold its number. *)
LEMMA NormalizedIsWhole ==
  ASSUME NEW bits \in Nat, NEW value, IsIrValue(value), IrValueToNormalizedByteString(value, bits) # Refused
  PROVE  AreWhole(IrValueToNormalizedByteString(value, bits))
<1> DEFINE bytes == IrValueToNormalizedByteString(value, bits)
           address == value.format \in AddressFormats /\ value.size = AddressBits[value.format]
<1>0. value.size \in Nat /\ value.number \in Nat
  BY DEF IsIrValue
<1>1. address => value.size # 0 /\ value.number < TwoTo[value.size]
  BY AddressesHaveBits DEF IsIrValue
<1>2. CASE value.format \in {"MAC_ADDRESS", "IPV4_ADDRESS"}
  <2>1. bytes = IF address THEN Bytes(Ceiling(value.size, BitsPerByte), value.number) ELSE Refused
    BY <1>2 DEF IrValueToNormalizedByteString
  <2> QED
    BY <1>0, <1>1, <2>1, WholeBytes
<1>3. CASE value.format = "IPV6_ADDRESS"
  <2>1. bytes = IF address /\ LowerBits(value, bits) = 0
                THEN Bytes(Ceiling(value.size, BitsPerByte), UpperBits(value, bits)) ELSE Refused
    BY <1>3 DEF IrValueToNormalizedByteString
  <2>2. address
    BY <2>1
  <2>3. UpperBits(value, bits) \in Nat /\ UpperBits(value, bits) < TwoTo[value.size]
    BY <1>0, <1>1, <2>2, UpperBitsAreFewer
  <2> HIDE DEF address
  <2> QED
    BY <1>0, <1>1, <2>1, <2>2, <2>3, WholeBytes
<1>4. CASE value.format = "STRING"
  <2>1. bytes = IF value.size # 0 THEN Bytes(value.size, value.number) ELSE Refused
    BY <1>4 DEF IrValueToNormalizedByteString
  <2>2. value.number < TwoTo[BitsPerByte * value.size]
    BY <1>4 DEF IsIrValue
  <2> QED
    BY <1>0, <2>1, <2>2 DEF AreWhole
<1>5. CASE value.format = "HEX_STRING"
  <2>1. bytes = IF value.size = Ceiling(bits, BitsPerNibble)
                THEN ArbitraryToNormalizedByteString(Bytes(value.size, value.number), bits) ELSE Refused
    BY <1>5 DEF IrValueToNormalizedByteString
  <2>2. /\ value.size = Ceiling(bits, BitsPerNibble)
        /\ bytes = ArbitraryToNormalizedByteString(Bytes(value.size, value.number), bits)
    BY <2>1
  <2>3. /\ Bytes(value.size, value.number).size # 0 /\ Bytes(value.size, value.number).number < TwoTo[bits]
        /\ bytes = Bytes(Ceiling(bits, BitsPerByte), Bytes(value.size, value.number).number)
    BY <2>2, NormalizedBytes
  <2>4. value.size # 0 /\ value.number < TwoTo[bits] /\ bytes = Bytes(Ceiling(bits, BitsPerByte), value.number)
    BY <2>3, PartsOfBytes
  <2>5. bits # 0
    BY <2>2, <2>4, BytesHaveBits, CeilingIsEnough
  <2> QED
    BY <1>0, <2>4, <2>5, WholeBytes
<1>6. CASE value.format \notin {"MAC_ADDRESS", "IPV4_ADDRESS", "IPV6_ADDRESS", "STRING", "HEX_STRING"}
  BY <1>6 DEF IrValueToNormalizedByteString
<1> QED
  BY <1>2, <1>3, <1>4, <1>5, <1>6

LEMMA CanonicalIsProper ==
  ASSUME NEW bytes, AreWhole(bytes)
  PROVE  IsValue("pi", bytes) /\ IsValue("pi", ArbitraryToCanonicalByteString(bytes))
<1>1. PICK size \in Nat \ {0}, number \in Nat : bytes = Bytes(size, number) /\ number < TwoTo[BitsPerByte * size]
  BY DEF AreWhole
<1>2. \E n \in Nat \ {0} : ArbitraryToCanonicalByteString(Bytes(size, number)) = Bytes(n, number)
  BY <1>1, CanonicalStringsAreNotEmpty
<1> QED
  BY <1>1, <1>2, ProperBytes

LEMMA PiValueIsProper ==
  ASSUME NEW opts, NEW definition, IsDefinition(definition), NEW value, IsIrValue(value),
         PiValueOf(opts, definition, value) # Refused
  PROVE  IsValue("pi", PiValueOf(opts, definition, value))
<1> DEFINE bytes == IrValueToNormalizedByteString(value, definition.bitwidth)
<1>1. /\ bytes # Refused
      /\ PiValueOf(opts, definition, value) \in {bytes, ArbitraryToCanonicalByteString(bytes)}
  BY DEF PiValueOf, PiValue
<1>2. AreWhole(bytes)
  BY <1>1, NormalizedIsWhole DEF IsDefinition
<1> HIDE DEF bytes
<1> QED
  BY <1>1, <1>2, CanonicalIsProper

(* Matches                                                                  *)

(* A match whose values are replaced by values of another side is one of    *)
(* that side.                                                               *)
LEMMA ProperMatch ==
  ASSUME NEW side, NEW other, NEW match, IsMatch(other, match), NEW value, IsValue(side, value)
  PROVE  match.type # "TERNARY" => IsMatch(side, WithValue(match, value))
<1>1. /\ WithValue(match, value).value = value /\ WithValue(match, value).type = match.type
      /\ IsRecord(WithValue(match, value), PartsOf(match.type))
  BY MatchWithValue
<1>2. match.type # "TERNARY" => ValuesOf(match.type) = {"value"}
  BY DEF ValuesOf
<1> QED
  BY <1>1, <1>2 DEF IsMatch

LEMMA ProperTernary ==
  ASSUME NEW side, NEW other, NEW match, IsMatch(other, match), match.type = "TERNARY",
         NEW value, IsValue(side, value), NEW mask, IsValue(side, mask)
  PROVE  IsMatch(side, WithMask(match, value, mask))
<1>1. /\ WithMask(match, value, mask).value = value /\ WithMask(match, value, mask).mask = mask
      /\ WithMask(match, value, mask).type = match.type
      /\ IsRecord(WithMask(match, value, mask), PartsOf(match.type))
  BY MatchWithMask
<1>2. ValuesOf(match.type) = {"value", "mask"}
  BY DEF ValuesOf
<1> QED
  BY <1>1, <1>2 DEF IsMatch

LEMMA PiMatchIsProper ==
  ASSUME NEW opts, NEW field, IsMatchField(field), NEW match, IsMatch("ir", match),
         IrMatchFieldToPi(opts, field, match) # Refused
  PROVE  IsMatch("pi", IrMatchFieldToPi(opts, field, match))
<1> DEFINE pi == IrMatchFieldToPi(opts, field, match)
           Normal(value) == IrValueToNormalizedByteString(value, field.bitwidth)
           Canonical(value) == ArbitraryToCanonicalByteString(Normal(value))
<1>0. field.bitwidth \in Nat /\ IsDefinition(field)
  BY DEF IsMatchField, IsDefinition
<1>1. /\ IsIrValue(match.value)
      /\ match.type = "TERNARY" => IsIrValue(match.mask)
  BY PartsOfMatch, ValuesOfSides
<1>2. ASSUME NEW value, IsIrValue(value), Normal(value) # Refused
      PROVE  IsValue("pi", Canonical(value))
  BY <1>0, <1>2, NormalizedIsWhole, CanonicalIsProper
<1>3. CASE match.type = "LPM"
  <2>1. pi = IrLpmToPi(opts, field, match)
    BY <1>3 DEF IrMatchFieldToPi
  <2>2. Normal(match.value) # Refused /\ pi = WithValue(match, Canonical(match.value))
    BY <2>1 DEF IrLpmToPi, WithValue
  <2> QED
    BY <1>1, <1>2, <1>3, <2>2, ProperMatch
<1>4. CASE match.type = "TERNARY"
  <2>1. pi = IrTernaryToPi(opts, field, match)
    BY <1>4 DEF IrMatchFieldToPi
  <2>2. /\ Normal(match.value) # Refused /\ Normal(match.mask) # Refused
        /\ pi = WithMask(match, Canonical(match.value), Canonical(match.mask))
    BY <2>1 DEF IrTernaryToPi, WithMask
  <2> QED
    BY <1>1, <1>2, <1>4, <2>2, ProperTernary
<1>5. CASE match.type \notin {"LPM", "TERNARY"}
  <2>1. /\ PiValueOf(opts, field, match.value) # Refused
        /\ pi = WithValue(match, PiValueOf(opts, field, match.value))
    BY <1>5 DEF IrMatchFieldToPi, WithValue
  <2> QED
    BY <1>0, <1>1, <1>5, <2>1, PiValueIsProper, ProperMatch
<1> QED
  BY <1>3, <1>4, <1>5

(* A list of translated fields, each of which translates to a proper one.   *)
LEMMA TranslatedPieces ==
  ASSUME NEW definitions, NEW by, NEW to, NEW fields, IsSequence(fields), NEW values,
         TranslatedFields(fields, definitions, by, to, values) # Refused,
         NEW other, other = TranslatedFields(fields, definitions, by, to, values)
  PROVE  /\ IsSequence(other) /\ DOMAIN other = DOMAIN fields
         /\ AllOk(values) /\ FieldsDefined(fields, definitions, by)
         /\ \A i \in DOMAIN fields : \E name : other[i] = Piece(name, values[i])
<1>1. /\ AllOk(values) /\ FieldsDefined(fields, definitions, by)
      /\ other = [i \in DOMAIN fields |->
                    [field |-> Definition(definitions, by, fields[i].field)[to], value |-> values[i]]]
  BY DEF TranslatedFields
<1>2. IsSequence(other) /\ DOMAIN other = DOMAIN fields
  BY <1>1, SequenceOfTheSameLength
<1>3. \A i \in DOMAIN fields :
        other[i] = Piece(Definition(definitions, by, fields[i].field)[to], values[i])
  BY <1>1 DEF Piece
<1> QED
  BY <1>1, <1>2, <1>3

LEMMA DefinedIsDefinition ==
  ASSUME NEW fields, NEW definitions, NEW by, FieldsDefined(fields, definitions, by), NEW i \in DOMAIN fields
  PROVE  Defined(fields, definitions, by, i) \in definitions
<1>1. fields[i].field \in {d[by] : d \in definitions}
  BY DEF FieldsDefined, Elements
<1> QED
  BY <1>1, DefinitionIsFound DEF Defined

LEMMA PiMatchesAreProper ==
  ASSUME NEW opts, NEW table, IsTable(table), NEW matches, IsMatches("ir", matches),
         IrMatchesToPi(opts, table, matches) # Refused
  PROVE  IsMatches("pi", IrMatchesToPi(opts, table, matches))
<1> DEFINE pi == IrMatchesToPi(opts, table, matches)
           values == PiMatches(opts, table, matches)
           field(i) == Defined(matches, table.match_fields, "name", i)
<1>1. pi = TranslatedFields(matches, table.match_fields, "name", "id", values)
  BY MatchesAreTranslatedFields
<1>2. IsSequence(matches) /\ \A i \in DOMAIN matches : IsMatch("ir", matches[i].value)
  BY PartsOfMatches
<1>3. \A i \in DOMAIN matches : values[i] = IrMatchFieldToPi(opts, field(i), matches[i].value)
  BY DEF PiMatches
<1>4. DOMAIN values = DOMAIN matches
  BY DEF PiMatches
<1> HIDE DEF pi, values
<1>5. /\ IsSequence(pi) /\ DOMAIN pi = DOMAIN matches
      /\ AllOk(values) /\ FieldsDefined(matches, table.match_fields, "name")
      /\ \A i \in DOMAIN matches : \E name : pi[i] = Piece(name, values[i])
  BY <1>1, <1>2, TranslatedPieces DEF pi
<1>6. \A i \in DOMAIN matches : values[i] # Refused
  BY <1>4, <1>5 DEF AllOk
<1>7. \A i \in DOMAIN matches : IsMatchField(field(i))
  BY <1>5, DefinedIsDefinition DEF IsTable
<1> HIDE DEF field
<1>8. \A i \in DOMAIN matches : IsMatch("pi", values[i])
  BY <1>2, <1>3, <1>6, <1>7, PiMatchIsProper
<1> QED
  BY <1>5, <1>8, ProperMatches DEF pi

LEMMA PiParamsAreProper ==
  ASSUME NEW opts, NEW definitions, AreDefinitions(definitions), NEW params, IsFields("ir", params),
         IrParamsToPi(opts, definitions, params) # Refused
  PROVE  IsFields("pi", IrParamsToPi(opts, definitions, params))
<1> DEFINE pi == IrParamsToPi(opts, definitions, params)
           values == PiValues(opts, definitions, params)
           field(i) == Defined(params, definitions, "name", i)
<1>1. pi = TranslatedFields(params, definitions, "name", "id", values)
  BY ParamsAreTranslatedFields
<1>2. IsSequence(params) /\ \A i \in DOMAIN params : IsIrValue(params[i].value)
  BY PartsOfFields, ValuesOfSides
<1>3. \A i \in DOMAIN params : values[i] = PiValueOf(opts, field(i), params[i].value)
  BY DEF PiValues
<1>4. DOMAIN values = DOMAIN params
  BY DEF PiValues
<1> HIDE DEF pi, values
<1>5. /\ IsSequence(pi) /\ DOMAIN pi = DOMAIN params
      /\ AllOk(values) /\ FieldsDefined(params, definitions, "name")
      /\ \A i \in DOMAIN params : \E name : pi[i] = Piece(name, values[i])
  BY <1>1, <1>2, TranslatedPieces DEF pi
<1>6. \A i \in DOMAIN params : values[i] # Refused
  BY <1>4, <1>5 DEF AllOk
<1>7. \A i \in DOMAIN params : IsDefinition(field(i))
  BY <1>5, DefinedIsDefinition DEF AreDefinitions
<1> HIDE DEF field
<1>8. \A i \in DOMAIN params : IsValue("pi", values[i])
  BY <1>2, <1>3, <1>6, <1>7, PiValueIsProper
<1> QED
  BY <1>5, <1>8, ProperFields DEF pi

(* Actions                                                                  *)

LEMMA PiInvocationIsProper ==
  ASSUME NEW opts, NEW refs, AreReferences(refs), NEW ir, IsInvocation("ir", ir),
         IrActionInvocationToPi(opts, ir, refs) # Refused
  PROVE  IsInvocation("pi", IrActionInvocationToPi(opts, ir, refs))
<1> DEFINE r      == Referenced(refs, "name", ir.action)
           params == IrParamsToPi(opts, r.action.params, ir.params)
           pi     == IrActionInvocationToPi(opts, ir, refs)
<1>1. InvocationOk(opts, ir, refs, "name") /\ pi = WithParams(ir, r.action.id, params)
  BY DEF IrActionInvocationToPi
<1>2. params # Refused
  BY <1>1 DEF WithParams
<1>3. pi = Invocation(r.action.id, params)
  BY <1>1, <1>2, InvocationWithParams
<1>4. ir.action \in {s.action["name"] : s \in refs}
  BY <1>1 DEF InvocationOk
<1>5. r \in refs
  BY <1>4, ReferenceByBoth DEF References
<1>6. AreDefinitions(r.action.params) /\ IsFields("ir", ir.params)
  BY <1>5, PartsOfInvocation DEF AreReferences
<1>7. IsFields("pi", params)
  BY <1>2, <1>6, PiParamsAreProper
<1> HIDE DEF r, params
<1>8. IsInvocation("pi", Invocation(r.action.id, params))
  BY <1>7, ProperInvocation
<1> QED
  BY <1>3, <1>8

LEMMA PiSetIsProper ==
  ASSUME NEW info, NEW opts, NEW table, AreReferences(table.entry_actions), NEW ir, IsActionSet("ir", ir),
         IrActionSetToPi(info, opts, table, ir) # Refused
  PROVE  IsActionSet("pi", IrActionSetToPi(info, opts, table, ir))
<1> DEFINE refs == table.entry_actions
           group == PiInvocations(opts, refs, ir.group_action)
           actions == PiMembers(opts, refs, ir.members)
           new == NewMembers(ir.members, actions)
           pi == IrActionSetToPi(info, opts, table, ir)
<1>1. /\ ir = Set(ir.group_action, ir.members, ir.mode, ir.semantics)
      /\ IsOptional(ir.group_action) /\ \A a \in ir.group_action : IsInvocation("ir", a)
      /\ IsSequence(ir.members) /\ \A i \in DOMAIN ir.members : IsMember("ir", ir.members[i])
  BY SetIsItsParts
<1>2. IrActionSetToPi(info, opts, table, Set(ir.group_action, ir.members, ir.mode, ir.semantics)) =
        IF /\ WeightsOk(info, table, Set(ir.group_action, ir.members, ir.mode, ir.semantics))
           /\ OptionalOk(group) /\ AllOk(actions)
        THEN Set(group, new, ir.mode, ir.semantics) ELSE Refused
  BY SetTranslations
<1>3. pi = Set(group, new, ir.mode, ir.semantics) /\ OptionalOk(group) /\ AllOk(actions)
  BY <1>1, <1>2
<1>4. AreReferences(refs)
  OBVIOUS
<1> HIDE DEF refs, pi
<1>5. IsOptional(group) /\ \A a \in group : IsInvocation("pi", a)
  <2>1. IsOptional(group)
    BY <1>1 DEF PiInvocations, IsOptional
  <2>2. Refused \notin group
    BY <1>3, <2>1, OptionalPartIsOk
  <2>3. \A a \in group : \E b \in ir.group_action : a = IrActionInvocationToPi(opts, b, refs)
    BY DEF PiInvocations
  <2> HIDE DEF group
  <2> QED
    BY <1>1, <1>4, <2>1, <2>2, <2>3, PiInvocationIsProper
<1>6. \A i \in DOMAIN ir.members : IsInvocation("pi", actions[i])
  <2>1. /\ DOMAIN actions = DOMAIN ir.members
        /\ \A i \in DOMAIN ir.members : actions[i] = IrActionInvocationToPi(opts, ir.members[i].action, refs)
    BY DEF PiMembers
  <2> HIDE DEF actions
  <2>2. \A i \in DOMAIN ir.members : actions[i] # Refused
    BY <1>3, <2>1 DEF AllOk
  <2>3. \A i \in DOMAIN ir.members : IsInvocation("ir", ir.members[i].action)
    BY <1>1 DEF IsMember
  <2> QED
    BY <1>4, <2>1, <2>2, <2>3, PiInvocationIsProper
<1> HIDE DEF group, actions
<1>7. AreMembers("pi", new)
  <2>1. new = [i \in DOMAIN ir.members |-> new[i]]
    BY DEF NewMembers
  <2>2. \A i \in DOMAIN ir.members : new[i] = WithAction(ir.members[i], actions[i])
    BY DEF NewMembers
  <2> HIDE DEF new
  <2>3. IsSequence(new) /\ DOMAIN new = DOMAIN ir.members
    BY <1>1, <2>1, SequenceOfTheSameLength
  <2>4. \A i \in DOMAIN ir.members : IsRecord(ir.members[i], {"action", "weight", "port"})
    BY <1>1 DEF IsMember
  <2>5. \A i \in DOMAIN ir.members : IsMember("pi", new[i])
    BY <1>6, <2>2, <2>4, ProperMember
  <2> QED
    BY <2>3, <2>5 DEF AreMembers
<1> HIDE DEF new
<1>8. IsActionSet("pi", Set(group, new, ir.mode, ir.semantics))
  BY <1>5, <1>7, ProperSet
<1> QED
  BY <1>3, <1>8 DEF pi

LEMMA PiActionsAreProper ==
  ASSUME NEW info, NEW opts, NEW table, AreReferences(table.entry_actions),
         NEW actions, AreActions("ir", actions), ActionTypeOk(table, actions),
         OptionalOk(PiActions(info, opts, table, actions))
  PROVE  AreActions("pi", PiActions(info, opts, table, actions))
<1> DEFINE sent == PiActions(info, opts, table, actions)
<1>1. IsOptional(sent)
  BY DEF PiActions, IsOptional, AreActions
<1>2. Refused \notin sent
  BY <1>1, OptionalPartIsOk
<1>3. \A a \in actions : a.type \in {"action", "action_set"} /\ IsAction("ir", a)
  BY TypesOfActions DEF AreActions
<1>4. ASSUME NEW a \in actions, PiActionOf(info, opts, table, a) # Refused
      PROVE  IsAction("pi", PiActionOf(info, opts, table, a))
  <2> DEFINE pi == PiActionOf(info, opts, table, a)
  <2>1. CASE a.type = "action"
    <3>1. pi = IrActionInvocationToPi(opts, a, table.entry_actions) /\ IsInvocation("ir", a)
      BY <1>3, <2>1 DEF PiActionOf, IsAction
    <3>2. IsInvocation("pi", pi)
      BY <1>4, <3>1, PiInvocationIsProper
    <3> QED
      BY <3>2 DEF IsAction, IsInvocation
  <2>2. CASE a.type = "action_set"
    <3>1. pi = IrActionSetToPi(info, opts, table, a) /\ IsActionSet("ir", a)
      BY <1>3, <2>2 DEF PiActionOf, IsAction
    <3>2. IsActionSet("pi", pi)
      BY <1>4, <3>1, PiSetIsProper
    <3> QED
      BY <3>2 DEF IsAction, IsActionSet
  <2> QED
    BY <1>3, <2>1, <2>2
<1>5. \A p \in sent : \E a \in actions : p = PiActionOf(info, opts, table, a)
  BY DEF PiActions
<1> HIDE DEF sent
<1>6. \A p \in sent : IsAction("pi", p)
  BY <1>2, <1>4, <1>5
<1>7. AreActions("pi", sent)
  BY <1>1, <1>6 DEF AreActions
<1> QED
  BY <1>7 DEF sent

(* Entities                                                                 *)

LEMMA PiEntryIsProper ==
  ASSUME NEW info, IsInfo(info), NEW opts, NEW ir, ir.kind = "table_entry", IsTableEntry("ir", ir),
         IrTableEntryToPi(info, opts, ir) # Refused
  PROVE  IsEntity("pi", IrTableEntryToPi(info, opts, ir))
<1> DEFINE table == info.tables_by_name[ir.table]
           matches == IrMatchesToPi(opts, table, ir.matches)
           sent == PiActions(info, opts, table, ir.action)
           pi == IrTableEntryToPi(info, opts, ir)
<1>1. /\ ir.table \in DOMAIN info.tables_by_name
      /\ pi = Translated(opts, ir, table, table.id, matches, sent)
  BY TableEntryTranslations
<1>2. IsTable(table) /\ AreReferences(table.entry_actions)
  BY <1>1 DEF IsInfo
<1>3. ir = Entry(ir.table, ir.matches, ir.priority, ir.metadata, ir.action, ir.meter_config,
                 ir.meter_counter_data, ir.counter_data)
  BY EntryIsItsParts
<1> HIDE DEF table, matches, sent, pi
<1>4. Translated(opts,
                 Entry(ir.table, ir.matches, ir.priority, ir.metadata, ir.action, ir.meter_config,
                       ir.meter_counter_data, ir.counter_data),
                 table, table.id, matches, sent) =
        EntryOrError(opts, table, table.id, ir.matches, matches, ir.priority, ir.metadata, ir.action, sent,
                     ir.meter_config, ir.meter_counter_data, ir.counter_data)
  BY TranslatedEntry
<1>5. /\ matches # Refused
      /\ opts.key_only \/ (ActionTypeOk(table, ir.action) /\ OptionalOk(sent))
      /\ pi = IF opts.key_only THEN Entry(table.id, matches, ir.priority, "", {}, {}, {}, {})
              ELSE Entry(table.id, matches, ir.priority, ir.metadata, sent, ir.meter_config,
                         ir.meter_counter_data, ir.counter_data)
  BY <1>1, <1>3, <1>4 DEF EntryOrError, EntryPartsOk, pi
<1>6. IsMatches("pi", matches)
  BY <1>2, <1>5, PiMatchesAreProper DEF matches, IsTableEntry
<1>7. CASE opts.key_only
  <2> DEFINE whole == Entry(table.id, matches, ir.priority, ir.metadata, sent, ir.meter_config,
                            ir.meter_counter_data, ir.counter_data)
  <2>1. IsEntity("pi", OnlyKey(whole))
    BY <1>6, ProperKey
  <2>2. OnlyKey(whole) = KeyEntry(table.id, matches, ir.priority)
    BY OnlyKeyIsLeft, SMT
  <2>3. OnlyKey(whole) = Entry(table.id, matches, ir.priority, "", {}, {}, {}, {})
    BY <2>2, Zenon DEF KeyEntry
  <2> HIDE DEF whole
  <2> QED
    BY <1>5, <1>7, <2>1, <2>3 DEF pi
<1>8. CASE ~opts.key_only
  <2>1. AreActions("ir", ir.action)
    BY DEF IsTableEntry, AreActions
  <2>2. AreActions("pi", sent)
    BY <1>2, <1>5, <1>8, <2>1, PiActionsAreProper DEF sent
  <2>3. IsOptional(sent) /\ \A a \in sent : IsAction("pi", a)
    BY <2>2 DEF AreActions
  <2>4. pi = Entry(table.id, matches, ir.priority, ir.metadata, sent, ir.meter_config,
                   ir.meter_counter_data, ir.counter_data)
    BY <1>5, <1>8
  <2>5. IsEntity("pi", pi)
    BY <1>6, <2>3, <2>4, ProperEntry
  <2> QED
    BY <2>5 DEF pi
<1> QED
  BY <1>7, <1>8

LEMMA GroupsAreProper ==
  ASSUME NEW side, NEW e, IsGroup(e), IsReplicas(side, e.replicas)
  PROVE  IsEntity(side, e)
<1>1. /\ DOMAIN e = GroupFields /\ IsRecord(e, GroupFields) /\ e.kind = "multicast_group_entry"
  BY DEF IsGroup, IsRecord
<1>2. "kind" \in GroupFields
  BY DEF GroupFields
<1> QED
  BY <1>1, <1>2 DEF IsEntity

LEMMA SessionsAreProper ==
  ASSUME NEW side, NEW e, IsSession(e), IsReplicas(side, e.replicas)
  PROVE  IsEntity(side, e)
<1>1. /\ DOMAIN e = SessionFields /\ IsRecord(e, SessionFields) /\ e.kind = "clone_session_entry"
  BY DEF IsSession, IsRecord
<1>2. "kind" \in SessionFields
  BY DEF SessionFields
<1> QED
  BY <1>1, <1>2 DEF IsEntity

LEMMA ReplicasOfKeys ==
  ASSUME NEW e
  PROVE  /\ IsGroup(e) => OnlyGroupToPi(e).replicas = << >>
         /\ IsSession(e) => SessionKey(e).replicas = << >>
<1>1. ASSUME IsGroup(e) PROVE OnlyGroupToPi(e).replicas = << >>
  <2>1. DOMAIN e = GroupFields
    BY <1>1 DEF IsGroup, IsRecord
  <2> QED
    BY <2>1 DEF OnlyGroupToPi, GroupFields
<1>2. ASSUME IsSession(e) PROVE SessionKey(e).replicas = << >>
  <2>1. DOMAIN e = SessionFields
    BY <1>2 DEF IsSession, IsRecord
  <2> QED
    BY <2>1 DEF SessionKey, SessionFields
<1> QED
  BY <1>1, <1>2

(* Replicas of the IR are replicas of PI.                                   *)
LEMMA PiReplicas ==
  ASSUME NEW replicas, IsReplicas("ir", replicas)
  PROVE  IsReplicas("pi", replicas)
  BY DEF IsReplicas

LEMMA PiEntityIsProper ==
  ASSUME ErrorsAreNoMessages, NEW info, IsInfo(info), NEW opts, NEW ir, IsEntity("ir", ir),
         IrEntityToPi(info, opts, ir) # Refused
  PROVE  IsEntity("pi", IrEntityToPi(info, opts, ir))
<1> DEFINE pi == IrEntityToPi(info, opts, ir)
<1>1. CASE ir.kind = "table_entry"
  <2>1. pi = IrTableEntryToPi(info, opts, ir) /\ IsTableEntry("ir", ir)
    BY <1>1, KindsOfEntities DEF IrEntityToPi
  <2> QED
    BY <1>1, <2>1, PiEntryIsProper
<1>2. CASE ir.kind = "multicast_group_entry"
  <2>1. IsGroup(ir) /\ IsReplicas("pi", ir.replicas)
    BY <1>2, KindsOfEntities, PiReplicas
  <2>2. pi = IrMulticastGroupEntryToPi(opts, ir)
    BY <1>2 DEF IrEntityToPi
  <2>3. pi = IF opts.key_only THEN OnlyGroupToPi(ir) ELSE ir
    BY <2>2 DEF IrMulticastGroupEntryToPi, OnlyGroupToPi
  <2>4. IsGroup(OnlyGroupToPi(ir)) /\ IsReplicas("pi", OnlyGroupToPi(ir).replicas)
    BY <2>1, KeysOfGroups, ReplicasOfKeys, NoReplicas
  <2> HIDE DEF pi
  <2>5. IsEntity("pi", pi)
    BY <2>1, <2>3, <2>4, GroupsAreProper
  <2> QED
    BY <2>5 DEF pi
<1>3. CASE ir.kind = "clone_session_entry"
  <2>1. IsSession(ir) /\ IsReplicas("pi", ir.replicas)
    BY <1>3, KindsOfEntities, PiReplicas
  <2>2. pi = IrCloneSessionEntryToPi(opts, ir)
    BY <1>3 DEF IrEntityToPi
  <2>3. pi = IF opts.key_only THEN SessionKey(ir) ELSE ir
    BY <2>2 DEF IrCloneSessionEntryToPi
  <2>4. IsSession(SessionKey(ir)) /\ IsReplicas("pi", SessionKey(ir).replicas)
    BY <2>1, KeysOfSessions, ReplicasOfKeys, NoReplicas
  <2> HIDE DEF pi
  <2>5. IsEntity("pi", pi)
    BY <2>1, <2>3, <2>4, SessionsAreProper
  <2> QED
    BY <2>5 DEF pi
<1>4. CASE ir.kind \notin {"table_entry", "multicast_group_entry", "clone_session_entry"}
  BY <1>4 DEF IrEntityToPi
<1> QED
  BY <1>1, <1>2, <1>3, <1>4

LEMMA PiEntitiesAreProper ==
  ASSUME ErrorsAreNoMessages, NEW info, IsInfo(info), NEW opts, NEW ir, IsEntities("ir", ir),
         IrEntitiesToPi(info, opts, ir) # Refused
  PROVE  IsEntities("pi", IrEntitiesToPi(info, opts, ir))
<1> DEFINE pi == IrEntitiesToPi(info, opts, ir)
<1>1. /\ pi = [i \in DOMAIN ir |-> IrEntityToPi(info, opts, ir[i])]
      /\ \A i \in DOMAIN ir : IrEntityToPi(info, opts, ir[i]) # Refused
  BY IrEntitiesAreTranslated
<1>2. IsSequence(ir) /\ \A i \in DOMAIN ir : IsEntity("ir", ir[i])
  BY DEF IsEntities, Elements
<1>3. \A i \in DOMAIN ir : IsEntity("pi", IrEntityToPi(info, opts, ir[i]))
  BY <1>1, <1>2, PiEntityIsProper
<1> HIDE DEF pi
<1>4. /\ pi = [i \in DOMAIN ir |-> pi[i]]
      /\ \A i \in DOMAIN ir : IsEntity("pi", pi[i])
  BY <1>1, <1>3
<1>5. IsSequence(pi) /\ DOMAIN pi = DOMAIN ir
  BY <1>2, <1>4, SequenceOfTheSameLength
<1>6. IsEntities("pi", pi)
  BY <1>4, <1>5, ProperEntities
<1> QED
  BY <1>6 DEF pi

(* Requests and answers                                                     *)

LEMMA PiUpdateIsProper ==
  ASSUME ErrorsAreNoMessages, NEW info, IsInfo(info), NEW opts,
         NEW type \in UpdateTypes \cup {"UNSPECIFIED"}, NEW entity, IsEntity("ir", entity),
         IrUpdateToPi(info, opts, Update(type, entity)) # Refused
  PROVE  \E t \in UpdateTypes \cup {"UNSPECIFIED"} : \E e :
           IrUpdateToPi(info, opts, Update(type, entity)) = Update(t, e) /\ IsEntity("pi", e)
<1>1. /\ IrEntityToPi(info, opts, entity) # Refused
      /\ IrUpdateToPi(info, opts, Update(type, entity)) = Update(type, IrEntityToPi(info, opts, entity))
  BY UpdateTranslations
<1>2. IsEntity("pi", IrEntityToPi(info, opts, entity))
  BY <1>1, PiEntityIsProper
<1> QED  BY <1>1, <1>2

LEMMA ProperPiWrite ==
  ASSUME NEW role, NEW atomicity, NEW device, NEW election, NEW updates, IsUpdates("pi", updates)
  PROVE  IsWrite("pi", PiWrite(role, atomicity, device, election, updates))
<1> DEFINE message == PiWrite(role, atomicity, device, election, updates)
<1>1. WriteFields("pi") = {"role_id", "atomicity", "device_id", "election_id", "updates"}
  BY DEF WriteFields
<1>2. message.updates = updates
  BY DEF PiWrite
<1>3. message = [f \in {"role_id", "atomicity", "device_id", "election_id", "updates"} |-> message[f]]
  BY DEF PiWrite
<1>4. IsRecord(message, WriteFields("pi"))
  BY <1>1, <1>3 DEF IsRecord
<1> HIDE DEF message
<1>5. IsWrite("pi", message)
  BY <1>2, <1>4 DEF IsWrite
<1> QED  BY <1>5 DEF message

LEMMA PiWriteIsProper ==
  ASSUME ErrorsAreNoMessages, NEW info, IsInfo(info), NEW opts, NEW ir, IsWrite("ir", ir),
         IrWriteRequestToPi(info, opts, ir) # Refused
  PROVE  IsWrite("pi", IrWriteRequestToPi(info, opts, ir))
<1> DEFINE others == PiUpdates(info, opts, ir.updates)
<1>1. ir = IrWrite(ir.device_id, ir.election_id, ir.updates) /\ IsUpdates("ir", ir.updates)
  BY WritesAreTheirParts DEF IsWrite
<1>2. IrWriteRequestToPi(info, opts, IrWrite(ir.device_id, ir.election_id, ir.updates)) =
        IF AllOk(others) THEN PiWrite(0, "CONTINUE_ON_ERROR", ir.device_id, ir.election_id, others)
        ELSE Refused
  BY WriteTranslations
<1>3. AllOk(others) /\ IrWriteRequestToPi(info, opts, ir) =
        PiWrite(0, "CONTINUE_ON_ERROR", ir.device_id, ir.election_id, others)
  BY <1>1, <1>2
<1>4. /\ IsSequence(ir.updates)
      /\ \A i \in DOMAIN ir.updates :
           /\ ir.updates[i] = Update(ir.updates[i].type, ir.updates[i].entity)
           /\ ir.updates[i].type \in UpdateTypes \cup {"UNSPECIFIED"} /\ IsEntity("ir", ir.updates[i].entity)
  BY <1>1, PartsOfUpdates
<1>5. others = [i \in DOMAIN ir.updates |-> others[i]] /\ DOMAIN others = DOMAIN ir.updates
  BY DEF PiUpdates
<1>6. IsSequence(others)
  BY <1>4, <1>5, SequenceOfTheSameLength
<1>7. ASSUME NEW i \in DOMAIN others
      PROVE  \E type \in UpdateTypes \cup {"UNSPECIFIED"} : \E entity :
               others[i] = Update(type, entity) /\ IsEntity("pi", entity)
  <2>1. i \in DOMAIN ir.updates /\ others[i] # Refused
    BY <1>3, <1>5 DEF AllOk
  <2>2. others[i] = IrUpdateToPi(info, opts, Update(ir.updates[i].type, ir.updates[i].entity))
    BY <1>4, <2>1 DEF PiUpdates
  <2> HIDE DEF others
  <2> QED  BY <1>4, <2>1, <2>2, PiUpdateIsProper
<1> HIDE DEF others
<1>8. IsUpdates("pi", others)
  BY <1>6, <1>7, ProperUpdates
<1> QED  BY <1>3, <1>8, ProperPiWrite

LEMMA ProperPiRead ==
  ASSUME NEW device, NEW counters \in BOOLEAN, NEW meters \in BOOLEAN
  PROVE  IsPiRead(PiRead(device, <<Asked("table_entry", TRUE, Wanted(counters), Wanted(meters))>>))
<1> DEFINE asked == Asked("table_entry", TRUE, Wanted(counters), Wanted(meters))
<1>1. Wanted(counters) \subseteq {"empty", "filled"} /\ Wanted(meters) \subseteq {"empty", "filled"}
  BY DEF Wanted
<1>2. /\ asked.wildcard = TRUE /\ asked.counter_data = Wanted(counters)
      /\ asked.meter_config = Wanted(meters)
  BY DEF Asked
<1>3. asked = [f \in {"kind", "wildcard", "counter_data", "meter_config"} |-> asked[f]]
  BY DEF Asked
<1> HIDE DEF asked
<1>4. IsAsked(asked)
  BY <1>1, <1>2, <1>3 DEF IsAsked, IsRecord
<1> DEFINE entities == <<asked>>
<1>5. DOMAIN entities = 1 .. 1 /\ entities[1] = asked /\ Len(entities) = 1
  OBVIOUS
<1>6. entities = [i \in 1 .. Len(entities) |-> entities[i]]
  BY <1>5
<1>7. entities \in Seq({asked})
  OBVIOUS
<1>8. IsSequence(entities) /\ Elements(entities) \subseteq {asked}
  BY <1>7, ListsAreSequences
<1> HIDE DEF entities
<1>9. \A e \in Elements(entities) : IsAsked(e)
  BY <1>4, <1>8
<1>10. /\ PiRead(device, entities).entities = entities
       /\ PiRead(device, entities) = [f \in {"device_id", "entities"} |-> PiRead(device, entities)[f]]
  BY DEF PiRead
<1>11. IsPiRead(PiRead(device, entities))
  BY <1>8, <1>9, <1>10 DEF IsPiRead, IsRecord
<1> QED  BY <1>11 DEF entities, asked

LEMMA PiReadIsProper ==
  ASSUME NEW ir, IsIrRead(ir), IrReadRequestToPi(ir) # Refused
  PROVE  IsPiRead(IrReadRequestToPi(ir))
<1> DEFINE device == ir.device_id
           counters == ir.read_counter_data
           meters == ir.read_meter_configs
<1>1. ir = IrRead(device, counters, meters) /\ counters \in BOOLEAN /\ meters \in BOOLEAN
  BY ReadsAreTheirParts DEF IsIrRead
<1>2. IrReadRequestToPi(IrRead(device, counters, meters)) =
        IF device = 0 THEN Refused
        ELSE PiRead(device, <<Asked("table_entry", TRUE, Wanted(counters), Wanted(meters))>>)
  BY ReadTranslations
<1>3. IsPiRead(PiRead(device, <<Asked("table_entry", TRUE, Wanted(counters), Wanted(meters))>>))
  BY <1>1, ProperPiRead
<1> HIDE DEF device, counters, meters
<1> QED  BY <1>1, <1>2, <1>3

(* The metadata of a packet, with its padding.                              *)
LEMMA PaddedIsProper ==
  ASSUME NEW definitions, AreDefinitions(definitions), IsFiniteSet(definitions),
         NEW data, IsFields("pi", data),
         NEW padding, HasAllOnce(padding, PaddingPieces(definitions))
  PROVE  IsFields("pi", data \o padding)
<1> DEFINE metadata == data \o padding
<1>1. IsSequence(data) /\ \A f \in Elements(data) : IsRecord(f, {"field", "value"}) /\ IsValue("pi", f.value)
  BY DEF IsFields
<1>2. IsSequence(padding) /\ Elements(padding) = PaddingPieces(definitions)
  BY DEF HasAllOnce
<1>3. HasBoth(metadata, data, padding)
  BY <1>1, <1>2, JoinedSequences
<1>4. IsSequence(metadata) /\ Elements(metadata) = Elements(data) \cup Elements(padding)
  BY <1>3 DEF HasBoth
<1>5. \A f \in PaddingPieces(definitions) : IsRecord(f, {"field", "value"}) /\ f.value = Bytes(1, 0)
  BY PartsOfPadding
<1>6. IsValue("pi", Bytes(1, 0))
  BY ProperBytes
<1> HIDE DEF metadata
<1>7. \A f \in Elements(metadata) : IsRecord(f, {"field", "value"}) /\ IsValue("pi", f.value)
  BY <1>1, <1>2, <1>4, <1>5, <1>6
<1>8. IsFields("pi", metadata)
  BY <1>4, <1>7 DEF IsFields
<1> QED  BY <1>8 DEF metadata

LEMMA PiPacketIsProper ==
  ASSUME NEW opts, NEW definitions, AreDefinitions(definitions), IsFiniteSet(definitions),
         NEW ir, IsPacket("ir", ir), IrPacketIoToPi(opts, definitions, ir) # Refused
  PROVE  IsPacket("pi", IrPacketIoToPi(opts, definitions, ir))
<1> DEFINE others == IrParamsToPi(opts, NotPadding(definitions), ir.metadata)
           padding == SetToSeq(PaddingPieces(definitions))
<1>1. ir = Packet(ir.payload, ir.metadata) /\ IsFields("ir", ir.metadata)
  BY PartsOfPacket
<1>2. IrPacketIoToPi(opts, definitions, Packet(ir.payload, ir.metadata)) =
        IF Len(ir.metadata) = Cardinality(NotPadding(definitions)) /\ others # Refused
        THEN Packet(ir.payload, others \o padding) ELSE Refused
  BY PacketTranslations
<1>3. others # Refused /\ IrPacketIoToPi(opts, definitions, ir) = Packet(ir.payload, others \o padding)
  BY <1>1, <1>2
<1>4. AreDefinitions(NotPadding(definitions))
  BY DataDefinitions
<1>5. IsFields("pi", others)
  BY <1>1, <1>3, <1>4, PiParamsAreProper
<1>6. IsFiniteSet(PaddingPieces(definitions))
  BY PaddingIsCounted DEF AreDefinitions
<1>7. HasAllOnce(padding, PaddingPieces(definitions))
  BY <1>6, SetsAreLists
<1> HIDE DEF others, padding
<1>8. IsFields("pi", others \o padding)
  BY <1>5, <1>7, PaddedIsProper
<1> QED  BY <1>3, <1>8, ProperPacket

LEMMA PiPacketMessageIsProper ==
  ASSUME NEW opts, NEW definitions, AreDefinitions(definitions), IsFiniteSet(definitions),
         NEW ir, IsStreamMessage("ir", ir), ir.kind \in {"packet", "error"},
         IrPacketMessage(opts, definitions, ir) # Refused
  PROVE  IsStreamMessage("pi", IrPacketMessage(opts, definitions, ir))
<1> DEFINE packet == IrPacketIoToPi(opts, definitions, ir.packet)
<1>1. /\ IsRecord(ir, DOMAIN ir) /\ {"kind", "packet"} \subseteq DOMAIN ir
      /\ ir.kind = "error" => "details" \in DOMAIN ir
      /\ IsPacket("ir", ir.packet)
  BY DEF IsStreamMessage
<1>2. IrPacketMessage(opts, definitions, ir) =
        IF packet = Refused THEN Refused ELSE WithNewPacket(ir, packet)
  BY PacketMessages
<1>3. packet # Refused /\ IrPacketMessage(opts, definitions, ir) = WithNewPacket(ir, packet)
  BY <1>2
<1>4. IsPacket("pi", packet)
  BY <1>1, <1>3, PiPacketIsProper
<1> HIDE DEF packet
<1>5. IsStreamMessage("pi", WithNewPacket(ir, packet))
  BY <1>1, <1>4, ProperMessage
<1> QED  BY <1>3, <1>5

LEMMA ProperArbitration ==
  ASSUME NEW side, NEW other, NEW message, IsStreamMessage(side, message), message.kind = "arbitration"
  PROVE  IsStreamMessage(other, message)
  BY DEF IsStreamMessage

LEMMA PiStreamIsProper ==
  ASSUME NEW info, IsInfo(info), NEW opts, NEW ir, IsStreamMessage("ir", ir)
  PROVE  /\ IrStreamMessageRequestToPi(info, opts, ir) # Refused =>
              IsStreamMessage("pi", IrStreamMessageRequestToPi(info, opts, ir))
         /\ IrStreamMessageResponseToPi(info, opts, ir) # Refused =>
              IsStreamMessage("pi", IrStreamMessageResponseToPi(info, opts, ir))
<1>1. /\ AreDefinitions(info.packet_in_metadata) /\ AreDefinitions(info.packet_out_metadata)
      /\ IsFiniteSet(info.packet_in_metadata) /\ IsFiniteSet(info.packet_out_metadata)
  BY DEF IsInfo
<1>2. IrStreamMessageRequestToPi(info, opts, ir) =
        CASE ir.kind = "arbitration" -> ir
          [] ir.kind = "packet"      -> IrPacketMessage(opts, info.packet_out_metadata, ir)
          [] OTHER                   -> Refused
  BY StreamTranslations
<1>3. IrStreamMessageResponseToPi(info, opts, ir) =
        CASE ir.kind = "arbitration" -> ir
          [] ir.kind = "packet"      -> IrPacketMessage(opts, info.packet_in_metadata, ir)
          [] ir.kind = "error"       -> IrPacketMessage(opts, info.packet_out_metadata, ir)
          [] OTHER                   -> Refused
  BY StreamTranslations
<1>4. CASE ir.kind = "arbitration"
  <2>1. IrStreamMessageRequestToPi(info, opts, ir) = ir /\ IrStreamMessageResponseToPi(info, opts, ir) = ir
    BY <1>2, <1>3, <1>4
  <2>2. IsStreamMessage("pi", ir)
    BY <1>4, ProperArbitration
  <2> QED  BY <2>1, <2>2
<1>5. CASE ir.kind = "packet"
  <2>1. /\ IrStreamMessageRequestToPi(info, opts, ir) = IrPacketMessage(opts, info.packet_out_metadata, ir)
        /\ IrStreamMessageResponseToPi(info, opts, ir) = IrPacketMessage(opts, info.packet_in_metadata, ir)
    BY <1>2, <1>3, <1>5
  <2>2. IrPacketMessage(opts, info.packet_out_metadata, ir) # Refused =>
          IsStreamMessage("pi", IrPacketMessage(opts, info.packet_out_metadata, ir))
    BY <1>1, <1>5, PiPacketMessageIsProper
  <2>3. IrPacketMessage(opts, info.packet_in_metadata, ir) # Refused =>
          IsStreamMessage("pi", IrPacketMessage(opts, info.packet_in_metadata, ir))
    BY <1>1, <1>5, PiPacketMessageIsProper
  <2> QED  BY <2>1, <2>2, <2>3
<1>6. CASE ir.kind = "error"
  <2>1. /\ IrStreamMessageRequestToPi(info, opts, ir) = Refused
        /\ IrStreamMessageResponseToPi(info, opts, ir) = IrPacketMessage(opts, info.packet_out_metadata, ir)
    BY <1>2, <1>3, <1>6
  <2>2. IrPacketMessage(opts, info.packet_out_metadata, ir) # Refused =>
          IsStreamMessage("pi", IrPacketMessage(opts, info.packet_out_metadata, ir))
    BY <1>1, <1>6, PiPacketMessageIsProper
  <2> QED  BY <2>1, <2>2
<1>7. CASE ir.kind \notin {"arbitration", "packet", "error"}
  <2>1. IrStreamMessageRequestToPi(info, opts, ir) = Refused
    BY <1>2, <1>7
  <2>2. IrStreamMessageResponseToPi(info, opts, ir) = Refused
    BY <1>3, <1>7
  <2> QED  BY <2>1, <2>2
<1> QED  BY <1>4, <1>5, <1>6, <1>7

(* A status of a write                                                      *)

LEMMA ProperGrpcStatus ==
  ASSUME NEW code \in Int, NEW message, NEW details, IsOptional(details),
         \A d \in details : d = Refused \/ IsStatuses(d.statuses)
  PROVE  IsGrpcStatus(GrpcStatus(code, message, details))
<1> DEFINE grpc == GrpcStatus(code, message, details)
<1>1. grpc.code = code /\ grpc.details = details
  BY PartsOfStatuses
<1>2. grpc = [f \in {"code", "message", "details"} |-> grpc[f]]
  BY DEF GrpcStatus
<1> HIDE DEF grpc
<1>3. IsGrpcStatus(grpc)
  BY <1>1, <1>2 DEF IsGrpcStatus, IsRecord
<1> QED  BY <1>3 DEF grpc

LEMMA CodesAreIntegers == OK \in Int /\ UNKNOWN \in Int
  BY DEF OK, UNKNOWN

LEMMA NoDetails == IsOptional({}) /\ \A d \in {} : d = Refused \/ IsStatuses(d.statuses)
  BY DEF IsOptional

LEMMA OneDetail ==
  ASSUME NEW statuses, IsStatuses(statuses)
  PROVE  /\ IsOptional({DetailsOf(statuses)})
         /\ \A d \in {DetailsOf(statuses)} : d = Refused \/ IsStatuses(d.statuses)
<1>1. DetailsOf(statuses).statuses = statuses
  BY PartsOfStatuses
<1> QED  BY <1>1 DEF IsOptional

LEMMA PiStatusIsProper ==
  ASSUME NEW ir, IsIrWriteStatus(ir), IrWriteRpcStatusToGrpcStatus(ir) # Refused
  PROVE  IsGrpcStatus(IrWriteRpcStatusToGrpcStatus(ir))
<1>1. CASE ir.kind = "rpc_response"
  <2> DEFINE statuses == ir.statuses
             message == IrWriteResponseToReadableMessage(statuses)
  <2>1. ir = Response(statuses) /\ IsStatuses(statuses)
    BY <1>1, WriteStatusIsItsParts
  <2>2. IrWriteRpcStatusToGrpcStatus(Response(statuses)) =
          IF AreSuccesses(statuses) THEN GrpcStatus(OK, "", {})
          ELSE IF StatusesOk(statuses) THEN GrpcStatus(UNKNOWN, message, {DetailsOf(statuses)})
          ELSE Refused
    BY StatusIsSent
  <2> HIDE DEF message, statuses
  <2>3. IrWriteRpcStatusToGrpcStatus(ir) \in
          {GrpcStatus(OK, "", {}), GrpcStatus(UNKNOWN, message, {DetailsOf(statuses)})}
    BY <2>1, <2>2
  <2>4. IsGrpcStatus(GrpcStatus(OK, "", {}))
    <3> DEFINE empty == ""
    <3> HIDE DEF empty
    <3>1. IsGrpcStatus(GrpcStatus(OK, empty, {}))
      BY NoDetails, CodesAreIntegers, ProperGrpcStatus
    <3> QED  BY <3>1 DEF empty
  <2>5. IsGrpcStatus(GrpcStatus(UNKNOWN, message, {DetailsOf(statuses)}))
    BY <2>1, OneDetail, CodesAreIntegers, ProperGrpcStatus
  <2> QED  BY <2>3, <2>4, <2>5
<1>2. CASE ir.kind = "rpc_wide_error"
  <2> DEFINE status == ir.status
  <2>1. ir = WideError(status) /\ IsStatus(status)
    BY <1>2, WriteStatusIsItsParts DEF IsIrWriteStatus
  <2>2. IrWriteRpcStatusToGrpcStatus(WideError(status)) =
          IF IsGoogleRpcCode(status.code) /\ status.code # OK
          THEN GrpcStatus(status.code, status.message, {}) ELSE Refused
    BY StatusIsSent
  <2> HIDE DEF status
  <2>3. IrWriteRpcStatusToGrpcStatus(ir) = GrpcStatus(status.code, status.message, {})
    BY <2>1, <2>2
  <2>4. status.code \in Int
    BY <2>1 DEF IsStatus
  <2>5. IsGrpcStatus(GrpcStatus(status.code, status.message, {}))
    BY <2>4, NoDetails, ProperGrpcStatus
  <2> QED  BY <2>3, <2>5
<1>3. CASE ir.kind \notin {"rpc_response", "rpc_wide_error"}
  BY <1>3 DEF IrWriteRpcStatusToGrpcStatus
<1> QED  BY <1>1, <1>2, <1>3

------------------------------------------------------------------------------
(* An exchange                                                              *)

LEMMA TranslationsUnderOptions ==
  /\ \A k, m : RequestToPi(k, m) = SentAs(options, k, m)
  /\ \A k, m : RequestToIr(k, m) = ReceivedAs(options, k, m)
  /\ \A k, m : AnswerToPi(k, m) = AnsweredAs(options, k, m)
  /\ \A k, m : AnswerToIr(k, m) = LearnedAs(options, k, wire, m)
<1>1. \A k, m : RequestToPi(k, m) = SentAs(options, k, m)
  BY DEF RequestToPi, SentAs
<1>2. \A k, m : RequestToIr(k, m) = ReceivedAs(options, k, m)
  BY DEF RequestToIr, ReceivedAs
<1>3. \A k, m : AnswerToPi(k, m) = AnsweredAs(options, k, m)
  BY DEF AnswerToPi, AnsweredAs
<1>4. \A k, m : AnswerToIr(k, m) = LearnedAs(options, k, wire, m)
  BY DEF AnswerToIr, LearnedAs
<1> QED  BY <1>1, <1>2, <1>3, <1>4

LEMMA InfosAreProper == IsInfo(IrInfo) /\ IsForPd(IrInfo)
  BY ProgramsAreLegal, CreatedInfo, CreatedForPd DEF IrInfo

LEMMA RequestsOfKinds ==
  ASSUME NEW side, NEW m
  PROVE  /\ IsRequest(side, "write", m) <=> IsWrite(side, m)
         /\ IsRequest("ir", "read", m) <=> IsIrRead(m)
         /\ IsRequest("pi", "read", m) <=> IsPiRead(m)
         /\ IsRequest(side, "stream", m) <=> IsStreamMessage(side, m)
  BY DEF IsRequest

LEMMA AnswersOfKinds ==
  ASSUME NEW side, NEW m
  PROVE  /\ IsAnswer("ir", "write", m) <=> IsIrWriteStatus(m)
         /\ IsAnswer("pi", "write", m) <=> IsGrpcStatus(m)
         /\ IsAnswer(side, "read", m) <=> IsEntities(side, m)
         /\ IsAnswer(side, "stream", m) <=> IsStreamMessage(side, m)
  BY DEF IsAnswer

(* What is put on the wire is a message of its kind.                        *)
LEMMA SentIsProper ==
  ASSUME ErrorsAreNoMessages, NEW opts, NEW k \in Kinds, NEW ir, IsRequest("ir", k, ir),
         SentAs(opts, k, ir) # Refused
  PROVE  IsRequest("pi", k, SentAs(opts, k, ir))
<1>1. IsInfo(IrInfo)
  BY InfosAreProper
<1>2. CASE k = "write"
  <2>1. IsWrite("ir", ir) /\ SentAs(opts, k, ir) = IrWriteRequestToPi(IrInfo, opts, ir)
    BY <1>2, RequestsOfKinds DEF SentAs
  <2>2. IsWrite("pi", SentAs(opts, k, ir))
    BY <1>1, <2>1, PiWriteIsProper
  <2> QED  BY <1>2, <2>2, RequestsOfKinds
<1>3. CASE k = "read"
  <2>1. IsIrRead(ir) /\ SentAs(opts, k, ir) = IrReadRequestToPi(ir)
    BY <1>3, RequestsOfKinds DEF SentAs
  <2>2. IsPiRead(SentAs(opts, k, ir))
    BY <2>1, PiReadIsProper
  <2> QED  BY <1>3, <2>2, RequestsOfKinds
<1>4. CASE k = "stream"
  <2>1. IsStreamMessage("ir", ir) /\ SentAs(opts, k, ir) = IrStreamMessageRequestToPi(IrInfo, opts, ir)
    BY <1>4, RequestsOfKinds DEF SentAs
  <2>2. IsStreamMessage("pi", SentAs(opts, k, ir))
    BY <1>1, <2>1, PiStreamIsProper
  <2> QED  BY <1>4, <2>2, RequestsOfKinds
<1> QED  BY <1>2, <1>3, <1>4 DEF Kinds

LEMMA AnsweredIsProper ==
  ASSUME ErrorsAreNoMessages, NEW opts, NEW k \in Kinds, NEW ir, IsAnswer("ir", k, ir),
         AnsweredAs(opts, k, ir) # Refused
  PROVE  IsAnswer("pi", k, AnsweredAs(opts, k, ir))
<1>1. IsInfo(IrInfo)
  BY InfosAreProper
<1>2. CASE k = "write"
  <2>1. IsIrWriteStatus(ir) /\ AnsweredAs(opts, k, ir) = IrWriteRpcStatusToGrpcStatus(ir)
    BY <1>2, AnswersOfKinds DEF AnsweredAs
  <2>2. IsGrpcStatus(AnsweredAs(opts, k, ir))
    BY <2>1, PiStatusIsProper
  <2> QED  BY <1>2, <2>2, AnswersOfKinds
<1>3. CASE k = "read"
  <2>1. IsEntities("ir", ir) /\ AnsweredAs(opts, k, ir) = IrEntitiesToPi(IrInfo, opts, ir)
    BY <1>3, AnswersOfKinds DEF AnsweredAs, IrReadResponseToPi
  <2>2. IsEntities("pi", AnsweredAs(opts, k, ir))
    BY <1>1, <2>1, PiEntitiesAreProper
  <2> QED  BY <1>3, <2>2, AnswersOfKinds
<1>4. CASE k = "stream"
  <2>1. IsStreamMessage("ir", ir) /\ AnsweredAs(opts, k, ir) = IrStreamMessageResponseToPi(IrInfo, opts, ir)
    BY <1>4, AnswersOfKinds DEF AnsweredAs
  <2>2. IsStreamMessage("pi", AnsweredAs(opts, k, ir))
    BY <1>1, <2>1, PiStreamIsProper
  <2> QED  BY <1>4, <2>2, AnswersOfKinds
<1> QED  BY <1>2, <1>3, <1>4 DEF Kinds

(* Messages are told from no message and from an error.                     *)
LEMMA ProperRequestsAreSome ==
  ASSUME ErrorsAreNoMessages, NEW side \in {"ir", "pi"}, NEW k \in Kinds, NEW m, IsRequest(side, k, m)
  PROVE  m \notin {None, Refused}
<1>1. CASE k = "write"
  <2>1. IsRecord(m, WriteFields(side))
    BY <1>1, RequestsOfKinds DEF IsWrite
  <2> QED  BY <2>1, RecordsAreNoErrors
<1>2. CASE k = "read"
  <2>1. CASE side = "ir"
    <3>1. IsRecord(m, {"device_id", "read_counter_data", "read_meter_configs"})
      BY <1>2, <2>1, RequestsOfKinds DEF IsIrRead
    <3> QED  BY <3>1, RecordsAreNoErrors
  <2>2. CASE side = "pi"
    <3>1. IsRecord(m, {"device_id", "entities"})
      BY <1>2, <2>2, RequestsOfKinds DEF IsPiRead
    <3> QED  BY <3>1, RecordsAreNoErrors
  <2> QED  BY <2>1, <2>2
<1>3. CASE k = "stream"
  <2>1. IsRecord(m, DOMAIN m)
    BY <1>3, RequestsOfKinds DEF IsStreamMessage
  <2> QED  BY <2>1, RecordsAreNoErrors
<1> QED  BY <1>1, <1>2, <1>3 DEF Kinds

LEMMA ProperAnswersAreSome ==
  ASSUME ErrorsAreNoMessages, NEW side \in {"ir", "pi"}, NEW k \in Kinds, NEW m, IsAnswer(side, k, m)
  PROVE  m \notin {None, Refused}
<1>1. CASE k = "write"
  <2>1. CASE side = "ir"
    <3>1. IsRecord(m, DOMAIN m)
      BY <1>1, <2>1, AnswersOfKinds DEF IsIrWriteStatus
    <3> QED  BY <3>1, RecordsAreNoErrors
  <2>2. CASE side = "pi"
    <3>1. IsRecord(m, {"code", "message", "details"})
      BY <1>1, <2>2, AnswersOfKinds DEF IsGrpcStatus
    <3> QED  BY <3>1, RecordsAreNoErrors
  <2> QED  BY <2>1, <2>2
<1>2. CASE k = "read"
  <2>1. IsSequence(m)
    BY <1>2, AnswersOfKinds DEF IsEntities
  <2>2. m = [i \in DOMAIN m |-> m[i]]
    BY <2>1, PartsOfSequence
  <2> QED  BY <2>2, FunctionsAreNoErrors
<1>3. CASE k = "stream"
  <2>1. IsRecord(m, DOMAIN m)
    BY <1>3, AnswersOfKinds DEF IsStreamMessage
  <2> QED  BY <2>1, RecordsAreNoErrors
<1> QED  BY <1>1, <1>2, <1>3 DEF Kinds

(* What a client writes as PD becomes a request of the IR.                  *)
LEMMA FromPdIsProper ==
  ASSUME NEW k \in Kinds, NEW pd, IsPdRequest(k, pd), RequestFromPd(k, pd) # Refused
  PROVE  IsRequest("ir", k, RequestFromPd(k, pd))
<1>1. IsForPd(IrInfo) /\ IsFiniteSet(IrInfo.packet_out_metadata)
  BY InfosAreProper DEF IsInfo
<1>2. CASE k = "write"
  <2>1. IsPdWrite(pd) /\ RequestFromPd(k, pd) = PdWriteRequestToIr(IrInfo, options, pd)
    BY <1>2 DEF IsPdRequest, RequestFromPd
  <2>2. IsWrite("ir", RequestFromPd(k, pd))
    BY <1>1, <2>1, PdWriteIsProper
  <2> QED  BY <1>2, <2>2, RequestsOfKinds
<1>3. CASE k = "read"
  <2>1. IsIrRead(pd) /\ RequestFromPd(k, pd) = pd
    BY <1>3 DEF IsPdRequest, RequestFromPd, PdReadRequestToIr
  <2> QED  BY <1>3, <2>1, RequestsOfKinds
<1>4. CASE k = "stream"
  <2>1. IsPdStreamMessage(pd) /\ RequestFromPd(k, pd) = PdStreamMessageRequestToIr(Schema, IrInfo, pd)
    BY <1>4 DEF IsPdRequest, RequestFromPd
  <2>2. IsStreamMessage("ir", RequestFromPd(k, pd))
    BY <1>1, <2>1, PdStreamIsProper
  <2> QED  BY <1>4, <2>2, RequestsOfKinds
<1> QED  BY <1>2, <1>3, <1>4 DEF Kinds

LEMMA ExchangeStarts ==
  ASSUME Init
  PROVE  ExchangeInv
  BY DEF Init, ExchangeInv, RequestIsSent, WireIsProper, RequestIsReceived, AnswerIsSent, ReplyIsProper,
         AnswerIsLearned, Arrived

(* Nothing was received, answered or learned before something was sent.     *)
LEMMA BeforeSending ==
  ASSUME ExchangeInv, wire = None
  PROVE  request = None /\ received = None /\ answer = None /\ reply = None /\ learned = None
  BY DEF ExchangeInv, WireIsProper, RequestIsReceived, ReplyIsProper, AnswerIsLearned, Arrived

LEMMA BeforeAnswering ==
  ASSUME ExchangeInv, reply = None
  PROVE  answer = None /\ learned = None
  BY DEF ExchangeInv, ReplyIsProper, AnswerIsLearned, Arrived

(* What is sent of a proper request is proper, or an error.                 *)
LEMMA SentOrRefused ==
  ASSUME ErrorsAreNoMessages, NEW opts, NEW k \in Kinds, NEW ir, IsRequest("ir", k, ir),
         NEW pi, pi = SentAs(opts, k, ir)
  PROVE  pi # None /\ (Arrived(pi) => IsRequest("pi", k, pi))
<1>1. CASE pi = Refused
  BY <1>1, NothingIsNoError DEF Arrived
<1>2. CASE pi # Refused
  <2>1. IsRequest("pi", k, pi)
    BY <1>2, SentIsProper
  <2> QED  BY <2>1, ProperRequestsAreSome
<1> QED  BY <1>1, <1>2

LEMMA AnsweredOrRefused ==
  ASSUME ErrorsAreNoMessages, NEW opts, NEW k \in Kinds, NEW ir, IsAnswer("ir", k, ir),
         NEW pi, pi = AnsweredAs(opts, k, ir)
  PROVE  pi # None /\ (Arrived(pi) => IsAnswer("pi", k, pi))
<1>1. CASE pi = Refused
  BY <1>1, NothingIsNoError DEF Arrived
<1>2. CASE pi # Refused
  <2>1. IsAnswer("pi", k, pi)
    BY <1>2, AnsweredIsProper
  <2> QED  BY <2>1, ProperAnswersAreSome
<1> QED  BY <1>1, <1>2

(* A step that sends a request, or an error.                                *)
LEMMA SendingStep ==
  ASSUME ExchangeInv, wire = None, kind' = kind,
         received' = received /\ answer' = answer /\ reply' = reply /\ learned' = learned,
         WireIsProper', RequestIsSent'
  PROVE  ExchangeInv'
<1>1. /\ kind \in Kinds
      /\ request = None /\ received = None /\ answer = None /\ reply = None /\ learned = None
  BY BeforeSending DEF ExchangeInv
<1>2. RequestIsReceived' /\ AnswerIsSent' /\ AnswerIsLearned'
  BY <1>1 DEF RequestIsReceived, AnswerIsSent, AnswerIsLearned
<1>3. ReplyIsProper'
  BY <1>1 DEF ReplyIsProper, Arrived
<1> QED  BY <1>1, <1>2, <1>3 DEF ExchangeInv

LEMMA SendKeepsExchange ==
  ASSUME ErrorsAreNoMessages, ExchangeInv, Send
  PROVE  ExchangeInv'
<1>1. PICK r \in Requests[kind] : request' = r /\ wire' = RequestToPi(kind, r)
  BY DEF Send
<1>2. kind \in Kinds /\ IsRequest("ir", kind, r)
  BY RequestsAreProper DEF ExchangeInv
<1>3. wire' = SentAs(options, kind, r)
  BY <1>1, TranslationsUnderOptions
<1>4. wire' # None /\ (Arrived(wire') => IsRequest("pi", kind, wire'))
  BY <1>2, <1>3, SentOrRefused
<1>5. /\ options' = options /\ kind' = kind
      /\ received' = received /\ answer' = answer /\ reply' = reply /\ learned' = learned
  BY DEF Send
<1>6. RequestIsSent'
  BY <1>1, <1>2, <1>3, <1>5 DEF RequestIsSent
<1>7. WireIsProper'
  BY <1>4, <1>5 DEF WireIsProper, Arrived
<1>8. wire = None
  BY DEF Send
<1> QED  BY <1>5, <1>6, <1>7, <1>8, SendingStep

LEMMA SendPdKeepsExchange ==
  ASSUME ErrorsAreNoMessages, ExchangeInv, SendPd
  PROVE  ExchangeInv'
<1>1. PICK pd \in PdRequests[kind] :
        LET ir == RequestFromPd(kind, pd)
        IN  /\ shown' = pd
            /\ IF ir = Refused THEN wire' = Refused /\ UNCHANGED request
               ELSE request' = ir /\ wire' = RequestToPi(kind, ir)
  BY DEF SendPd
<1> DEFINE ir == RequestFromPd(kind, pd)
<1>2. kind \in Kinds /\ IsPdRequest(kind, pd)
  BY RequestsAreProper DEF ExchangeInv
<1>3. /\ options' = options /\ kind' = kind /\ wire = None
      /\ received' = received /\ answer' = answer /\ reply' = reply /\ learned' = learned
  BY DEF SendPd
<1>4. ir # Refused => IsRequest("ir", kind, ir)
  BY <1>2, FromPdIsProper
<1> HIDE DEF ir
<1>5. \/ ir = Refused /\ wire' = Refused /\ request' = request
      \/ ir # Refused /\ request' = ir /\ wire' = RequestToPi(kind, ir)
  BY <1>1 DEF ir
<1>6. CASE ir = Refused /\ wire' = Refused /\ request' = request
  <2>1. request' = None
    BY <1>3, <1>6, BeforeSending
  <2>2. RequestIsSent'
    BY <2>1 DEF RequestIsSent
  <2>3. WireIsProper'
    BY <1>6, <2>1, NothingIsNoError DEF WireIsProper, Arrived
  <2> QED  BY <1>3, <2>2, <2>3, SendingStep
<1>7. CASE ir # Refused /\ request' = ir /\ wire' = RequestToPi(kind, ir)
  <2>1. IsRequest("ir", kind, ir) /\ wire' = SentAs(options, kind, ir)
    BY <1>4, <1>7, TranslationsUnderOptions
  <2>2. wire' # None /\ (Arrived(wire') => IsRequest("pi", kind, wire'))
    BY <1>2, <2>1, SentOrRefused
  <2>3. RequestIsSent'
    BY <1>3, <1>7, <2>1 DEF RequestIsSent
  <2>4. WireIsProper'
    BY <1>3, <2>2 DEF WireIsProper, Arrived
  <2> QED  BY <1>3, <2>3, <2>4, SendingStep
<1> QED  BY <1>5, <1>6, <1>7

LEMMA SendOtherwiseKeepsExchange ==
  ASSUME ErrorsAreNoMessages, ExchangeInv, SendOtherwise
  PROVE  ExchangeInv'
<1>1. /\ options' = options /\ kind' = kind /\ wire = None /\ request' = request
      /\ received' = received /\ answer' = answer /\ reply' = reply /\ learned' = learned
  BY DEF SendOtherwise
<1>2. kind \in Kinds /\ IsRequest("pi", kind, wire')
  BY RequestsAreProper DEF ExchangeInv, SendOtherwise
<1>3. request' = None
  BY <1>1, BeforeSending
<1>4. RequestIsSent' /\ WireIsProper'
  BY <1>1, <1>2, <1>3 DEF RequestIsSent, WireIsProper
<1> QED  BY <1>1, <1>4, SendingStep

LEMMA ReceiveKeepsExchange ==
  ASSUME ExchangeInv, Receive
  PROVE  ExchangeInv'
<1>1. /\ options' = options /\ kind' = kind /\ wire' = wire /\ request' = request
      /\ answer' = answer /\ reply' = reply /\ learned' = learned
      /\ Arrived(wire) /\ received = None /\ received' = RequestToIr(kind, wire)
  BY DEF Receive, Arrived
<1>2. received' = ReceivedAs(options, kind, wire)
  BY <1>1, TranslationsUnderOptions
<1>3. reply = None
  BY <1>1 DEF ExchangeInv, ReplyIsProper, Arrived
<1>4. kind' \in Kinds /\ RequestIsSent' /\ WireIsProper'
  BY <1>1 DEF ExchangeInv, RequestIsSent, WireIsProper, Arrived
<1>5. RequestIsReceived'
  BY <1>1, <1>2 DEF RequestIsReceived, Arrived
<1>6. AnswerIsSent' /\ AnswerIsLearned'
  BY <1>1 DEF ExchangeInv, AnswerIsSent, AnswerIsLearned, Arrived
<1>7. ReplyIsProper'
  BY <1>1, <1>3 DEF ExchangeInv, ReplyIsProper, Arrived
<1> QED  BY <1>4, <1>5, <1>6, <1>7 DEF ExchangeInv

(* A step that puts an answer, or an error, on the wire.                    *)
LEMMA AnsweringStep ==
  ASSUME ExchangeInv, Arrived(received), reply = None,
         options' = options /\ kind' = kind /\ request' = request /\ wire' = wire,
         received' = received /\ learned' = learned,
         AnswerIsSent', Arrived(reply') => IsAnswer("pi", kind, reply'), reply' = None => answer' = None
  PROVE  ExchangeInv'
<1>1. kind' \in Kinds /\ RequestIsSent' /\ WireIsProper' /\ RequestIsReceived'
  BY DEF ExchangeInv, RequestIsSent, WireIsProper, RequestIsReceived, Arrived
<1>2. AnswerIsLearned'
  BY BeforeAnswering DEF AnswerIsLearned
<1>3. ReplyIsProper'
  BY DEF ReplyIsProper, Arrived
<1> QED  BY <1>1, <1>2, <1>3 DEF ExchangeInv

LEMMA AnswerKeepsExchange ==
  ASSUME ErrorsAreNoMessages, AnswersAreProper, ExchangeInv, Answer
  PROVE  ExchangeInv'
<1>1. PICK a \in Answers(kind, received) : answer' = a /\ reply' = AnswerToPi(kind, a)
  BY DEF Answer
<1>2. /\ options' = options /\ kind' = kind /\ request' = request /\ wire' = wire
      /\ received' = received /\ learned' = learned /\ Arrived(received) /\ reply = None
  BY DEF Answer, Arrived
<1>3. kind \in Kinds /\ IsAnswer("ir", kind, a)
  BY DEF ExchangeInv, AnswersAreProper
<1>4. reply' = AnsweredAs(options, kind, a)
  BY <1>1, TranslationsUnderOptions
<1>5. reply' # None /\ (Arrived(reply') => IsAnswer("pi", kind, reply'))
  BY <1>3, <1>4, AnsweredOrRefused
<1>6. AnswerIsSent'
  BY <1>1, <1>2, <1>3, <1>4 DEF AnswerIsSent
<1> QED  BY <1>2, <1>5, <1>6, AnsweringStep

LEMMA AnswerOtherwiseKeepsExchange ==
  ASSUME AnswersAreProper, ExchangeInv, AnswerOtherwise
  PROVE  ExchangeInv'
<1>1. /\ options' = options /\ kind' = kind /\ request' = request /\ wire' = wire
      /\ received' = received /\ learned' = learned /\ answer' = answer
      /\ Arrived(received) /\ reply = None /\ reply' \in WireAnswers(kind, received)
  BY DEF AnswerOtherwise, Arrived
<1>2. IsAnswer("pi", kind, reply')
  BY <1>1 DEF ExchangeInv, AnswersAreProper
<1>3. answer' = None
  BY <1>1, BeforeAnswering
<1>4. AnswerIsSent'
  BY <1>3 DEF AnswerIsSent
<1> QED  BY <1>1, <1>2, <1>3, <1>4, AnsweringStep

LEMMA LearnKeepsExchange ==
  ASSUME ExchangeInv, Learn
  PROVE  ExchangeInv'
<1>1. /\ options' = options /\ kind' = kind /\ wire' = wire /\ request' = request
      /\ answer' = answer /\ reply' = reply /\ received' = received
      /\ Arrived(reply) /\ learned' = AnswerToIr(kind, reply)
  BY DEF Learn, Arrived
<1>2. learned' = LearnedAs(options, kind, wire, reply)
  BY <1>1, TranslationsUnderOptions
<1>3. kind' \in Kinds /\ RequestIsSent' /\ WireIsProper' /\ RequestIsReceived'
  BY <1>1 DEF ExchangeInv, RequestIsSent, WireIsProper, RequestIsReceived, Arrived
<1>4. AnswerIsSent' /\ ReplyIsProper'
  BY <1>1 DEF ExchangeInv, AnswerIsSent, ReplyIsProper, Arrived
<1>5. AnswerIsLearned'
  BY <1>1, <1>2 DEF AnswerIsLearned, Arrived
<1> QED  BY <1>3, <1>4, <1>5 DEF ExchangeInv

LEMMA StutteringKeepsExchange ==
  ASSUME ExchangeInv, UNCHANGED vars
  PROVE  ExchangeInv'
  BY DEF ExchangeInv, RequestIsSent, WireIsProper, RequestIsReceived, AnswerIsSent, ReplyIsProper,
         AnswerIsLearned, Arrived, vars

(* In every reachable state, what has been sent, received, answered and     *)
(* learned is what the translations of ir.cc make of the message before,    *)
(* and is a message of its kind.                                            *)
THEOREM ExchangeFollows ==
  ASSUME ErrorsAreNoMessages, AnswersAreProper
  PROVE  Spec => []ExchangeInv
<1>1. Init => ExchangeInv
  BY ExchangeStarts
<1>2. ExchangeInv /\ [Next]_vars => ExchangeInv'
  <2> SUFFICES ASSUME ExchangeInv, [Next]_vars PROVE ExchangeInv'
    OBVIOUS
  <2>1. CASE Send
    BY <2>1, SendKeepsExchange
  <2>2. CASE SendPd
    BY <2>2, SendPdKeepsExchange
  <2>3. CASE SendOtherwise
    BY <2>3, SendOtherwiseKeepsExchange
  <2>4. CASE Receive
    BY <2>4, ReceiveKeepsExchange
  <2>5. CASE Answer
    BY <2>5, AnswerKeepsExchange
  <2>6. CASE AnswerOtherwise
    BY <2>6, AnswerOtherwiseKeepsExchange
  <2>7. CASE Learn
    BY <2>7, LearnKeepsExchange
  <2>8. CASE UNCHANGED vars
    BY <2>8, StutteringKeepsExchange
  <2> QED  BY <2>1, <2>2, <2>3, <2>4, <2>5, <2>6, <2>7, <2>8 DEF Next
<1> QED  BY <1>1, <1>2, PTL DEF Spec

------------------------------------------------------------------------------
(* What the messages of an exchange mean                                    *)

LEMMA EntityMeaningIs ==
  \A e : EntityMeaning(e) = MeaningUnder(options, e)
  BY DEF EntityMeaning, MeaningUnder

LEMMA MeaningOfUpdates ==
  ASSUME NEW m, AreUpdates(m.updates), kind = "write"
  PROVE  RequestMeaning(m) = WriteMeaning(options, m)
<1> DEFINE new == [i \in DOMAIN m.updates |->
                     [m.updates[i] EXCEPT !.entity = EntityMeaning(m.updates[i].entity)]]
<1>1. RequestMeaning(m) = [m EXCEPT !.updates = new]
  BY DEF RequestMeaning, RequestWith, OfUpdates
<1>2. ASSUME NEW i \in DOMAIN m.updates
      PROVE  [m.updates[i] EXCEPT !.entity = EntityMeaning(m.updates[i].entity)]
               = Update(m.updates[i].type, MeaningUnder(options, m.updates[i].entity))
  <2> DEFINE u == m.updates[i]
             type == u.type
             entity == u.entity
             meaning == MeaningUnder(options, entity)
  <2>1. u = Update(type, entity)
    BY DEF AreUpdates
  <2>2. EntityMeaning(entity) = meaning
    BY EntityMeaningIs
  <2> HIDE DEF type, entity, meaning, u
  <2>3. [u EXCEPT !.entity = meaning] = [Update(type, entity) EXCEPT !.entity = meaning]
    BY <2>1
  <2>4. [Update(type, entity) EXCEPT !.entity = meaning] = Update(type, meaning)
    BY DEF Update
  <2>5. [u EXCEPT !.entity = EntityMeaning(entity)] = Update(type, meaning)
    BY <2>2, <2>3, <2>4
  <2> QED  BY <2>5 DEF u, type, entity, meaning
<1>3. new = UpdatesMeaning(options, m.updates)
  BY <1>2 DEF UpdatesMeaning
<1> HIDE DEF new
<1> QED  BY <1>1, <1>3 DEF WriteMeaning

LEMMA MeaningOfEntities ==
  ASSUME NEW m, kind = "read"
  PROVE  AnswerMeaning(m) = EntitiesMeaning(options, m)
<1>1. AnswerMeaning(m) = [i \in DOMAIN m |-> EntityMeaning(m[i])]
  BY DEF AnswerMeaning, AnswerWith
<1> QED  BY <1>1, EntityMeaningIs DEF EntitiesMeaning

LEMMA MeaningOfOtherRequests ==
  ASSUME NEW m
  PROVE  /\ kind = "read" => RequestMeaning(m) = m
         /\ kind = "stream" => RequestMeaning(m) = StreamMeaning(m) /\ AnswerMeaning(m) = StreamMeaning(m)
  BY DEF RequestMeaning, AnswerMeaning, RequestWith

LEMMA ProperUpdatesAreUpdates ==
  ASSUME NEW side, NEW m, IsWrite(side, m)
  PROVE  AreUpdates(m.updates)
<1>1. IsUpdates(side, m.updates)
  BY DEF IsWrite
<1> QED  BY <1>1, PartsOfUpdates DEF AreUpdates

(* What is put on the wire is received as it was meant.                     *)
ComesBack(sent, back) == back # Refused /\ RequestMeaning(back) = RequestMeaning(sent)

LEMMA RequestComesBack ==
  ASSUME ErrorsAreNoMessages, ~options.allow_arbitrary_format, kind \in Kinds,
         NEW m, IsRequest("ir", kind, m), SentAs(options, kind, m) # Refused
  PROVE  ComesBack(m, ReceivedAs(options, kind, SentAs(options, kind, m)))
<1>1. IsInfo(IrInfo)
  BY InfosAreProper
<1>2. m \notin {None, Refused}
  BY ProperRequestsAreSome
<1>3. CASE kind = "write"
  <2> DEFINE pi == IrWriteRequestToPi(IrInfo, options, m)
             back == PiWriteRequestToIr(IrInfo, options, pi)
  <2>1. IsWrite("ir", m)
    BY <1>3, RequestsOfKinds
  <2>2. SentAs(options, kind, m) = pi /\ ReceivedAs(options, kind, pi) = back
    BY <1>3 DEF SentAs, ReceivedAs
  <2>3. /\ back # Refused /\ AreUpdates(back.updates)
        /\ WriteMeaning(options, back) = WriteMeaning(options, m)
    BY <1>1, <2>1, <2>2, IrWriteComesBack
  <2> HIDE DEF back, pi
  <2>4. AreUpdates(m.updates)
    BY <2>1, ProperUpdatesAreUpdates
  <2>5. RequestMeaning(back) = RequestMeaning(m)
    BY <1>3, <2>3, <2>4, MeaningOfUpdates
  <2> QED  BY <2>2, <2>3, <2>5 DEF ComesBack
<1>4. CASE kind = "read"
  <2>1. IsIrRead(m)
    BY <1>4, RequestsOfKinds
  <2>2. SentAs(options, kind, m) = IrReadRequestToPi(m)
    BY <1>4 DEF SentAs
  <2>3. ReceivedAs(options, kind, SentAs(options, kind, m)) = PiReadRequestToIr(IrReadRequestToPi(m))
    BY <1>4, <2>2 DEF ReceivedAs
  <2>4. PiReadRequestToIr(IrReadRequestToPi(m)) = m
    BY <2>1, <2>2, IrReadComesBack
  <2> QED  BY <1>2, <2>3, <2>4 DEF ComesBack
<1>5. CASE kind = "stream"
  <2>1. IsStreamMessage("ir", m)
    BY <1>5, RequestsOfKinds
  <2>2. SentAs(options, kind, m) = IrStreamMessageRequestToPi(IrInfo, options, m)
    BY <1>5 DEF SentAs
  <2>3. ReceivedAs(options, kind, SentAs(options, kind, m)) =
          PiStreamMessageRequestToIr(IrInfo, IrStreamMessageRequestToPi(IrInfo, options, m))
    BY <1>5, <2>2 DEF ReceivedAs
  <2>4. PiStreamMessageRequestToIr(IrInfo, IrStreamMessageRequestToPi(IrInfo, options, m)) = m
    BY <1>1, <2>1, <2>2, IrStreamComesBack
  <2> QED  BY <1>2, <2>3, <2>4 DEF ComesBack
<1> QED  BY <1>3, <1>4, <1>5 DEF Kinds

AnswerComesBackAs(sent, back) == back # Refused /\ AnswerMeaning(back) = AnswerMeaning(sent)

LEMMA AnswerComesBack ==
  ASSUME ErrorsAreNoMessages, ~options.allow_arbitrary_format, kind \in Kinds, kind # "write",
         NEW m, IsAnswer("ir", kind, m), AnsweredAs(options, kind, m) # Refused
  PROVE  AnswerComesBackAs(m, LearnedAs(options, kind, wire, AnsweredAs(options, kind, m)))
<1>1. IsInfo(IrInfo)
  BY InfosAreProper
<1>2. m \notin {None, Refused}
  BY ProperAnswersAreSome
<1>3. CASE kind = "read"
  <2> DEFINE pi == IrEntitiesToPi(IrInfo, options, m)
             back == PiEntitiesToIr(IrInfo, options, pi)
  <2>1. IsEntities("ir", m)
    BY <1>3, AnswersOfKinds
  <2>2. AnsweredAs(options, kind, m) = pi /\ LearnedAs(options, kind, wire, pi) = back
    BY <1>3 DEF AnsweredAs, LearnedAs, IrReadResponseToPi, PiReadResponseToIr
  <2>3. back # Refused /\ EntitiesMeaning(options, back) = EntitiesMeaning(options, m)
    BY <1>1, <2>1, <2>2, IrEntitiesComeBack
  <2> HIDE DEF back, pi
  <2>4. AnswerMeaning(back) = AnswerMeaning(m)
    BY <1>3, <2>3, MeaningOfEntities
  <2> QED  BY <2>2, <2>3, <2>4 DEF AnswerComesBackAs
<1>4. CASE kind = "stream"
  <2>1. IsStreamMessage("ir", m)
    BY <1>4, AnswersOfKinds
  <2>2. AnsweredAs(options, kind, m) = IrStreamMessageResponseToPi(IrInfo, options, m)
    BY <1>4 DEF AnsweredAs
  <2>3. LearnedAs(options, kind, wire, AnsweredAs(options, kind, m)) =
          PiStreamMessageResponseToIr(IrInfo, IrStreamMessageResponseToPi(IrInfo, options, m))
    BY <1>4, <2>2 DEF LearnedAs
  <2>4. PiStreamMessageResponseToIr(IrInfo, IrStreamMessageResponseToPi(IrInfo, options, m)) = m
    BY <1>1, <2>1, <2>2, IrStreamComesBack
  <2> QED  BY <1>2, <2>3, <2>4 DEF AnswerComesBackAs
<1> QED  BY <1>3, <1>4 DEF Kinds

(* What the invariant says of a request that was received, and of an answer. *)
LEMMA ReceivedRequest ==
  ASSUME ErrorsAreNoMessages, ExchangeInv, ~options.allow_arbitrary_format,
         request # None, received # None
  PROVE  ComesBack(request, received)
<1>1. /\ IsRequest("ir", kind, request) /\ wire = SentAs(options, kind, request)
      /\ kind \in Kinds /\ wire # Refused /\ received = ReceivedAs(options, kind, wire)
  BY DEF ExchangeInv, RequestIsSent, RequestIsReceived, Arrived
<1>2. ComesBack(request, ReceivedAs(options, kind, SentAs(options, kind, request)))
  BY <1>1, RequestComesBack
<1> QED  BY <1>1, <1>2

LEMMA LearnedAnswer ==
  ASSUME ErrorsAreNoMessages, ExchangeInv, ~options.allow_arbitrary_format, kind # "write",
         answer # None, learned # None
  PROVE  AnswerComesBackAs(answer, learned)
<1>1. /\ IsAnswer("ir", kind, answer) /\ reply = AnsweredAs(options, kind, answer)
      /\ kind \in Kinds /\ reply # Refused /\ learned = LearnedAs(options, kind, wire, reply)
  BY DEF ExchangeInv, AnswerIsSent, AnswerIsLearned, Arrived
<1>2. AnswerComesBackAs(answer, LearnedAs(options, kind, wire, AnsweredAs(options, kind, answer)))
  BY <1>1, AnswerComesBack
<1> QED  BY <1>1, <1>2

LEMMA NothingIsLost ==
  ASSUME ErrorsAreNoMessages, ExchangeInv
  PROVE  NothingIsLostOnTheWay /\ WhatIsSentIsAccepted
<1> SUFFICES ASSUME ~options.allow_arbitrary_format
             PROVE  /\ request # None /\ received # None => ComesBack(request, received)
                    /\ answer # None /\ learned # None /\ kind # "write" => AnswerComesBackAs(answer, learned)
  BY NothingIsNoError DEF NothingIsLostOnTheWay, WhatIsSentIsAccepted, ComesBack, AnswerComesBackAs, Arrived
<1> QED  BY ReceivedRequest, LearnedAnswer

LEMMA OutcomesReachTheClient ==
  ASSUME ErrorsAreNoMessages, ExchangeInv
  PROVE  ClientLearnsEveryOutcome
<1> DEFINE n == Len(wire.updates)
<1> SUFFICES ASSUME kind = "write", learned # None PROVE ClientLearnsEveryOutcome
  BY DEF ClientLearnsEveryOutcome
<1>1. /\ Arrived(reply) /\ learned = LearnedAs(options, kind, wire, reply) /\ Arrived(received)
      /\ answer # None => IsAnswer("ir", kind, answer) /\ reply = AnsweredAs(options, kind, answer)
  BY DEF ExchangeInv, AnswerIsSent, ReplyIsProper, AnswerIsLearned, Arrived
<1>2. Arrived(wire) /\ IsRequest("pi", kind, wire)
  BY <1>1 DEF ExchangeInv, WireIsProper, RequestIsReceived, Arrived
<1>3. IsWrite("pi", wire)
  BY <1>2, RequestsOfKinds
<1>4. n \in Nat
  BY <1>3, PartsOfSequence DEF IsWrite, IsUpdates
<1>5. learned = GrpcStatusToIrWriteRpcStatus(reply, n) /\ reply # Refused
  BY <1>1 DEF LearnedAs, Arrived
<1>6. answer # None => IsIrWriteStatus(answer) /\ reply = IrWriteRpcStatusToGrpcStatus(answer)
  BY <1>1, AnswersOfKinds DEF AnsweredAs
<1>7. OutcomesAreLearned(answer, reply, learned, n)
  <2> HIDE DEF n
  <2> QED  BY <1>4, <1>5, <1>6, EveryOutcomeIsLearned
<1> QED  BY <1>7 DEF OutcomesAreLearned, ClientLearnsEveryOutcome

(* What was accepted from the wire can be put there again.                  *)
LEMMA WholeAddresses ==
  ASSUME PrefixesAreOfWholeAddresses(Program)
  PROVE  \A i \in DOMAIN IrInfo.tables_by_id : HasWholeAddresses(IrInfo.tables_by_id[i])
<1>1. \A i \in DOMAIN IrInfo.tables_by_id : HasWholeAddresses(IrInfo.tables_by_id[i])
  <2> DEFINE created == IrInfo
  <2>1. created = CreateIrP4Info(Program)
    BY DEF IrInfo
  <2> HIDE DEF created
  <2>2. \A i \in DOMAIN created.tables_by_id : HasWholeAddresses(created.tables_by_id[i])
    BY <2>1, ProgramsAreLegal, CreatedAddresses
  <2> QED  BY <2>2 DEF created
<1> QED  BY <1>1

LEMMA RequestIsSentAgain ==
  ASSUME ErrorsAreNoMessages, PrefixesAreOfWholeAddresses(Program), kind \in Kinds,
         NEW pi, IsRequest("pi", kind, pi), ReceivedAs(options, kind, pi) # Refused,
         kind = "write" => \A u \in Elements(pi.updates) : HasPrefixLengths(u.entity)
  PROVE  ComesBack(pi, SentAs(options, kind, ReceivedAs(options, kind, pi)))
<1>1. IsInfo(IrInfo) /\ \A i \in DOMAIN IrInfo.tables_by_id : HasWholeAddresses(IrInfo.tables_by_id[i])
  BY InfosAreProper, WholeAddresses
<1>2. pi \notin {None, Refused}
  BY ProperRequestsAreSome
<1>3. CASE kind = "write"
  <2> DEFINE ir == PiWriteRequestToIr(IrInfo, options, pi)
             again == IrWriteRequestToPi(IrInfo, options, ir)
  <2>1. IsWrite("pi", pi)
    BY <1>3, RequestsOfKinds
  <2>2. ReceivedAs(options, kind, pi) = ir /\ SentAs(options, kind, ir) = again
    BY <1>3 DEF SentAs, ReceivedAs
  <2>3. /\ again # Refused /\ AreUpdates(again.updates)
        /\ WriteMeaning(options, again) = WriteMeaning(options, pi)
    BY <1>1, <1>3, <2>1, <2>2, PiWriteIsSentAgain
  <2> HIDE DEF again, ir
  <2>4. AreUpdates(pi.updates)
    BY <2>1, ProperUpdatesAreUpdates
  <2>5. RequestMeaning(again) = RequestMeaning(pi)
    BY <1>3, <2>3, <2>4, MeaningOfUpdates
  <2> QED  BY <2>2, <2>3, <2>5 DEF ComesBack
<1>4. CASE kind = "read"
  <2>1. IsPiRead(pi)
    BY <1>4, RequestsOfKinds
  <2>2. ReceivedAs(options, kind, pi) = PiReadRequestToIr(pi)
    BY <1>4 DEF ReceivedAs
  <2>3. SentAs(options, kind, ReceivedAs(options, kind, pi)) = IrReadRequestToPi(PiReadRequestToIr(pi))
    BY <1>4, <2>2 DEF SentAs
  <2>4. IrReadRequestToPi(PiReadRequestToIr(pi)) = pi
    BY <2>1, <2>2, PiReadIsSentAgain
  <2> QED  BY <1>2, <2>3, <2>4 DEF ComesBack
<1>5. CASE kind = "stream"
  <2> DEFINE ir == PiStreamMessageRequestToIr(IrInfo, pi)
             again == IrStreamMessageRequestToPi(IrInfo, options, ir)
  <2>1. IsStreamMessage("pi", pi)
    BY <1>5, RequestsOfKinds
  <2>2. ReceivedAs(options, kind, pi) = ir /\ SentAs(options, kind, ir) = again
    BY <1>5 DEF SentAs, ReceivedAs
  <2>3. again # Refused /\ StreamMeaning(again) = StreamMeaning(pi)
    BY <1>1, <2>1, <2>2, PiStreamIsSentAgain
  <2> HIDE DEF again, ir
  <2>4. RequestMeaning(again) = RequestMeaning(pi)
    BY <1>5, <2>3, MeaningOfOtherRequests
  <2> QED  BY <2>2, <2>3, <2>4 DEF ComesBack
<1> QED  BY <1>3, <1>4, <1>5 DEF Kinds

LEMMA AnswerIsSentAgain ==
  ASSUME ErrorsAreNoMessages, PrefixesAreOfWholeAddresses(Program), kind \in Kinds,
         kind = "write" => Len(wire.updates) \in Nat,
         NEW pi, IsAnswer("pi", kind, pi), LearnedAs(options, kind, wire, pi) # Refused,
         kind = "read" => \A e \in Elements(pi) : HasPrefixLengths(e)
  PROVE  LET again == AnsweredAs(options, kind, LearnedAs(options, kind, wire, pi))
         IN  again # Refused /\ (kind # "write" => AnswerMeaning(again) = AnswerMeaning(pi))
<1>1. IsInfo(IrInfo) /\ \A i \in DOMAIN IrInfo.tables_by_id : HasWholeAddresses(IrInfo.tables_by_id[i])
  BY InfosAreProper, WholeAddresses
<1>2. CASE kind = "write"
  <2> DEFINE n == Len(wire.updates)
             ir == GrpcStatusToIrWriteRpcStatus(pi, n)
  <2>1. n \in Nat
    BY <1>2
  <2>2. LearnedAs(options, kind, wire, pi) = ir /\ AnsweredAs(options, kind, ir) = IrWriteRpcStatusToGrpcStatus(ir)
    BY <1>2 DEF AnsweredAs, LearnedAs
  <2>3. ir # Refused
    BY <2>2
  <2> HIDE DEF n
  <2>4. IrWriteRpcStatusToGrpcStatus(ir) # Refused
    BY <2>1, <2>3, ReadStatusIsSentAgain
  <2> HIDE DEF ir
  <2> QED  BY <1>2, <2>2, <2>4
<1>3. CASE kind = "read"
  <2> DEFINE ir == PiEntitiesToIr(IrInfo, options, pi)
             again == IrEntitiesToPi(IrInfo, options, ir)
  <2>1. IsEntities("pi", pi)
    BY <1>3, AnswersOfKinds
  <2>2. LearnedAs(options, kind, wire, pi) = ir /\ AnsweredAs(options, kind, ir) = again
    BY <1>3 DEF AnsweredAs, LearnedAs, IrReadResponseToPi, PiReadResponseToIr
  <2>3. again # Refused /\ EntitiesMeaning(options, again) = EntitiesMeaning(options, pi)
    BY <1>1, <1>3, <2>1, <2>2, PiEntitiesAreSentAgain
  <2> HIDE DEF again, ir
  <2>4. AnswerMeaning(again) = AnswerMeaning(pi)
    BY <1>3, <2>3, MeaningOfEntities
  <2> QED  BY <2>2, <2>3, <2>4
<1>4. CASE kind = "stream"
  <2> DEFINE ir == PiStreamMessageResponseToIr(IrInfo, pi)
             again == IrStreamMessageResponseToPi(IrInfo, options, ir)
  <2>1. IsStreamMessage("pi", pi)
    BY <1>4, AnswersOfKinds
  <2>2. LearnedAs(options, kind, wire, pi) = ir /\ AnsweredAs(options, kind, ir) = again
    BY <1>4 DEF AnsweredAs, LearnedAs
  <2>3. again # Refused /\ StreamMeaning(again) = StreamMeaning(pi)
    BY <1>1, <2>1, <2>2, PiStreamIsSentAgain
  <2> HIDE DEF again, ir
  <2>4. AnswerMeaning(again) = AnswerMeaning(pi)
    BY <1>4, <2>3, MeaningOfOtherRequests
  <2> QED  BY <2>2, <2>3, <2>4
<1> QED  BY <1>2, <1>3, <1>4 DEF Kinds

LEMMA ForwardingIsPossible ==
  ASSUME ErrorsAreNoMessages, PrefixesAreOfWholeAddresses(Program), ExchangeInv
  PROVE  ForwardingKeepsTheMeaning
<1>1. ASSUME Arrived(received), RequestHasLengths
      PROVE  ComesBack(wire, RequestToPi(kind, received))
  <2>1. /\ kind \in Kinds /\ Arrived(wire) /\ IsRequest("pi", kind, wire)
        /\ received = ReceivedAs(options, kind, wire) /\ received # Refused
    BY <1>1 DEF ExchangeInv, WireIsProper, RequestIsReceived, Arrived
  <2>2. RequestToPi(kind, received) = SentAs(options, kind, received)
    BY TranslationsUnderOptions
  <2>3. ComesBack(wire, SentAs(options, kind, ReceivedAs(options, kind, wire)))
    BY <1>1, <2>1, RequestIsSentAgain DEF RequestHasLengths
  <2> QED  BY <2>1, <2>2, <2>3
<1>2. ASSUME Arrived(learned), AnswerHasLengths
      PROVE  LET again == AnswerToPi(kind, learned)
             IN  again # Refused /\ (kind # "write" => AnswerMeaning(again) = AnswerMeaning(reply))
  <2>1. /\ kind \in Kinds /\ Arrived(reply) /\ IsAnswer("pi", kind, reply)
        /\ learned = LearnedAs(options, kind, wire, reply) /\ learned # Refused
        /\ IsRequest("pi", kind, wire)
    BY <1>2 DEF ExchangeInv, WireIsProper, RequestIsReceived, ReplyIsProper, AnswerIsLearned, Arrived
  <2>2. AnswerToPi(kind, learned) = AnsweredAs(options, kind, learned)
    BY TranslationsUnderOptions
  <2>3. ASSUME kind = "write" PROVE Len(wire.updates) \in Nat
    <3>1. IsWrite("pi", wire)
      BY <2>1, <2>3, RequestsOfKinds
    <3> QED  BY <3>1, PartsOfSequence DEF IsWrite, IsUpdates
  <2>4. LET again == AnsweredAs(options, kind, LearnedAs(options, kind, wire, reply))
        IN  again # Refused /\ (kind # "write" => AnswerMeaning(again) = AnswerMeaning(reply))
    BY <1>2, <2>1, <2>3, AnswerIsSentAgain DEF AnswerHasLengths
  <2> QED  BY <2>1, <2>2, <2>4
<1> QED  BY <1>1, <1>2 DEF ForwardingKeepsTheMeaning, ComesBack

------------------------------------------------------------------------------
(* The properties of an exchange, for every program, request and answer.    *)

(* Names, values, masks, prefixes, weights, metadata and counters come back *)
(* from ids and canonical byte strings as they were: whoever translates     *)
(* what the other side has translated by ir.cc gets what it meant.          *)
THEOREM NothingIsLostSafety ==
  ASSUME ErrorsAreNoMessages, AnswersAreProper
  PROVE  Spec => []NothingIsLostOnTheWay
<1>1. ExchangeInv => NothingIsLostOnTheWay
  BY NothingIsLost
<1>2. Spec => []ExchangeInv
  BY ExchangeFollows
<1> QED  BY <1>1, <1>2, PTL

(* Both directions of the translation of ir.cc make the same checks: what   *)
(* one side translates to PI, the other translates back.                    *)
THEOREM SentIsAcceptedSafety ==
  ASSUME ErrorsAreNoMessages, AnswersAreProper
  PROVE  Spec => []WhatIsSentIsAccepted
<1>1. ExchangeInv => WhatIsSentIsAccepted
  BY NothingIsLost
<1>2. Spec => []ExchangeInv
  BY ExchangeFollows
<1> QED  BY <1>1, <1>2, PTL

(* What is accepted from the wire can be put there again and means the      *)
(* same, whoever made it, when the prefixes of the program are of whole     *)
(* addresses and no prefix length is negative.                              *)
THEOREM ForwardingSafety ==
  ASSUME ErrorsAreNoMessages, AnswersAreProper, PrefixesAreOfWholeAddresses(Program)
  PROVE  Spec => []ForwardingKeepsTheMeaning
<1>1. ExchangeInv => ForwardingKeepsTheMeaning
  BY ForwardingIsPossible
<1>2. Spec => []ExchangeInv
  BY ExchangeFollows
<1> QED  BY <1>1, <1>2, PTL

(* The client learns of each of its updates whether it succeeded, for any   *)
(* number of updates and whatever the server says.                          *)
THEOREM ClientLearnsSafety ==
  ASSUME ErrorsAreNoMessages, AnswersAreProper
  PROVE  Spec => []ClientLearnsEveryOutcome
<1>1. ExchangeInv => ClientLearnsEveryOutcome
  BY OutcomesReachTheClient
<1>2. Spec => []ExchangeInv
  BY ExchangeFollows
<1> QED  BY <1>1, <1>2, PTL

=============================================================================
