-------------------------- MODULE WireFormat_proofs --------------------------
(***************************************************************************)
(* Proofs about WireFormat, for addresses, names, users, passwords and     *)
(* payloads of any contents, and chunks cut anywhere.                      *)
(*                                                                         *)
(* The invariant WireInv says that what is in the buffer is the beginning  *)
(* of the message that was meant, or all of it and a payload. The lemmas   *)
(* in front of it say how bytes are decoded and which bytes a message has; *)
(* those behind it what the functions return: destinations and payloads,   *)
(* replies with the IPv6 texts they are made of, users and passwords, and  *)
(* the targets of CONNECT with the texts that are split at colons.         *)
(*                                                                         *)
(* A function on buffers is described by where its bytes come from (Joins2,*)
(* IsPart, Follows): the places are then compared, not the sequences.      *)
(***************************************************************************)
EXTENDS WireFormat, SequenceTheorems, FiniteSetTheorems, TLAPS

-----------------------------------------------------------------------------
(* Buffers *)

\* The smaller of two numbers.
LEMMA MinOfTwo ==
    ASSUME NEW a \in Int, NEW b \in Int
    PROVE  Min({a, b}) = IF a <= b THEN a ELSE b
<1> DEFINE m == IF a <= b THEN a ELSE b
<1>1. m \in {a, b} /\ \A y \in {a, b} : m <= y
  OBVIOUS
<1>2. ASSUME NEW x \in {a, b}, \A y \in {a, b} : x <= y
      PROVE  x = m
  BY <1>2
<1> QED
  BY <1>1, <1>2 DEF Min

\* The greatest of a set of numbers is the one no other is greater than.
LEMMA MaxIs ==
    ASSUME NEW S \in SUBSET Int, NEW m \in S, \A y \in S : y <= m
    PROVE  Max(S) = m
<1>1. \A y \in S : m >= y
  OBVIOUS
<1>2. ASSUME NEW x \in S, \A y \in S : x >= y
      PROVE  x = m
  BY <1>2
<1> QED
  BY <1>1, <1>2 DEF Max

\* A sequence over S that is put together of two, and of three.
Joins2(S, m, a, b) ==
    /\ m \in Seq(S) /\ Len(m) = Len(a) + Len(b)
    /\ \A i \in 1..Len(a) : m[i] = a[i]
    /\ \A i \in 1..Len(b) : m[Len(a) + i] = b[i]

Joins3(S, m, a, b, c) ==
    /\ m \in Seq(S) /\ Len(m) = Len(a) + Len(b) + Len(c)
    /\ \A i \in 1..Len(a) : m[i] = a[i]
    /\ \A i \in 1..Len(b) : m[Len(a) + i] = b[i]
    /\ \A i \in 1..Len(c) : m[Len(a) + Len(b) + i] = c[i]

\* The n numbers behind the first ones of a sequence.
IsPart(p, s, from, n) ==
    /\ p \in Seq(Nat) /\ Len(p) = n
    /\ \A i \in 1..n : p[i] = s[from + i]

\* A slice of a sequence is the part it names.
LEMMA SubSeqIsPart ==
    ASSUME NEW s \in Seq(Nat), NEW from \in Nat, NEW n \in Nat, from + n <= Len(s)
    PROVE  IsPart(SubSeq(s, from + 1, from + n), s, from, n)
<1> DEFINE p == SubSeq(s, from + 1, from + n)
<1>1. \A i \in (from + 1)..(from + n) : s[i] \in Nat
  OBVIOUS
<1>2. p \in Seq(Nat) /\ Len(p) = n /\ \A i \in 1..n : p[i] = s[from + i]
  BY <1>1, SubSeqProperties
<1> QED
  BY <1>2 DEF IsPart

\* A part that is another one, and a sequence that is part of itself.
LEMMA SameParts ==
    ASSUME NEW p, NEW q, NEW s, NEW from, NEW n,
           IsPart(p, s, from, n), IsPart(q, s, from, n)
    PROVE  p = q
<1>1. p \in Seq(Nat) /\ q \in Seq(Nat) /\ Len(p) = Len(q)
  BY DEF IsPart
<1>2. \A i \in 1..Len(p) : p[i] = q[i]
  BY DEF IsPart
<1> QED
  BY <1>1, <1>2, SeqEqual

\* What \o puts together.
LEMMA TwoParts ==
    ASSUME NEW S, NEW a \in Seq(S), NEW b \in Seq(S)
    PROVE  Joins2(S, a \o b, a, b)
BY DEF Joins2

\* Three sequences put together are the bytes of each, behind one another.
LEMMA ThreeParts ==
    ASSUME NEW S, NEW a \in Seq(S), NEW b \in Seq(S), NEW c \in Seq(S)
    PROVE  Joins3(S, (a \o b) \o c, a, b, c)
<1> DEFINE n == a \o b
           m == n \o c
<1>1. Joins2(S, n, a, b)
  BY TwoParts
<1>2. n \in Seq(S) /\ Len(n) = Len(a) + Len(b) /\ Len(a) \in Nat /\ Len(b) \in Nat
  BY <1>1 DEF Joins2
<1> HIDE DEF n
<1>3. Joins2(S, m, n, c)
  BY <1>2, TwoParts
<1> HIDE DEF m
<1>4. ASSUME NEW i \in 1..Len(a)
      PROVE  m[i] = a[i]
  BY <1>1, <1>2, <1>3 DEF Joins2
<1>5. ASSUME NEW i \in 1..Len(b)
      PROVE  m[Len(a) + i] = b[i]
  <2>1. Len(a) + i \in 1..Len(n)
    BY <1>2
  <2> QED
    BY <2>1, <1>1, <1>3 DEF Joins2
<1>6. Joins3(S, m, a, b, c)
  BY <1>2, <1>3, <1>4, <1>5 DEF Joins2, Joins3
<1> QED
  BY <1>6 DEF m, n

\* A part of a buffer that is all there.
LEMMA SliceWithin ==
    ASSUME NEW buffer \in Seq(Nat), NEW from \in Nat, NEW n \in Nat,
           from + n <= Len(buffer)
    PROVE  IsPart(Slice(buffer, from, n), buffer, from, n)
<1>1. n # Undefined /\ Min({from + n, Len(buffer)}) = from + n
  BY MinOfTwo DEF Undefined
<1>2. Slice(buffer, from, n) = SubSeq(buffer, from + 1, from + n)
  BY <1>1 DEF Slice
<1> HIDE DEF Slice
<1> QED
  BY <1>2, SubSeqIsPart

\* A part of a buffer that is not all there ends with the buffer.
LEMMA SliceBeyond ==
    ASSUME NEW buffer \in Seq(Nat), NEW from \in Nat, NEW n \in Nat, NEW left \in Nat,
           from + left = Len(buffer), left < n
    PROVE  IsPart(Slice(buffer, from, n), buffer, from, left)
<1>1. n # Undefined /\ Min({from + n, Len(buffer)}) = from + left
  BY MinOfTwo DEF Undefined
<1>2. Slice(buffer, from, n) = SubSeq(buffer, from + 1, from + left)
  BY <1>1 DEF Slice
<1> HIDE DEF Slice
<1> QED
  BY <1>2, SubSeqIsPart

\* The two bytes of a port and the port they are read as.
LEMMA UInt16IsRead ==
    ASSUME NEW n \in Word
    PROVE  /\ UInt16(n) \in Seq(Nat) /\ Len(UInt16(n)) = 2
           /\ UInt16(n)[1] = n \div 256 /\ UInt16(n)[2] = n % 256
           /\ 256 * UInt16(n)[1] + UInt16(n)[2] = n
<1>1. n \in Nat /\ n \div 256 \in Nat /\ n % 256 \in Nat
  BY DEF Word
<1>2. 256 * (n \div 256) + (n % 256) = n
  BY <1>1
<1> QED
  BY <1>1, <1>2 DEF UInt16

-----------------------------------------------------------------------------
(* Decoding *)

\* The position with k others up to it is the k-th.
LEMMA NthIs ==
    ASSUME NEW S \in SUBSET Int, IsFiniteSet(S), NEW m \in S
    PROVE  Nth(S, Cardinality({j \in S : j <= m})) = m
<1> DEFINE UpTo(i) == {j \in S : j <= i}
<1>1. ASSUME NEW i \in S, NEW k \in S, i < k
      PROVE  Cardinality(UpTo(i)) # Cardinality(UpTo(k))
  <2>1. IsFiniteSet(UpTo(k)) /\ UpTo(i) \subseteq UpTo(k)
    <3>1. ASSUME NEW j \in UpTo(i)
          PROVE  j \in UpTo(k)
      <4>1. j \in S /\ j \in Int /\ j <= i /\ i \in Int /\ k \in Int
        OBVIOUS
      <4> QED
        BY <4>1, <1>1
    <3>2. UpTo(k) \subseteq S
      OBVIOUS
    <3> QED
      BY <3>1, <3>2, FS_Subset
  <2>2. k \in UpTo(k) /\ k \notin UpTo(i)
    BY <1>1
  <2> HIDE DEF UpTo
  <2> QED
    BY <2>1, <2>2, FS_Subset
<1>2. ASSUME NEW i \in S, Cardinality(UpTo(i)) = Cardinality(UpTo(m))
      PROVE  i = m
  BY <1>1, <1>2
<1> QED
  BY <1>2 DEF Nth

\* There is a k-th one, up to their number.
LEMMA NthExists ==
    ASSUME NEW S \in SUBSET Int, IsFiniteSet(S), NEW k \in 1..Cardinality(S)
    PROVE  \E m \in S : Cardinality({j \in S : j <= m}) = k
<1> DEFINE n       == Cardinality(S)
           UpTo(m) == {j \in S : j <= m}
           rank    == [m \in S |-> Cardinality(UpTo(m))]
<1>1. n \in Nat
  BY FS_CardinalityType
<1>2. ASSUME NEW m \in S
      PROVE  rank[m] \in 1..n /\ Nth(S, rank[m]) = m
  <2>1. UpTo(m) \subseteq S /\ UpTo(m) # {} /\ rank[m] = Cardinality(UpTo(m))
    OBVIOUS
  <2>2. Nth(S, rank[m]) = m
    BY <2>1, NthIs
  <2> HIDE DEF UpTo
  <2>3. IsFiniteSet(UpTo(m)) /\ Cardinality(UpTo(m)) <= n
    BY <2>1, FS_Subset
  <2>4. Cardinality(UpTo(m)) \in Nat /\ Cardinality(UpTo(m)) # 0
    BY <2>1, <2>3, FS_CardinalityType, FS_EmptySet
  <2> QED
    BY <2>1, <2>2, <2>3, <2>4, <1>1
<1> HIDE DEF UpTo
<1>3. rank \in Injection(S, 1..n)
  <2>1. \A a, b \in S : rank[a] = rank[b] => a = b
    BY <1>2
  <2>2. rank \in [S -> 1..n]
    BY <1>2
  <2> QED
    BY <2>1, <2>2 DEF Injection, IsInjective
<1>4. IsFiniteSet(1..n) /\ Cardinality(1..n) = n
  BY <1>1, FS_Interval
<1> HIDE DEF rank
<1>5. rank \in Surjection(S, 1..n)
  BY <1>3, <1>4, FS_Injection, Zenon DEF n
<1>6. PICK m \in S : rank[m] = k
  BY <1>5 DEF Surjection, n
<1> QED
  BY <1>6 DEF rank, UpTo

\* How long a sequence is meant to be.
LEMMA LengthIs ==
    ASSUME NEW b \in Nat
    PROVE  /\ SequenceLength(b) \in 1..4
           /\ b \in 194..223 => SequenceLength(b) = 2
           /\ b \in 224..239 => SequenceLength(b) = 3
           /\ b \in 240..244 => SequenceLength(b) = 4
           /\ b \notin 194..244 => SequenceLength(b) = 1
<1>1. CASE b \in 194..223
  BY <1>1 DEF SequenceLength
<1>2. CASE b \in 224..239
  BY <1>2 DEF SequenceLength
<1>3. CASE b \in 240..244
  BY <1>3 DEF SequenceLength
<1>4. CASE b \notin 194..244
  BY <1>4 DEF SequenceLength
<1> QED
  BY <1>1, <1>2, <1>3, <1>4

\* A unit is one of the lengths that are tried.
LEMMA UnitIsReached ==
    ASSUME NEW bytes \in Seq(Nat), NEW i \in 1..Len(bytes)
    PROVE  /\ UnitLength(bytes, i) \in Reaches(bytes, i)
           /\ SequenceLength(bytes[i]) \in 1..4
<1> DEFINE R == Reaches(bytes, i)
<1>1. SequenceLength(bytes[i]) \in 1..4
  BY LengthIs
<1>2. 1 \in R
  <2>1. 1 \in 1..SequenceLength(bytes[i])
    BY <1>1
  <2>2. i + 1 <= Len(bytes) + 1
    OBVIOUS
  <2>3. \A k \in 2..1 : bytes[i + k - 1] \in Continuations(bytes[i], k)
    OBVIOUS
  <2> QED
    BY <2>1, <2>2, <2>3 DEF Reaches
<1>3. R \subseteq 1..4
  <2>1. R \subseteq 1..SequenceLength(bytes[i])
    BY DEF Reaches
  <2> QED
    BY <2>1, <1>1
<1> HIDE DEF R
<1>4. PICK m \in R : \A y \in R : y <= m
  <2>1. CASE 4 \in R
    BY <2>1, <1>3
  <2>2. CASE 4 \notin R /\ 3 \in R
    BY <2>2, <1>3
  <2>3. CASE 4 \notin R /\ 3 \notin R /\ 2 \in R
    BY <2>3, <1>3
  <2>4. CASE 4 \notin R /\ 3 \notin R /\ 2 \notin R
    BY <2>4, <1>2, <1>3
  <2> QED
    BY <2>1, <2>2, <2>3, <2>4
<1>5. Max(R) = m
  BY <1>3, <1>4, MaxIs
<1> QED
  BY <1>1, <1>4, <1>5 DEF UnitLength, R

\* What a code above those of ASCII is decoded from.
LEMMA CodePointIs ==
    ASSUME NEW bytes \in Seq(Nat), NEW i \in 1..Len(bytes)
    PROVE  /\ CodePoint(bytes, i) \in Nat
           /\ bytes[i] < 128 => UnitLength(bytes, i) = 1 /\ CodePoint(bytes, i) = bytes[i]
           /\ CodePoint(bytes, i) = Colon => bytes[i] = Colon
<1> DEFINE b == bytes[i]
           n == UnitLength(bytes, i)
           L == SequenceLength(b)
           c(k) == bytes[i + k - 1]
<1>1. /\ n \in 1..L /\ L \in 1..4 /\ i + n <= Len(bytes) + 1
      /\ \A k \in 2..n : c(k) \in Continuations(b, k)
  BY UnitIsReached DEF Reaches
<1>2. /\ b \in Nat
      /\ b \in 194..223 => L = 2
      /\ b \in 224..239 => L = 3
      /\ b \in 240..244 => L = 4
      /\ b \notin 194..244 => L = 1
  <2>1. b \in Nat
    OBVIOUS
  <2> HIDE DEF b
  <2> QED
    BY <2>1, LengthIs, Zenon
<1>3. CodePoint(bytes, i) =
         IF n < L \/ b \in 128..193 \/ b > 244 THEN Replacement
         ELSE CASE n = 1 -> b
                [] n = 2 -> 64 * (b - 192) + (c(2) - 128)
                [] n = 3 -> 4096 * (b - 224) + 64 * (c(2) - 128) + (c(3) - 128)
                [] n = 4 -> 262144 * (b - 240) + 4096 * (c(2) - 128) + 64 * (c(3) - 128)
                            + (c(4) - 128)
  BY DEF CodePoint
<1> DEFINE c2 == c(2)
           c3 == c(3)
           c4 == c(4)
<1>4. /\ n >= 2 => c2 \in Continuations(b, 2)
      /\ n >= 3 => c3 \in Continuations(b, 3)
      /\ n >= 4 => c4 \in Continuations(b, 4)
  BY <1>1
<1> HIDE DEF c2, c3, c4, b, n, L
<1> DEFINE code == CodePoint(bytes, i)
<1> HIDE DEF code
<1>5. CASE n < L \/ b \in 128..193 \/ b > 244
  <2>1. code = Replacement
    BY <1>3, <1>5 DEF code
  <2>2. ~(b < 128)
    BY <1>1, <1>2, <1>5
  <2>3. code \in Nat /\ code # Colon
    BY <2>1 DEF Replacement, Colon
  <2> QED
    BY <2>2, <2>3 DEF b, code
<1>6. CASE ~(n < L \/ b \in 128..193 \/ b > 244)
  <2>1. n = L /\ (b < 128 \/ b \in 194..244)
    BY <1>1, <1>2, <1>6
  <2>2. CASE b < 128
    <3>1. n = 1
      BY <2>1, <2>2, <1>2
    <3>2. code = b
      BY <3>1, <1>3, <1>6 DEF code
    <3> QED
      BY <3>1, <3>2, <1>2 DEF b, n, code
  <2>3. ASSUME code \in Nat, code >= 128, b >= 128
        PROVE  /\ CodePoint(bytes, i) \in Nat
               /\ bytes[i] < 128 => UnitLength(bytes, i) = 1 /\ CodePoint(bytes, i) = bytes[i]
               /\ CodePoint(bytes, i) = Colon => bytes[i] = Colon
    <3>1. ~(b < 128) /\ code # Colon
      BY <2>3, <1>2 DEF Colon
    <3> QED
      BY <2>3, <3>1 DEF b, code
  <2>4. CASE b \in 194..223
    <3>1. n = 2
      BY <2>1, <2>4, <1>2
    <3>2. c2 \in 128..191
      BY <3>1, <1>4 DEF Continuations
    <3>3. code = 64 * (b - 192) + (c2 - 128)
      BY <3>1, <1>3, <1>6 DEF c2, code
    <3>4. code \in Nat /\ code >= 128
      BY <3>2, <3>3, <2>4
    <3> QED
      BY <3>4, <2>3, <2>4
  <2>5. CASE b \in 224..239
    <3>1. n = 3
      BY <2>1, <2>5, <1>2
    <3>2. c2 \in 128..191 /\ c3 \in 128..191 /\ (b = 224 => c2 >= 160)
      BY <3>1, <1>4 DEF Continuations
    <3>3. code = 4096 * (b - 224) + 64 * (c2 - 128) + (c3 - 128)
      BY <3>1, <1>3, <1>6 DEF c2, c3, code
    <3>4. code \in Nat /\ code >= 128
      BY <3>2, <3>3, <2>5
    <3> QED
      BY <3>4, <2>3, <2>5
  <2>6. CASE b \in 240..244
    <3>1. n = 4
      BY <2>1, <2>6, <1>2
    <3>2. /\ c2 \in 128..191 /\ c3 \in 128..191 /\ c4 \in 128..191
          /\ b = 240 => c2 >= 144
      BY <3>1, <1>4 DEF Continuations
    <3>3. code = 262144 * (b - 240) + 4096 * (c2 - 128) + 64 * (c3 - 128) + (c4 - 128)
      BY <3>1, <1>3, <1>6 DEF c2, c3, c4, code
    <3>4. code \in Nat /\ code >= 128
      BY <3>2, <3>3, <2>6
    <3> QED
      BY <3>4, <2>3, <2>6
  <2> QED
    BY <2>1, <2>2, <2>4, <2>5, <2>6
<1> QED
  BY <1>5, <1>6

\* What is decoded is as long as there are places where a unit starts, each of
\* which gives a code.
LEMMA DecodedIs ==
    ASSUME NEW bytes \in Seq(Nat)
    PROVE  LET starts == Starts(bytes)
           IN  /\ IsFiniteSet(starts) /\ starts \subseteq 1..Len(bytes)
               /\ Decoded(bytes) \in Seq(Nat) /\ Len(Decoded(bytes)) = Cardinality(starts)
               /\ \A m \in starts :
                     LET k == Cardinality({j \in starts : j <= m})
                     IN  k \in 1..Len(Decoded(bytes)) => Decoded(bytes)[k] = CodePoint(bytes, m)
               /\ \A k \in 1..Len(Decoded(bytes)) :
                     \E m \in starts : /\ Cardinality({j \in starts : j <= m}) = k
                                       /\ Decoded(bytes)[k] = CodePoint(bytes, m)
<1> DEFINE starts == Starts(bytes)
           n      == Cardinality(starts)
           text   == Decoded(bytes)
<1>1. starts \subseteq 1..Len(bytes) /\ Len(bytes) \in Nat
  BY DEF Starts
<1>2. IsFiniteSet(starts) /\ n \in Nat /\ starts \in SUBSET Int
  <2>1. IsFiniteSet(1..Len(bytes))
    BY <1>1, FS_Interval
  <2> HIDE DEF starts
  <2>2. IsFiniteSet(starts)
    BY <2>1, <1>1, FS_Subset
  <2>3. starts \in SUBSET Int
    BY <1>1
  <2> QED
    BY <2>2, <2>3, FS_CardinalityType
<1>3. text = [k \in 1..n |-> CodePoint(bytes, Nth(starts, k))]
  BY DEF Decoded
<1> HIDE DEF starts, n, text
<1>4. ASSUME NEW m \in starts, NEW k \in 1..n, k = Cardinality({j \in starts : j <= m})
      PROVE  text[k] = CodePoint(bytes, m) /\ text[k] \in Nat
  <2>1. Nth(starts, k) = m
    BY <1>2, <1>4, NthIs
  <2> QED
    BY <2>1, <1>1, <1>3, CodePointIs
<1>5. ASSUME NEW k \in 1..n
      PROVE  \E m \in starts : Cardinality({j \in starts : j <= m}) = k
  BY <1>2, NthExists DEF n
<1>6. text \in Seq(Nat) /\ Len(text) = n
  <2>1. \A k \in 1..n : text[k] \in Nat
    BY <1>4, <1>5
  <2> QED
    BY <2>1, <1>2, <1>3
<1>7. \A k \in 1..n : \E m \in starts : /\ Cardinality({j \in starts : j <= m}) = k
                                       /\ text[k] = CodePoint(bytes, m)
  BY <1>4, <1>5
<1> QED
  BY <1>1, <1>2, <1>4, <1>6, <1>7 DEF starts, n, text

\* A text in ASCII is what its bytes are.
LEMMA AsciiIsItself ==
    ASSUME NEW bytes \in Seq(Nat), \A i \in DOMAIN bytes : bytes[i] < 128
    PROVE  Decoded(bytes) = bytes
<1> DEFINE n    == Len(bytes)
           text == Decoded(bytes)
<1>1. n \in Nat /\ DOMAIN bytes = 1..n
  OBVIOUS
<1>2. \A i \in 1..n : UnitLength(bytes, i) = 1 /\ CodePoint(bytes, i) = bytes[i]
  BY CodePointIs
<1>3. Starts(bytes) = 1..n
  BY <1>1, <1>2 DEF Starts
<1> HIDE DEF n, text
<1>4. Cardinality(1..n) = n
  BY <1>1, FS_Interval
<1>5. text \in Seq(Nat) /\ Len(text) = n
  BY <1>3, <1>4, DecodedIs DEF text
<1>6. ASSUME NEW k \in 1..n
      PROVE  text[k] = bytes[k]
  <2>1. {j \in 1..n : j <= k} = 1..k
    BY <1>1
  <2>2. Cardinality({j \in 1..n : j <= k}) = k
    <3>1. Cardinality(1..k) = k
      BY FS_Interval
    <3> QED
      BY <2>1, <3>1
  <2>3. text[k] = CodePoint(bytes, k)
    BY <2>2, <1>3, <1>5, DecodedIs DEF text
  <2> QED
    BY <2>3, <1>2
<1>7. text = bytes
  BY <1>5, <1>6, SeqEqual DEF n
<1> QED
  BY <1>7 DEF text

-----------------------------------------------------------------------------
(* Commands and the headers of datagrams *)

\* A destination as it can be written into a message.
Destination(t) ==
    /\ t \in [type : {1, 3, 4}, host : Seq(Nat), port : Word]
    /\ t.type = 1 => Len(t.host) = 4
    /\ t.type = 4 => Len(t.host) = 16

\* Byte where its address begins.
HostAt(t) == IF t.type = 3 THEN 5 ELSE 4

\* What the bytes of its header are.
LEMMA HeaderBytes ==
    ASSUME NEW t, Destination(t)
    PROVE  /\ Header(t) \in Seq(Nat)
           /\ Len(Header(t)) = HostAt(t) + Len(t.host) + 2
           /\ Header(t)[4] = t.type
           /\ t.type = 3 => Header(t)[5] = Len(t.host)
           /\ \A i \in 1..Len(t.host) : Header(t)[HostAt(t) + i] = t.host[i]
           /\ Header(t)[HostAt(t) + Len(t.host) + 1] = t.port \div 256
           /\ Header(t)[HostAt(t) + Len(t.host) + 2] = t.port % 256
<1> DEFINE first == <<5, 1, 0, t.type>>
           size  == IF t.type = 3 THEN <<Len(t.host)>> ELSE <<>>
           head  == first \o size
           most  == head \o t.host
           port  == UInt16(t.port)
<1>1. /\ first \in Seq(Nat) /\ Len(first) = 4 /\ first[4] = t.type
      /\ size \in Seq(Nat) /\ Len(size) = HostAt(t) - 4
      /\ t.type = 3 => size[1] = Len(t.host)
      /\ t.host \in Seq(Nat)
  BY DEF Destination, HostAt
<1>2. port \in Seq(Nat) /\ Len(port) = 2 /\ port[1] = t.port \div 256 /\ port[2] = t.port % 256
  BY UInt16IsRead DEF Destination
<1>3. Header(t) = most \o port
  BY DEF Header
<1>4. HostAt(t) \in {4, 5} /\ (t.type = 3 <=> HostAt(t) = 5) /\ Len(t.host) \in Nat
  BY <1>1 DEF HostAt
<1> HIDE DEF first, size, port
<1>5. Joins2(Nat, head, first, size)
  <2>1. first \in Seq(Nat) /\ size \in Seq(Nat)
    BY <1>1
  <2> QED
    BY <2>1, TwoParts
<1> HIDE DEF head
<1>6. head \in Seq(Nat) /\ Len(head) = HostAt(t)
  BY <1>1, <1>4, <1>5 DEF Joins2
<1>7. head[4] = t.type
  BY <1>1, <1>5 DEF Joins2
<1>8. t.type = 3 => head[5] = Len(t.host)
  <2> SUFFICES ASSUME t.type = 3 PROVE head[Len(first) + 1] = Len(t.host)
    BY <1>1
  <2> QED
    BY <1>1, <1>4, <1>5 DEF Joins2
<1> DEFINE m == most \o port
<1>9. Joins3(Nat, m, head, t.host, port)
  <2>1. head \in Seq(Nat) /\ t.host \in Seq(Nat) /\ port \in Seq(Nat)
    BY <1>1, <1>2, <1>6
  <2> QED
    BY <2>1, ThreeParts
<1> HIDE DEF m
<1>10. /\ m \in Seq(Nat) /\ Len(m) = HostAt(t) + Len(t.host) + 2
       /\ \A i \in 1..HostAt(t) : m[i] = head[i]
       /\ \A i \in 1..Len(t.host) : m[HostAt(t) + i] = t.host[i]
       /\ \A i \in 1..2 : m[HostAt(t) + Len(t.host) + i] = port[i]
  BY <1>2, <1>6, <1>9 DEF Joins3
<1>11. m[4] = t.type /\ (t.type = 3 => m[5] = Len(t.host))
  BY <1>4, <1>7, <1>8, <1>10
<1>12. /\ m[HostAt(t) + Len(t.host) + 1] = t.port \div 256
       /\ m[HostAt(t) + Len(t.host) + 2] = t.port % 256
  BY <1>2, <1>10
<1> QED
  BY <1>3, <1>10, <1>11, <1>12 DEF m

\* A buffer that has the bytes of another one from byte 3 on, as far as either
\* of them goes.
Follows(buffer, message) ==
    \A i \in 4..Len(buffer) : i <= Len(message) => buffer[i] = message[i]

\* What parseDestination makes of it.
Read(t) == [t EXCEPT !.host = Host(t.type, t.host)]

\* parseDestination returns the destination of a header, whatever is in front
\* of the address type and behind the port, and throws on every piece of it.
LEMMA ParseOfHeader ==
    ASSUME NEW t, Destination(t), NEW buffer \in Seq(Nat), Follows(buffer, Header(t))
    PROVE  ParseDestination(buffer) =
               IF Len(buffer) >= Len(Header(t)) THEN Read(t) ELSE Throws
<1> DEFINE n == Len(t.host)
           h == HostAt(t)
           m == Header(t)
<1>1. /\ n \in Nat /\ t.type \in {1, 3, 4} /\ t.port \in Word /\ t.host \in Seq(Nat)
      /\ t.type = 1 => n = 4
      /\ t.type = 4 => n = 16
  BY DEF Destination
<1>2. Len(buffer) \in Nat /\ \A i \in 1..Len(buffer) : buffer[i] \in Nat
  OBVIOUS
<1>3. /\ Len(m) = h + n + 2
      /\ m[4] = t.type
      /\ t.type = 3 => m[5] = n
      /\ \A i \in 1..n : m[h + i] = t.host[i]
      /\ m[h + n + 1] = t.port \div 256
      /\ m[h + n + 2] = t.port % 256
  BY HeaderBytes, Zenon
<1>4. h = IF t.type = 3 THEN 5 ELSE 4
  BY DEF HostAt
<1>5. \A i \in 4..Len(buffer) : i <= Len(m) => buffer[i] = m[i]
  BY DEF Follows
<1> HIDE DEF n, h, m
<1>6. CASE Len(buffer) <= 4
  <2>1. At(buffer, 4) = Undefined
    BY <1>2, <1>6 DEF At
  <2>2. Len(buffer) < Len(m)
    BY <1>1, <1>2, <1>3, <1>4, <1>6
  <2>3. ParseDestination(buffer) = Throws
    BY <2>1 DEF ParseDestination
  <2> QED
    BY <2>2, <2>3, <1>1, <1>2, <1>3, <1>4 DEF m
<1>7. CASE Len(buffer) > 4
  <2>1. At(buffer, 3) = t.type
    BY <1>1, <1>2, <1>3, <1>4, <1>5, <1>7 DEF At
  <2>2. At(buffer, 4) # Undefined /\ (t.type = 3 => At(buffer, 4) = n)
    <3>1. At(buffer, 4) = buffer[5] /\ buffer[5] \in Nat
      BY <1>2, <1>7 DEF At
    <3>2. t.type = 3 => 5 <= Len(m)
      BY <1>1, <1>3, <1>4
    <3>3. t.type = 3 => buffer[5] = n
      BY <3>2, <1>2, <1>3, <1>5, <1>7
    <3> QED
      BY <3>1, <3>3 DEF Undefined
  <2>3. AddressEnd(buffer) = h + n
    BY <2>1, <2>2, <1>1, <1>4 DEF AddressEnd
  <2>4. CASE Len(buffer) < Len(m)
    BY <2>1, <2>2, <2>3, <2>4, <1>1, <1>2, <1>3 DEF ParseDestination, m
  <2>5. CASE Len(buffer) >= Len(m)
    <3> DEFINE host == Slice(buffer, h, n)
               port == 256 * At(buffer, h + n) + At(buffer, h + n + 1)
    <3>1. host = t.host
      <4>1. h \in Nat /\ h + n <= Len(buffer)
        BY <2>5, <1>1, <1>2, <1>3, <1>4
      <4>2. /\ host \in Seq(Nat) /\ Len(host) = n
            /\ \A i \in 1..n : host[i] = buffer[h + i]
        BY <4>1, <1>1, SliceWithin DEF IsPart
      <4>3. ASSUME NEW i \in 1..n
            PROVE  buffer[h + i] = t.host[i]
        <5>1. h + i \in 4..Len(buffer) /\ h + i <= Len(m)
          BY <2>5, <1>1, <1>2, <1>3, <1>4
        <5> QED
          BY <5>1, <1>3, <1>5
      <4> HIDE DEF host
      <4>4. Len(host) = Len(t.host) /\ \A i \in 1..Len(host) : host[i] = t.host[i]
        BY <4>2, <4>3 DEF n
      <4> QED
        BY <4>2, <4>4, <1>1, SeqEqual
    <3>2. port = t.port
      <4>1. At(buffer, h + n) = t.port \div 256 /\ At(buffer, h + n + 1) = t.port % 256
        <5> DEFINE k == h + n
        <5>1. k \in Nat /\ k >= 4 /\ k + 1 < Len(buffer) /\ Len(m) = k + 2
          BY <2>5, <1>1, <1>2, <1>3, <1>4
        <5>2. m[k + 1] = t.port \div 256 /\ m[k + 2] = t.port % 256
          BY <1>3
        <5> HIDE DEF k
        <5>3. At(buffer, k) = buffer[k + 1] /\ At(buffer, k + 1) = buffer[k + 2]
          BY <5>1, <1>2 DEF At
        <5>4. buffer[k + 1] = m[k + 1] /\ buffer[k + 2] = m[k + 2]
          BY <5>1, <1>2, <1>5
        <5> QED
          BY <5>2, <5>3, <5>4 DEF k
      <4> QED
        BY <4>1, <1>1, UInt16IsRead DEF UInt16
    <3>3. ParseDestination(buffer) =
             [type |-> t.type, host |-> Host(t.type, host), port |-> port]
      <4>1. /\ ~(At(buffer, 3) \notin {1, 3, 4} \/ At(buffer, 4) = Undefined)
            /\ ~(AddressEnd(buffer) + 2 > Len(buffer))
        BY <2>1, <2>2, <2>3, <2>5, <1>1, <1>2, <1>3, <1>4
      <4>2. AddressEnd(buffer) - h = n /\ (IF At(buffer, 3) = 3 THEN 5 ELSE 4) = h
        BY <2>1, <2>3, <1>1, <1>4
      <4> QED
        BY <4>1, <4>2, <2>1, <2>3 DEF ParseDestination
    <3>4. Read(t) = [type |-> t.type, host |-> Host(t.type, t.host), port |-> t.port]
      BY DEF Destination, Read
    <3> HIDE DEF host, port
    <3> QED
      BY <3>1, <3>2, <3>3, <3>4, <2>5 DEF m
  <2> QED
    BY <2>4, <2>5, <1>1, <1>2, <1>3, <1>4 DEF m
<1> QED
  BY <1>2, <1>6, <1>7

\* What isSocks5Message and determinePayloadStartIndex find in a whole header.
LEMMA HeaderIsFound ==
    ASSUME NEW t, Destination(t), NEW buffer \in Seq(Nat), Follows(buffer, Header(t)),
           Len(buffer) >= Len(Header(t))
    PROVE  /\ Len(Header(t)) = HostAt(t) + Len(t.host) + 2
           /\ At(buffer, 3) = t.type
           /\ PayloadStartIndex(buffer) = Len(Header(t))
<1> DEFINE n == Len(t.host)
           m == Header(t)
<1>1. /\ n \in Nat /\ t.type \in {1, 3, 4}
      /\ t.type = 1 => n = 4
      /\ t.type = 4 => n = 16
  BY DEF Destination
<1>2. Len(buffer) \in Nat
  OBVIOUS
<1>3. Len(m) = HostAt(t) + n + 2 /\ m[4] = t.type /\ (t.type = 3 => m[5] = n)
  BY HeaderBytes, Zenon
<1>4. \A i \in 4..Len(buffer) : i <= Len(m) => buffer[i] = m[i]
  BY DEF Follows
<1>5. Len(buffer) >= Len(m)
  OBVIOUS
<1> HIDE DEF n, m
<1>6. At(buffer, 3) = t.type /\ (t.type = 3 => At(buffer, 4) = n)
  <2>1. Len(m) >= 6 /\ Len(m) \in Nat
    BY <1>1, <1>3 DEF HostAt
  <2>2. 4 \in 4..Len(buffer) /\ 5 \in 4..Len(buffer) /\ 4 <= Len(m) /\ 5 <= Len(m)
    BY <2>1, <1>2, <1>5
  <2>3. buffer[4] = m[4] /\ buffer[5] = m[5]
    BY <2>2, <1>4
  <2>4. At(buffer, 3) = buffer[4] /\ At(buffer, 4) = buffer[5]
    BY <2>2, <1>2 DEF At
  <2> QED
    BY <2>3, <2>4, <1>3
<1>7. PayloadStartIndex(buffer) = Len(m)
  BY <1>1, <1>3, <1>6 DEF PayloadStartIndex, HostAt
<1> QED
  BY <1>3, <1>6, <1>7 DEF n, m

\* The words of an IPv6 address are eight, and its bytes sixteen.
LEMMA BytesOfWords ==
    ASSUME NEW a \in IPv6Addresses
    PROVE  /\ Words(a) \in Seq(Word) /\ Len(Words(a)) = 8
           /\ WordBytes(Words(a)) \in Seq(Nat) /\ Len(WordBytes(Words(a))) = 16
<1> DEFINE left  == a[1]
           right == a[2]
           n     == 8 - Len(left) - Len(right)
           zeros == [i \in 1..n |-> 0]
           w     == Words(a)
<1>1. left \in Seq(Word) /\ right \in Seq(Word) /\ Len(left) + Len(right) <= 8
  BY WireAssumption
<1>2. w = (left \o zeros) \o right
  BY DEF Words
<1> HIDE DEF left, right
<1>3. n \in Nat /\ Len(left) \in Nat /\ Len(right) \in Nat
  BY <1>1
<1>4. zeros \in Seq(Word) /\ Len(zeros) = n
  <2>1. 0 \in Word
    BY DEF Word
  <2> HIDE DEF n
  <2> QED
    BY <2>1, <1>3
<1> HIDE DEF zeros
<1>5. Joins3(Word, (left \o zeros) \o right, left, zeros, right)
  BY <1>1, <1>4, ThreeParts
<1>6. w \in Seq(Word) /\ Len(w) = 8
  BY <1>2, <1>3, <1>4, <1>5 DEF Joins3
<1> HIDE DEF w
<1> DEFINE e(i) == UInt16(w[(i + 1) \div 2])[2 - (i % 2)]
<1>7. WordBytes(w) = [i \in 1..16 |-> e(i)]
  BY <1>6 DEF WordBytes
<1>8. ASSUME NEW i \in 1..16
      PROVE  e(i) \in Nat
  <2>1. (i + 1) \div 2 \in 1..8 /\ 2 - (i % 2) \in 1..2
    OBVIOUS
  <2>2. ASSUME NEW k \in 1..8
        PROVE  w[k] \in Word
    <3>1. k \in 1..Len(w)
      BY <1>6
    <3> QED
      BY <3>1, <1>6, ElementOfSeq
  <2>3. ASSUME NEW k \in 1..8, NEW j \in 1..2
        PROVE  UInt16(w[k])[j] \in Nat
    <3>1. UInt16(w[k]) \in Seq(Nat) /\ j \in 1..Len(UInt16(w[k]))
      BY <2>2, UInt16IsRead
    <3> QED
      BY <3>1, ElementOfSeq
  <2> QED
    BY <2>1, <2>3
<1> HIDE DEF e
<1>9. WordBytes(w) \in Seq(Nat) /\ Len(WordBytes(w)) = 16
  BY <1>7, <1>8
<1> QED
  BY <1>6, <1>9 DEF w

\* What a sender means is a destination.
LEMMA TargetsAreDestinations ==
    ASSUME NEW t \in Targets
    PROVE  Destination(t)
<1>1. Byte \subseteq Nat /\ Ports \subseteq Word
  BY WireAssumption DEF Byte
<1>2. CASE t \in [type : {1}, host : IPv4Addresses, port : Ports]
  <2>1. t.host \in Seq(Nat) /\ Len(t.host) = 4
    BY <1>1, <1>2, WireAssumption, SeqMonotonic
  <2> QED
    BY <2>1, <1>1, <1>2 DEF Destination
<1>3. CASE t \in [type : {3}, host : DomainNames, port : Ports]
  <2>1. t.host \in Seq(Nat)
    BY <1>1, <1>3, WireAssumption, SeqMonotonic
  <2> QED
    BY <2>1, <1>1, <1>3 DEF Destination
<1>4. CASE t \in [type : {4}, host : {WordBytes(Words(a)) : a \in IPv6Addresses}, port : Ports]
  <2>1. t.host \in Seq(Nat) /\ Len(t.host) = 16
    BY <1>4, BytesOfWords
  <2> QED
    BY <2>1, <1>1, <1>4 DEF Destination
<1> QED
  BY <1>2, <1>3, <1>4 DEF Targets

-----------------------------------------------------------------------------
(* Requests for authentication *)

\* What the bytes of the message are.
LEMMA AuthMessageBytes ==
    ASSUME NEW u \in Seq(Nat), NEW w \in Seq(Nat)
    PROVE  LET m == AuthMessage([user |-> u, password |-> w])
           IN  /\ m \in Seq(Nat)
               /\ Len(m) = 3 + Len(u) + Len(w)
               /\ m[2] = Len(u)
               /\ \A i \in 1..Len(u) : m[2 + i] = u[i]
               /\ m[3 + Len(u)] = Len(w)
               /\ \A i \in 1..Len(w) : m[3 + Len(u) + i] = w[i]
<1> DEFINE first == <<1, Len(u)>>
           size  == <<Len(w)>>
           user  == first \o u
           most  == user \o size
           m     == most \o w
<1>1. /\ first \in Seq(Nat) /\ Len(first) = 2 /\ first[2] = Len(u)
      /\ size \in Seq(Nat) /\ Len(size) = 1 /\ size[1] = Len(w)
      /\ Len(u) \in Nat /\ Len(w) \in Nat
  OBVIOUS
<1>2. AuthMessage([user |-> u, password |-> w]) = m
  BY DEF AuthMessage
<1> HIDE DEF first, size
<1>3. first \in Seq(Nat) /\ size \in Seq(Nat)
  BY <1>1
<1>4. Joins2(Nat, user, first, u)
  BY <1>3, TwoParts
<1> HIDE DEF user
<1>5. user \in Seq(Nat) /\ Len(user) = 2 + Len(u)
  BY <1>1, <1>4 DEF Joins2
<1>6. user[2] = Len(u) /\ \A i \in 1..Len(u) : user[2 + i] = u[i]
  BY <1>1, <1>4 DEF Joins2
<1>7. Joins3(Nat, m, user, size, w)
  BY <1>3, <1>5, ThreeParts
<1> HIDE DEF m
<1>8. m \in Seq(Nat) /\ Len(m) = 3 + Len(u) + Len(w)
  BY <1>1, <1>5, <1>7 DEF Joins3
<1>9. \A i \in 1..(2 + Len(u)) : m[i] = user[i]
  BY <1>5, <1>7 DEF Joins3
<1>10. m[2] = Len(u)
  <2>1. 2 \in 1..(2 + Len(u))
    BY <1>1
  <2> QED
    BY <2>1, <1>6, <1>9
<1>11. ASSUME NEW i \in 1..Len(u)
       PROVE  m[2 + i] = u[i]
  <2>1. 2 + i \in 1..(2 + Len(u))
    BY <1>1
  <2> QED
    BY <2>1, <1>6, <1>9
<1>12. m[3 + Len(u)] = Len(w)
  <2>1. m[Len(user) + 1] = size[1]
    BY <1>1, <1>7 DEF Joins3
  <2>2. Len(user) + 1 = 3 + Len(u)
    BY <1>1, <1>5
  <2> QED
    BY <2>1, <2>2, <1>1
<1>13. ASSUME NEW i \in 1..Len(w)
       PROVE  m[3 + Len(u) + i] = w[i]
  <2>1. m[Len(user) + Len(size) + i] = w[i]
    BY <1>7 DEF Joins3
  <2>2. Len(user) + Len(size) + i = 3 + Len(u) + i
    BY <1>1, <1>5
  <2> QED
    BY <2>1, <2>2
<1> QED
  BY <1>2, <1>8, <1>10, <1>11, <1>12, <1>13

-----------------------------------------------------------------------------
(* Chunks *)

\* Texts of clients are sequences of numbers.
LEMMA TextsAreSequences ==
    ASSUME NEW t \in Users \cup Passwords
    PROVE  t \in Seq(Nat)
<1>1. Byte \subseteq Nat
  BY DEF Byte
<1> QED
  BY <1>1, WireAssumption, SeqMonotonic

\* A message that can arrive in pieces is a sequence of bytes.
LEMMA WholeIsBytes ==
    ASSUME \/ format = "target" /\ meant \in Targets
           \/ format = "credentials" /\ meant \in [user : Users, password : Passwords]
    PROVE  Whole \in Seq(Nat)
<1>1. CASE format = "target" /\ meant \in Targets
  <2>1. Header(meant) \in Seq(Nat)
    BY <1>1, TargetsAreDestinations, HeaderBytes
  <2> QED
    BY <2>1, <1>1 DEF Whole
<1>2. CASE format = "credentials" /\ meant \in [user : Users, password : Passwords]
  <2> DEFINE m == AuthMessage([user |-> meant.user, password |-> meant.password])
  <2>1. meant.user \in Seq(Nat) /\ meant.password \in Seq(Nat)
    BY <1>2, TextsAreSequences
  <2>2. m \in Seq(Nat)
    BY <2>1, AuthMessageBytes
  <2>3. meant = [user |-> meant.user, password |-> meant.password]
    BY <1>2
  <2> QED
    BY <2>2, <2>3, <1>2 DEF Whole
<1> QED
  BY <1>1, <1>2

\* Among the pieces of a message the whole ones are those that are as long.
LEMMA WholeArrived ==
    ASSUME Arrived, Whole \in Seq(Nat)
    PROVE  IsPrefix(Whole, data) <=> Len(data) >= Len(Whole)
<1>1. data \in Seq(Nat) /\ Len(data) \in Nat /\ Len(Whole) \in Nat
  BY DEF Arrived
<1>2. SubSeq(Whole, 1, Len(Whole)) = Whole
  BY SubSeqFull
<1>3. ASSUME Len(data) >= Len(Whole)
      PROVE  SubSeq(data, 1, Len(Whole)) = Whole
  <2>1. IsPart(SubSeq(data, 1, Len(Whole)), data, 0, Len(Whole))
    <3>1. 0 + 1 = 1 /\ 0 + Len(Whole) = Len(Whole)
      BY <1>1
    <3> QED
      BY <3>1, <1>1, <1>3, SubSeqIsPart
  <2>2. IsPart(Whole, data, 0, Len(Whole))
    <3>1. ASSUME NEW i \in 1..Len(Whole)
          PROVE  Whole[i] = data[0 + i]
      <4>1. 0 + i = i /\ i \in 1..Len(data) /\ i <= Len(Whole)
        BY <1>1, <1>3
      <4> QED
        BY <4>1 DEF Arrived
    <3> QED
      BY <3>1 DEF IsPart
  <2> QED
    BY <2>1, <2>2, SameParts
<1> QED
  BY <1>1, <1>2, <1>3 DEF IsPrefix

\* A chunk that ends earlier is a piece of the message.
LEMMA SplitArrived ==
    ASSUME Arrived, Split
    PROVE  Arrived'
<1> DEFINE n == Len(data) - 1
<1>1. data \in Seq(Nat) /\ data # <<>> /\ n \in Nat /\ n + 1 = Len(data)
  BY DEF Arrived, Split
<1>2. data' = SubSeq(data, 0 + 1, 0 + n) /\ Whole' = Whole
  BY <1>1 DEF Split, Front, Whole
<1> HIDE DEF n
<1>3. IsPart(data', data, 0, n)
  <2>1. 0 + n <= Len(data)
    BY <1>1
  <2> QED
    BY <2>1, <1>1, <1>2, SubSeqIsPart
<1>4. data' \in Seq(Nat) /\ Len(data') = n /\ \A i \in 1..n : data'[i] = data[0 + i]
  BY <1>3 DEF IsPart
<1>5. ASSUME NEW i \in 1..n, i <= Len(Whole)
      PROVE  data'[i] = Whole[i]
  <2>1. i \in 1..Len(data) /\ 0 + i = i
    BY <1>1
  <2> QED
    BY <2>1, <1>4, <1>5 DEF Arrived
<1> QED
  BY <1>2, <1>4, <1>5 DEF Arrived

\* What comes behind a whole message does not change it.
LEMMA ExtendArrived ==
    ASSUME Arrived, Whole \in Seq(Nat), Extend
    PROVE  Arrived'
<1>1. data \in Seq(Nat) /\ Len(data) \in Nat /\ Len(Whole) \in Nat
  BY DEF Arrived
<1>2. Len(data) >= Len(Whole)
  BY WholeArrived DEF Extend
<1>3. PICK b \in {0, 7} : data' = Append(data, b)
  BY DEF Extend
<1>4. Whole' = Whole
  BY DEF Extend, Whole
<1>5. /\ data' \in Seq(Nat) /\ Len(data') = Len(data) + 1
      /\ \A i \in 1..Len(data) : data'[i] = data[i]
  BY <1>1, <1>3
<1>6. ASSUME NEW i \in 1..Len(data'), i <= Len(Whole)
      PROVE  data'[i] = Whole[i]
  <2>1. i \in 1..Len(data)
    BY <1>1, <1>2, <1>5, <1>6
  <2> QED
    BY <2>1, <1>5, <1>6 DEF Arrived
<1> QED
  BY <1>4, <1>5, <1>6 DEF Arrived

\* Nothing has arrived at first.
LEMMA InitWireInv == WireInit => WireInv
<1> SUFFICES ASSUME WireInit PROVE WireInv
  OBVIOUS
<1>1. CASE format = "target"
  <2>1. meant \in Targets /\ data = Whole
    BY <1>1 DEF WireInit, Whole
  <2>2. Whole \in Seq(Nat)
    BY <2>1, <1>1, WholeIsBytes
  <2> QED
    BY <2>1, <2>2, <1>1 DEF WireInv, Arrived
<1>2. CASE format = "credentials"
  <2>1. meant \in [user : Users, password : Passwords] /\ data = Whole
    BY <1>2 DEF WireInit, Whole
  <2>2. Whole \in Seq(Nat)
    BY <2>1, <1>2, WholeIsBytes
  <2> QED
    BY <2>1, <2>2, <1>2 DEF WireInv, Arrived
<1> QED
  BY <1>1, <1>2 DEF WireInv

\* A chunk that grows stays a part of the message that is meant, or the message
\* and something behind it.
LEMMA NextWireInv == WireInv /\ [WireNext]_wireVars => WireInv'
<1> SUFFICES ASSUME WireInv, [WireNext]_wireVars PROVE WireInv'
  OBVIOUS
<1>1. CASE Split
  <2>1. Arrived /\ UNCHANGED <<format, meant>>
    BY <1>1 DEF Split, WireInv
  <2>2. Arrived'
    BY <2>1, <1>1, SplitArrived
  <2> QED
    BY <2>1, <2>2, <1>1 DEF Split, WireInv
<1>2. CASE Extend
  <2>1. Arrived /\ UNCHANGED <<format, meant>>
    BY <1>2 DEF Extend, WireInv
  <2>2. Whole \in Seq(Nat)
    BY <1>2, WholeIsBytes DEF Extend, WireInv
  <2>3. Arrived'
    BY <2>1, <2>2, <1>2, ExtendArrived
  <2> QED
    BY <2>1, <2>3, <1>2 DEF Extend, WireInv
<1>3. CASE UNCHANGED wireVars
  <2>1. Arrived' <=> Arrived
    BY <1>3 DEF wireVars, Arrived, Whole
  <2>2. WireInit' <=> WireInit
    BY <1>3 DEF wireVars, WireInit
  <2> QED
    BY <2>1, <2>2, <1>3 DEF wireVars, WireInv
<1> QED
  BY <1>1, <1>2, <1>3 DEF WireNext

\* What is in the buffer is always the beginning of the message that is meant, or
\* the whole of it and a payload.
THEOREM WireInvariant == WireSpec => []WireInv
<1> QED
  BY InitWireInv, NextWireInv, PTL DEF WireSpec

-----------------------------------------------------------------------------
(* Chunks with a destination *)

\* A buffer about a target follows the header of that target, and the header has
\* arrived as soon as the buffer is long enough.
LEMMA ArrivedFollows ==
    ASSUME format = "target", meant \in Targets, Arrived
    PROVE  /\ Destination(meant) /\ Header(meant) \in Seq(Nat) /\ Whole = Header(meant)
           /\ data \in Seq(Nat) /\ Follows(data, Header(meant))
           /\ IsPrefix(Whole, data) <=> Len(data) >= Len(Header(meant))
<1>1. Destination(meant) /\ Whole = Header(meant)
  BY TargetsAreDestinations DEF Whole
<1>2. Header(meant) \in Seq(Nat)
  BY <1>1, HeaderBytes
<1>3. data \in Seq(Nat) /\ Follows(data, Header(meant))
  BY <1>1 DEF Arrived, Follows
<1> QED
  BY <1>1, <1>2, <1>3, WholeArrived

\* The host of a destination in ASCII is the one that was written down.
LEMMA ReadsAscii ==
    ASSUME NEW t, Destination(t), \A i \in DOMAIN t.host : t.host[i] < 128
    PROVE  Read(t) = t
<1>1. Host(t.type, t.host) = t.host
  BY AsciiIsItself DEF Destination, Host
<1> QED
  BY <1>1 DEF Destination, Read

\* For every address, port and place where the transport cuts a request:
\* parseDestination gives back the destination the client meant, of a name what
\* UTF-8 decoding leaves of its bytes, which is all if they are ASCII; it throws
\* as long as a byte of the request is missing.
THEOREM ParsersAreExact == WireSpec => []ParseExact
<1>1. WireInv => ParseExact
  <2> SUFFICES ASSUME WireInv, format = "target"
               PROVE  IF IsPrefix(Whole, data)
                      THEN /\ ParseDestination(data) = Read(meant)
                           /\ (\A i \in DOMAIN meant.host : meant.host[i] < 128) =>
                                ParseDestination(data) = meant
                      ELSE ParseDestination(data) = Throws
    BY DEF ParseExact, Read
  <2>1. meant \in Targets /\ Arrived
    BY DEF WireInv
  <2>2. /\ Destination(meant) /\ data \in Seq(Nat) /\ Follows(data, Header(meant))
        /\ IsPrefix(Whole, data) <=> Len(data) >= Len(Header(meant))
    BY <2>1, ArrivedFollows
  <2>3. ParseDestination(data) =
           IF Len(data) >= Len(Header(meant)) THEN Read(meant) ELSE Throws
    BY <2>2, ParseOfHeader
  <2>4. (\A i \in DOMAIN meant.host : meant.host[i] < 128) => Read(meant) = meant
    BY <2>2, ReadsAscii
  <2> QED
    BY <2>2, <2>3, <2>4
<1> QED
  BY <1>1, WireInvariant, PTL

\* For every address, port and payload: the index that is computed from the
\* header points behind the header, so the payload that is forwarded is the one
\* that was sent. The check that decides whether there is a header rejects no
\* whole header that a payload follows, except that of a short domain name.
THEOREM PayloadsAreExact == WireSpec => []PayloadExact
<1>1. WireInv => PayloadExact
  <2> SUFFICES ASSUME WireInv, format = "target", IsPrefix(Whole, data)
               PROVE  LET payload == SubSeq(data, Len(Whole) + 1, Len(data))
                      IN  /\ IsSocks5Message(data) =>
                               SubSeq(data, PayloadStartIndex(data) + 1, Len(data)) = payload
                          /\ payload # <<>> /\ ~IsSocks5Message(data) =>
                               meant.type = 3 /\ Len(data) <= 10
    BY DEF PayloadExact
  <2> DEFINE payload == SubSeq(data, Len(Whole) + 1, Len(data))
  <2>1. meant \in Targets /\ Arrived
    BY DEF WireInv
  <2>2. /\ Destination(meant) /\ Whole = Header(meant)
        /\ data \in Seq(Nat) /\ Follows(data, Header(meant))
        /\ Len(data) >= Len(Header(meant))
    BY <2>1, ArrivedFollows
  <2>3. /\ Len(Whole) = HostAt(meant) + Len(meant.host) + 2
        /\ At(data, 3) = meant.type
        /\ PayloadStartIndex(data) = Len(Whole)
    BY <2>2, HeaderIsFound
  <2>4. ASSUME payload # <<>>, ~IsSocks5Message(data)
        PROVE  meant.type = 3 /\ Len(data) <= 10
    <3>1. Len(data) > Len(Whole)
      <4>1. Len(data) \in Nat /\ Len(Whole) \in Nat
        BY <2>2, HeaderBytes
      <4>2. CASE Len(data) < Len(Whole) + 1
        BY <4>1, <4>2, <2>4, SubSeqEmpty
      <4> QED
        BY <4>1, <4>2
    <3>2. meant.type \in {1, 3, 4} /\ Len(meant.host) \in Nat
      BY <2>2 DEF Destination
    <3>3. Len(data) <= 10
      BY <2>2, <2>3, <2>4, <3>2 DEF IsSocks5Message
    <3>4. meant.type # 3 => Len(Whole) >= 10
      <4> DEFINE n == Len(meant.host)
      <4>1. (meant.type = 1 => n = 4) /\ (meant.type = 4 => n = 16)
        BY <2>2, Zenon DEF Destination
      <4>2. Len(Whole) = HostAt(meant) + n + 2
        BY <2>3, Zenon
      <4> HIDE DEF n
      <4> QED
        BY <4>1, <4>2, <3>2 DEF HostAt
    <3>5. Len(data) \in Nat /\ Len(Whole) \in Nat
      BY <2>2, HeaderBytes
    <3> QED
      BY <3>1, <3>3, <3>4, <3>5
  <2> QED
    BY <2>3, <2>4
<1> QED
  BY <1>1, WireInvariant, PTL

-----------------------------------------------------------------------------
(* The parts of an IPv6 text *)

\* A set of numbers that is not empty has a least element.
LEMMA LeastNumber ==
    ASSUME NEW T \in SUBSET Nat, T # {}
    PROVE  \E m \in T : \A k \in T : m <= k
<1>1. PICK m \in T : \A k \in T : <<k, m>> \notin OpToRel(<, Nat)
  BY WFMin, NatLessThanWellFounded, Zenon
<1>2. \A k \in T : ~(k < m)
  BY <1>1, Zenon DEF OpToRel
<1> QED
  BY <1>2

\* What holds of 1, and of every number up to n if it holds of the one before.
LEMMA Induction ==
    ASSUME NEW n \in Nat, NEW Good, 1 \in Good,
           \A k \in 1..n : k # 1 /\ k - 1 \in Good => k \in Good
    PROVE  \A k \in 1..n : k \in Good
<1> DEFINE Bad == {k \in 1..n : k \notin Good}
<1> SUFFICES ASSUME Bad # {} PROVE FALSE
  OBVIOUS
<1>1. PICK m \in Bad : \A k \in Bad : m <= k
  <2>1. Bad \in SUBSET Nat
    OBVIOUS
  <2> HIDE DEF Bad
  <2> QED
    BY <2>1, LeastNumber
<1>2. m \in 1..n /\ m # 1 /\ m - 1 \in 1..n /\ m \notin Good
  OBVIOUS
<1>3. m - 1 \in Good
  BY <1>1, <1>2
<1> QED
  BY <1>2, <1>3

\* The first k sequences over S of seqs, put together one by one.
Flattens(S, f, seqs, k) ==
    /\ f \in [1..k -> Seq(S)]
    /\ f[1] = seqs[1]
    /\ \A i \in 2..k : f[i] = f[i - 1] \o seqs[i]

\* What FlattenSeq computes, part by part.
LEMMA FlattenSteps ==
    ASSUME NEW S, NEW seqs \in Seq(Seq(S)), seqs # <<>>
    PROVE  \E f : Flattens(S, f, seqs, Len(seqs)) /\ FlattenSeq(seqs) = f[Len(seqs)]
<1> DEFINE n    == Len(seqs)
           Good == {k \in 1..n : \E f : Flattens(S, f, seqs, k)}
           F(f) == [i \in 1..n |-> IF i = 1 THEN seqs[i] ELSE f[i - 1] \o seqs[i]]
           c    == CHOOSE f : f = F(f)
<1>1. n \in Nat /\ 1 \in 1..n /\ \A i \in 1..n : seqs[i] \in Seq(S)
  OBVIOUS
<1>2. FlattenSeq(seqs) = c[n]
  BY <1>1 DEF FlattenSeq
<1> HIDE DEF n
<1>3. 1 \in Good
  <2> DEFINE f == [i \in 1..1 |-> seqs[1]]
  <2>1. f \in [1..1 -> Seq(S)] /\ f[1] = seqs[1] /\ \A i \in 2..1 : FALSE
    BY <1>1
  <2>2. Flattens(S, f, seqs, 1)
    BY <2>1 DEF Flattens
  <2> QED
    BY <2>2, <1>1
<1>4. ASSUME NEW k \in 1..n, k # 1, k - 1 \in Good
      PROVE  k \in Good
  <2>1. PICK f : Flattens(S, f, seqs, k - 1)
    BY <1>4
  <2> DEFINE v == f[k - 1] \o seqs[k]
             g == [i \in 1..k |-> IF i = k THEN v ELSE f[i]]
  <2>2. k - 1 \in 1..(k - 1) /\ k \in Nat /\ k >= 2
    BY <1>1, <1>4
  <2>3. f[k - 1] \in Seq(S) /\ seqs[k] \in Seq(S)
    BY <2>1, <2>2, <1>1 DEF Flattens
  <2>4. v \in Seq(S)
    BY <2>3, TwoParts DEF Joins2
  <2> HIDE DEF v
  <2>5. g[k] = v /\ \A i \in 1..(k - 1) : g[i] = f[i]
    <3>1. k \in 1..k /\ \A i \in 1..(k - 1) : i \in 1..k /\ i # k
      BY <2>2
    <3> QED
      BY <3>1
  <2>6. g \in [1..k -> Seq(S)]
    <3>1. \A i \in 1..k : i # k => i \in 1..(k - 1)
      BY <2>2
    <3>2. f \in [1..(k - 1) -> Seq(S)]
      BY <2>1 DEF Flattens
    <3> QED
      BY <3>1, <3>2, <2>4
  <2> HIDE DEF g
  <2>7. g[1] = seqs[1]
    BY <2>1, <2>2, <2>5 DEF Flattens
  <2>8. ASSUME NEW i \in 2..k
        PROVE  g[i] = g[i - 1] \o seqs[i]
    <3>1. i - 1 \in 1..(k - 1) /\ g[i - 1] = f[i - 1]
      BY <2>2, <2>5
    <3>2. CASE i = k
      BY <3>1, <3>2, <2>5 DEF v
    <3>3. CASE i # k
      <4>1. i \in 2..(k - 1) /\ i \in 1..(k - 1)
        BY <3>3, <2>2
      <4>2. f[i] = f[i - 1] \o seqs[i]
        BY <4>1, <2>1 DEF Flattens
      <4> QED
        BY <3>1, <4>1, <4>2, <2>5
    <3> QED
      BY <3>2, <3>3
  <2>9. Flattens(S, g, seqs, k)
    BY <2>6, <2>7, <2>8 DEF Flattens
  <2> QED
    BY <2>9
<1>5. n \in Good
  <2>1. \A k \in 1..n : k # 1 /\ k - 1 \in Good => k \in Good
    BY <1>4
  <2> HIDE DEF Good
  <2>2. \A k \in 1..n : k \in Good
    BY <2>1, <1>1, <1>3, Induction
  <2>3. n \in 1..n
    BY <1>1
  <2> QED
    BY <2>2, <2>3
<1>6. PICK f : Flattens(S, f, seqs, n)
  BY <1>5
<1>7. f = F(f)
  <2>1. f \in [1..n -> Seq(S)]
    BY <1>6 DEF Flattens
  <2>2. ASSUME NEW i \in 1..n
        PROVE  f[i] = IF i = 1 THEN seqs[i] ELSE f[i - 1] \o seqs[i]
    <3>1. i = 1 \/ i \in 2..n
      BY <1>1
    <3> QED
      BY <3>1, <1>6 DEF Flattens
  <2> QED
    BY <2>1, <2>2
<1>8. c = F(c)
  <2> HIDE DEF F
  <2> QED
    BY <1>7
<1> HIDE DEF c
<1>9. ASSUME NEW i \in 1..n
      PROVE  c[i] = IF i = 1 THEN seqs[i] ELSE c[i - 1] \o seqs[i]
  BY <1>8
<1> DEFINE Same == {k \in 1..n : c[k] = f[k]}
<1>10. 1 \in Same
  <2>1. c[1] = seqs[1]
    BY <1>1, <1>9
  <2>2. f[1] = seqs[1]
    BY <1>6 DEF Flattens
  <2> QED
    BY <2>1, <2>2, <1>1
<1>11. ASSUME NEW k \in 1..n, k # 1, k - 1 \in Same
       PROVE  k \in Same
  <2>1. c[k] = c[k - 1] \o seqs[k]
    BY <1>9, <1>11
  <2>2. k \in 2..n
    BY <1>1, <1>11
  <2>3. f[k] = f[k - 1] \o seqs[k]
    BY <2>2, <1>6 DEF Flattens
  <2>4. c[k - 1] = f[k - 1]
    BY <1>11
  <2> QED
    BY <2>1, <2>3, <2>4
<1>12. c[n] = f[n]
  <2>1. \A k \in 1..n : k # 1 /\ k - 1 \in Same => k \in Same
    BY <1>11
  <2> HIDE DEF Same
  <2>2. \A k \in 1..n : k \in Same
    BY <2>1, <1>1, <1>10, Induction
  <2>3. n \in 1..n
    BY <1>1
  <2> QED
    BY <2>2, <2>3 DEF Same
<1> QED
  BY <1>2, <1>6, <1>12 DEF n

\* The numbers of a sequence of pairs, one after the other.
PairAt(seqs, i) == seqs[(i + 1) \div 2][2 - (i % 2)]

\* A text of parts of two bytes each.
LEMMA FlattenPairs ==
    ASSUME NEW seqs \in Seq(Seq(Nat)), seqs # <<>>,
           \A i \in 1..Len(seqs) : Len(seqs[i]) = 2
    PROVE  /\ Len(FlattenSeq(seqs)) = 2 * Len(seqs)
           /\ \A i \in 1..(2 * Len(seqs)) : FlattenSeq(seqs)[i] = PairAt(seqs, i)
<1> DEFINE n    == Len(seqs)
<1>1. n \in Nat /\ 1 \in 1..n /\ \A i \in 1..n : seqs[i] \in Seq(Nat) /\ Len(seqs[i]) = 2
  OBVIOUS
<1>2. PICK f : Flattens(Nat, f, seqs, n) /\ FlattenSeq(seqs) = f[n]
  BY FlattenSteps
<1> DEFINE Right(k) == Len(f[k]) = 2 * k /\ \A i \in 1..(2 * k) : f[k][i] = PairAt(seqs, i)
           Good     == {k \in 1..n : Right(k)}
<1> HIDE DEF n
\* Which numbers the k-th pair is.
<1>3. ASSUME NEW k \in 1..n
      PROVE  /\ PairAt(seqs, 2 * (k - 1) + 1) = seqs[k][1]
             /\ PairAt(seqs, 2 * (k - 1) + 2) = seqs[k][2]
  <2>1. /\ (2 * (k - 1) + 1 + 1) \div 2 = k /\ 2 - ((2 * (k - 1) + 1) % 2) = 1
        /\ (2 * (k - 1) + 2 + 1) \div 2 = k /\ 2 - ((2 * (k - 1) + 2) % 2) = 2
    BY <1>1
  <2> QED
    BY <2>1 DEF PairAt
<1>4. Right(1)
  <2>1. f[1] = seqs[1]
    BY <1>2 DEF Flattens
  <2>2. Len(seqs[1]) = 2 /\ PairAt(seqs, 1) = seqs[1][1] /\ PairAt(seqs, 2) = seqs[1][2]
    <3>1. 2 * (1 - 1) + 1 = 1 /\ 2 * (1 - 1) + 2 = 2
      OBVIOUS
    <3> QED
      BY <3>1, <1>1, <1>3
  <2>3. ASSUME NEW i \in 1..(2 * 1)
        PROVE  f[1][i] = PairAt(seqs, i)
    <3>1. i = 1 \/ i = 2
      OBVIOUS
    <3> QED
      BY <3>1, <2>1, <2>2
  <2> QED
    BY <2>1, <2>2, <2>3
<1>5. ASSUME NEW k \in 1..n, k # 1, Right(k - 1)
      PROVE  Right(k)
  <2> DEFINE g == f[k - 1]
             s == seqs[k]
             h == f[k]
  <2>1. k \in 2..n /\ k - 1 \in 1..n
    BY <1>1, <1>5
  <2>2. h = g \o s /\ g \in Seq(Nat) /\ s \in Seq(Nat)
    BY <2>1, <1>1, <1>2 DEF Flattens
  <2>3. Len(g) = 2 * (k - 1) /\ Len(s) = 2 /\ \A i \in 1..(2 * (k - 1)) : g[i] = PairAt(seqs, i)
    BY <1>1, <1>5
  <2>4. PairAt(seqs, 2 * (k - 1) + 1) = s[1] /\ PairAt(seqs, 2 * (k - 1) + 2) = s[2]
    BY <1>3
  <2> HIDE DEF g, s, h
  <2>5. Joins2(Nat, h, g, s)
    BY <2>2, TwoParts
  <2>6. Len(h) = 2 * k
    BY <2>1, <2>3, <2>5 DEF Joins2
  <2>7. ASSUME NEW i \in 1..(2 * k)
        PROVE  h[i] = PairAt(seqs, i)
    <3>1. i \in 1..(2 * (k - 1)) \/ i = 2 * (k - 1) + 1 \/ i = 2 * (k - 1) + 2
      BY <2>1
    <3>2. CASE i \in 1..(2 * (k - 1))
      BY <3>2, <2>3, <2>5 DEF Joins2
    <3>3. CASE i = 2 * (k - 1) + 1
      <4>1. h[Len(g) + 1] = s[1]
        BY <2>3, <2>5 DEF Joins2
      <4> QED
        BY <4>1, <3>3, <2>3, <2>4
    <3>4. CASE i = 2 * (k - 1) + 2
      <4>1. h[Len(g) + 2] = s[2]
        BY <2>3, <2>5 DEF Joins2
      <4> QED
        BY <4>1, <3>4, <2>3, <2>4
    <3> QED
      BY <3>1, <3>2, <3>3, <3>4
  <2> QED
    BY <2>6, <2>7 DEF h
<1> HIDE DEF Right
<1>6. Right(n)
  <2>1. \A k \in 1..n : k # 1 /\ k - 1 \in Good => k \in Good
    BY <1>5
  <2>2. 1 \in Good
    BY <1>1, <1>4
  <2> HIDE DEF Good
  <2>3. \A k \in 1..n : k \in Good
    BY <2>1, <2>2, <1>1, Induction
  <2>4. n \in 1..n
    BY <1>1
  <2> QED
    BY <2>3, <2>4 DEF Good
<1> QED
  BY <1>2, <1>6 DEF n, Right

\* The digits of a word, all of them or without the leading zeros.
LEMMA DigitsOfWord ==
    ASSUME NEW w \in Word
    PROVE  /\ HexDigits(w) \in Seq(Nat) /\ Len(HexDigits(w)) = 4
           /\ Shortened(w) \in Seq(Nat) /\ Len(Shortened(w)) \in 1..4
           /\ Len(Shortened(w)) = 4 => Shortened(w) = HexDigits(w)
           /\ \A n \in Nat : PartBytes(HexDigits(w), n) = UInt16(w)
<1>1. w \in Nat /\ w <= 65535
  BY DEF Word
<1>2. /\ w \div 4096 \in Nat /\ (w \div 256) % 16 \in Nat
      /\ (w \div 16) % 16 \in Nat /\ w % 16 \in Nat
  BY <1>1
<1>3. /\ HexDigits(w) \in Seq(Nat) /\ Len(HexDigits(w)) = 4
      /\ HexDigits(w)[1] = w \div 4096 /\ HexDigits(w)[2] = (w \div 256) % 16
      /\ HexDigits(w)[3] = (w \div 16) % 16 /\ HexDigits(w)[4] = w % 16
      /\ HexDigits(w) # <<>>
  BY <1>2 DEF HexDigits
<1> DEFINE h == HexDigits(w)
<1> HIDE DEF h
<1>4. /\ h \in Seq(Nat) /\ Len(h) = 4 /\ h # <<>>
      /\ h[1] = w \div 4096 /\ h[2] = (w \div 256) % 16
      /\ h[3] = (w \div 16) % 16 /\ h[4] = w % 16
  BY <1>3 DEF h
<1> DEFINE n == CASE w >= 4096 -> 4 [] w \in 256..4095 -> 3 [] w \in 16..255 -> 2 [] w < 16 -> 1
<1>5. n \in 1..4
  BY <1>1
<1>6. Shortened(w) = SubSeq(h, 5 - n, 4)
  BY Zenon DEF Shortened, h
<1> HIDE DEF n
<1>7. Shortened(w) \in Seq(Nat) /\ Len(Shortened(w)) = n
  <2> DEFINE from == 4 - n
  <2>1. from \in Nat /\ from + n = 4 /\ from + 1 = 5 - n /\ n \in Nat
    BY <1>5
  <2> HIDE DEF from
  <2>2. h \in Seq(Nat) /\ from + n <= Len(h)
    BY <2>1, <1>4
  <2>3. IsPart(SubSeq(h, from + 1, from + n), h, from, n)
    BY <2>1, <2>2, SubSeqIsPart
  <2> QED
    BY <2>1, <2>3, <1>6 DEF IsPart
<1>8. n = 4 => Shortened(w) = h
  <2> SUFFICES ASSUME n = 4 PROVE Shortened(w) = h
    OBVIOUS
  <2>1. Shortened(w) = SubSeq(h, 1, Len(h))
    BY <1>4, <1>6
  <2> QED
    BY <2>1, <1>4, SubSeqFull
<1>9. ASSUME NEW k \in Nat
      PROVE  PartBytes(h, k) = UInt16(w)
  <2>1. PartBytes(h, k) = [i \in 1..2 |-> 16 * h[2 * i - 1] + h[2 * i]]
    BY <1>4 DEF PartBytes
  <2>2. /\ 16 * (w \div 4096) + ((w \div 256) % 16) = w \div 256
        /\ 16 * ((w \div 16) % 16) + (w % 16) = w % 256
    BY <1>1
  <2>3. PartBytes(h, k) = <<w \div 256, w % 256>>
    BY <2>1, <2>2, <1>4
  <2> QED
    BY <2>3 DEF UInt16
<1> QED
  BY <1>4, <1>5, <1>7, <1>8, <1>9 DEF h

\* An IPv6 address as it is written is between three and nine parts, and one of
\* them is empty where zeros are left out.
LEMMA PartsOfText ==
    ASSUME NEW a \in IPv6Addresses, NEW style \in {"padded", "plain", "compressed"}
    PROVE  LET text == Written(a, style)
           IN  /\ text \in Seq(Seq(Nat)) /\ Len(text) \in 3..9
               /\ (\A i \in DOMAIN text : Len(text[i]) = 4) =>
                     text = [i \in 1..8 |-> HexDigits(Words(a)[i])]
<1> DEFINE short(words) == [i \in 1..Len(words) |-> Shortened(words[i])]
           edge(words)  == IF words = <<>> THEN <<<<>>>> ELSE short(words)
           text         == Written(a, style)
           gap          == <<<<>>>>
           l            == a[1]
           r            == a[2]
           w            == Words(a)
<1>1. l \in Seq(Word) /\ r \in Seq(Word) /\ Len(l) + Len(r) <= 8
  BY WireAssumption
<1>2. w \in Seq(Word) /\ Len(w) = 8
  BY BytesOfWords
<1>3. ASSUME NEW words \in Seq(Word), NEW i \in 1..Len(words)
      PROVE  /\ HexDigits(words[i]) \in Seq(Nat) /\ Shortened(words[i]) \in Seq(Nat)
             /\ Len(Shortened(words[i])) = 4 => Shortened(words[i]) = HexDigits(words[i])
  <2>1. words[i] \in Word
    BY ElementOfSeq
  <2> QED
    BY <2>1, DigitsOfWord, Zenon
<1>4. ASSUME NEW words \in Seq(Word)
      PROVE  /\ short(words) \in Seq(Seq(Nat)) /\ Len(short(words)) = Len(words)
             /\ edge(words) \in Seq(Seq(Nat))
             /\ Len(edge(words)) = IF Len(words) = 0 THEN 1 ELSE Len(words)
  <2>1. \A i \in 1..Len(words) : Shortened(words[i]) \in Seq(Nat)
    BY <1>3
  <2>2. short(words) \in Seq(Seq(Nat)) /\ Len(short(words)) = Len(words)
    BY <2>1
  <2>3. words = <<>> <=> Len(words) = 0
    BY EmptySeq
  <2>4. <<<<>>>> \in Seq(Seq(Nat)) /\ Len(<<<<>>>>) = 1
    BY EmptySeq
  <2> QED
    BY <2>2, <2>3, <2>4
<1>5. CASE style = "padded"
  <2>1. text = [i \in 1..8 |-> HexDigits(w[i])]
    BY <1>5 DEF Written
  <2>2. \A i \in 1..8 : HexDigits(w[i]) \in Seq(Nat)
    BY <1>2, <1>3
  <2> DEFINE e(i) == HexDigits(w[i])
  <2> HIDE DEF w, text, e
  <2>3. text \in Seq(Seq(Nat)) /\ Len(text) = 8
    <3>1. text = [i \in 1..8 |-> e(i)] /\ \A i \in 1..8 : e(i) \in Seq(Nat)
      BY <2>1, <2>2 DEF e
    <3> QED
      BY <3>1
  <2> QED
    BY <2>1, <2>3 DEF text, w
<1>6. CASE style = "compressed" /\ Len(l) + Len(r) < 8
  <2> DEFINE left  == edge(l)
             right == edge(r)
             n     == Len(left)
             m     == Len(right)
  <2>1. text = (left \o gap) \o right
    BY <1>6 DEF Written
  <2>2. gap \in Seq(Seq(Nat)) /\ Len(gap) = 1 /\ gap[1] = <<>>
    BY EmptySeq
  <2>3. /\ left \in Seq(Seq(Nat)) /\ right \in Seq(Seq(Nat))
        /\ Len(left) = IF Len(l) = 0 THEN 1 ELSE Len(l)
        /\ Len(right) = IF Len(r) = 0 THEN 1 ELSE Len(r)
    BY <1>1, <1>4
  <2>4. Len(l) \in Nat /\ Len(r) \in Nat
    BY <1>1
  <2> HIDE DEF gap, left, right, text, l, r
  <2>5. Joins3(Seq(Nat), text, left, gap, right)
    BY <2>1, <2>2, <2>3, ThreeParts
  <2>6. text \in Seq(Seq(Nat)) /\ Len(text) \in 3..9 /\ n + 1 \in 1..Len(text)
    <3> DEFINE x == Len(l)
               y == Len(r)
    <3>1. n = (IF x = 0 THEN 1 ELSE x) /\ m = (IF y = 0 THEN 1 ELSE y)
      BY <2>3
    <3>2. Len(text) = n + 1 + m
      BY <2>2, <2>5 DEF Joins3
    <3>3. x \in Nat /\ y \in Nat /\ x + y < 8
      BY <2>4, <1>6
    <3> HIDE DEF n, m, x, y
    <3>4. n + 1 + m \in 3..9 /\ n + 1 \in 1..(n + 1 + m)
      BY <3>1, <3>3
    <3> QED
      BY <3>2, <3>4, <2>5 DEF Joins3
  <2>7. text[n + 1] = <<>>
    <3>1. 1 \in 1..Len(gap)
      BY <2>2
    <3> QED
      BY <3>1, <2>2, <2>5 DEF Joins3
  <2>8. n + 1 \in DOMAIN text
    BY <2>6
  <2>9. Len(text[n + 1]) # 4
    BY <2>7, EmptySeq
  <2>10. ~(\A i \in DOMAIN text : Len(text[i]) = 4)
    BY <2>8, <2>9
  <2> QED
    BY <2>6, <2>10, Zenon DEF text
<1>7. CASE ~(style = "padded" \/ (style = "compressed" /\ Len(l) + Len(r) < 8))
  <2>1. text = short(w)
    BY <1>7 DEF Written
  <2>2. text \in Seq(Seq(Nat)) /\ Len(text) = 8
    BY <2>1, <1>2, <1>4
  <2> HIDE DEF text, w
  <2>3. text = [i \in 1..8 |-> Shortened(w[i])]
    BY <2>1, <1>2
  <2>4. ASSUME \A i \in DOMAIN text : Len(text[i]) = 4
        PROVE  text = [i \in 1..8 |-> HexDigits(w[i])]
    <3>1. ASSUME NEW i \in 1..8
          PROVE  Shortened(w[i]) = HexDigits(w[i])
      <4>1. i \in DOMAIN text /\ text[i] = Shortened(w[i]) /\ i \in 1..Len(w)
        BY <2>3, <1>2
      <4>2. Len(Shortened(w[i])) = 4
        BY <4>1, <2>4
      <4> QED
        BY <4>1, <4>2, <1>2, <1>3
    <3> QED
      BY <3>1, <2>3
  <2> QED
    BY <2>2, <2>4 DEF text, w
<1> QED
  BY <1>5, <1>6, <1>7

-----------------------------------------------------------------------------
(* Replies *)

\* The address of a reply is made of bytes, and of all the bytes of an IPv6
\* address that is written with all its digits.
LEMMA AddressOfText ==
    ASSUME NEW a \in IPv6Addresses, NEW style \in {"padded", "plain", "compressed"}
    PROVE  LET text == Written(a, style)
           IN  /\ AddressBuffer(4, text) \in Seq(Nat)
               /\ (\A i \in DOMAIN text : Len(text[i]) = 4) =>
                     AddressBuffer(4, text) = WordBytes(Words(a))
<1> DEFINE text == Written(a, style)
           n    == Len(text)
           seqs == [i \in 1..n |-> PartBytes(text[i], n)]
<1>1. /\ text \in Seq(Seq(Nat)) /\ n \in 3..9
      /\ (\A i \in DOMAIN text : Len(text[i]) = 4) =>
            text = [i \in 1..8 |-> HexDigits(Words(a)[i])]
  BY PartsOfText, Zenon
<1>2. AddressBuffer(4, text) = FlattenSeq(seqs)
  BY DEF AddressBuffer
<1> HIDE DEF text
<1> HIDE DEF n
<1>3. ASSUME NEW i \in 1..n
      PROVE  PartBytes(text[i], n) \in Seq(Nat)
  <2> DEFINE part == text[i]
             len  == Len(part)
  <2>1. part \in Seq(Nat) /\ len \in Nat
    <3>1. i \in 1..Len(text)
      BY DEF n
    <3>2. part \in Seq(Nat)
      BY <3>1, <1>1, ElementOfSeq
    <3> QED
      BY <3>2
  <2> HIDE DEF part
  <2>2. CASE part = <<>>
    <3>1. PartBytes(part, n) = [k \in 1..(16 - n + 1) |-> 0]
      BY <2>2, Zenon DEF PartBytes
    <3>2. 16 - n + 1 \in Nat
      BY <1>1
    <3> QED
      BY <3>1, <3>2 DEF part
  <2>3. CASE part # <<>>
    <3> DEFINE m    == (len + 1) \div 2
               e(k) == IF 2 * k <= len THEN 16 * part[2 * k - 1] + part[2 * k]
                       ELSE part[2 * k - 1]
    <3>1. PartBytes(part, n) = [k \in 1..m |-> e(k)]
      BY <2>3, Zenon DEF PartBytes
    <3> HIDE DEF len
    <3>2. m \in Nat
      BY <2>1
    <3>3. ASSUME NEW k \in 1..m
          PROVE  e(k) \in Nat
      <4>1. 2 * k - 1 \in 1..len
        BY <2>1
      <4>2. part[2 * k - 1] \in Nat
        BY <4>1, <2>1, ElementOfSeq DEF len
      <4>3. ASSUME 2 * k <= len
            PROVE  part[2 * k] \in Nat
        <5>1. 2 * k \in 1..len
          BY <4>1, <4>3
        <5> QED
          BY <5>1, <2>1, ElementOfSeq DEF len
      <4> QED
        BY <4>2, <4>3
    <3> HIDE DEF m, e
    <3>4. [k \in 1..m |-> e(k)] \in Seq(Nat)
      BY <3>2, <3>3
    <3> QED
      BY <3>1, <3>4 DEF part
  <2> QED
    BY <2>2, <2>3
<1>4. seqs \in Seq(Seq(Nat)) /\ Len(seqs) = n /\ seqs # <<>>
  <2> DEFINE p(i) == PartBytes(text[i], n)
  <2>1. \A i \in 1..n : p(i) \in Seq(Nat)
    BY <1>3
  <2>2. n \in Nat /\ n # 0
    BY <1>1
  <2> HIDE DEF p
  <2>3. [i \in 1..n |-> p(i)] \in Seq(Seq(Nat)) /\ Len([i \in 1..n |-> p(i)]) = n
    BY <2>1, <2>2
  <2>4. [i \in 1..n |-> p(i)] # <<>>
    BY <2>2, <2>3, EmptySeq
  <2> QED
    BY <2>3, <2>4 DEF p
<1>5. FlattenSeq(seqs) \in Seq(Nat)
  <2> HIDE DEF seqs
  <2>1. PICK f : Flattens(Nat, f, seqs, Len(seqs)) /\ FlattenSeq(seqs) = f[Len(seqs)]
    BY <1>4, FlattenSteps
  <2>2. f \in [1..n -> Seq(Nat)] /\ FlattenSeq(seqs) = f[n]
    BY <2>1, <1>4 DEF Flattens
  <2>3. n \in 1..n
    BY <1>1
  <2> QED
    BY <2>2, <2>3
<1>6. ASSUME \A i \in DOMAIN text : Len(text[i]) = 4
      PROVE  FlattenSeq(seqs) = WordBytes(Words(a))
  <2> DEFINE w == Words(a)
             b == WordBytes(w)
             s == FlattenSeq(seqs)
  <2>1. w \in Seq(Word) /\ Len(w) = 8 /\ b \in Seq(Nat) /\ Len(b) = 16
    BY BytesOfWords
  <2>2. text = [i \in 1..8 |-> HexDigits(w[i])]
    BY <1>1, <1>6
  <2> HIDE DEF w, b
  <2>3. n = 8
    BY <2>2 DEF n
  <2>4. ASSUME NEW i \in 1..8
        PROVE  seqs[i] = UInt16(w[i]) /\ Len(seqs[i]) = 2
    <3>1. w[i] \in Word
      <4>1. i \in 1..Len(w)
        BY <2>1
      <4> QED
        BY <4>1, <2>1, ElementOfSeq
    <3>2. seqs[i] = PartBytes(HexDigits(w[i]), n) /\ n \in Nat
      BY <2>2, <2>3
    <3>3. PartBytes(HexDigits(w[i]), n) = UInt16(w[i])
      BY <3>1, <3>2, DigitsOfWord
    <3>4. Len(UInt16(w[i])) = 2
      BY <3>1, UInt16IsRead
    <3> QED
      BY <3>2, <3>3, <3>4
  <2> HIDE DEF seqs
  <2>5. Len(seqs) = 8 /\ \A i \in 1..Len(seqs) : Len(seqs[i]) = 2
    BY <1>4, <2>3, <2>4
  <2>6. Len(s) = 2 * Len(seqs) /\ \A i \in 1..(2 * Len(seqs)) : s[i] = PairAt(seqs, i)
    BY <1>4, <2>5, FlattenPairs
  <2> HIDE DEF s
  <2>7. ASSUME NEW i \in 1..16
        PROVE  s[i] = b[i]
    <3>1. (i + 1) \div 2 \in 1..8
      OBVIOUS
    <3>2. i \in 1..(2 * Len(seqs)) /\ i \in 1..(2 * Len(w))
      BY <2>1, <2>5
    <3>3. s[i] = seqs[(i + 1) \div 2][2 - (i % 2)]
      BY <2>6, <3>2 DEF PairAt
    <3>4. b[i] = UInt16(w[(i + 1) \div 2])[2 - (i % 2)]
      <4> DEFINE v(j) == UInt16(w[(j + 1) \div 2])[2 - (j % 2)]
      <4>1. b = [j \in 1..(2 * Len(w)) |-> v(j)]
        BY DEF WordBytes, b
      <4> HIDE DEF v
      <4>2. b[i] = v(i)
        BY <4>1, <3>2
      <4> QED
        BY <4>2 DEF v
    <3>5. seqs[(i + 1) \div 2] = UInt16(w[(i + 1) \div 2])
      BY <3>1, <2>4, Zenon
    <3> QED
      BY <3>3, <3>4, <3>5, Zenon
  <2>8. s \in Seq(Nat) /\ Len(s) = 16
    BY <2>5, <2>6, <1>5 DEF s
  <2>9. Len(s) = Len(b) /\ \A i \in 1..Len(s) : s[i] = b[i]
    BY <2>1, <2>7, <2>8
  <2> QED
    BY <2>1, <2>8, <2>9, SeqEqual DEF w, b, s
<1> QED
  BY <1>2, <1>5, <1>6 DEF text

\* What is copied into a reply: all of an address, if it is no IPv6 address or
\* one that is written with all its digits.
Full(m) == m.type = 4 => \A i \in DOMAIN m.text : Len(m.text[i]) = 4

Copied(m, address, size) ==
    /\ m.type \in {1, 3, 4} /\ m.port \in Word
    /\ address \in Seq(Nat) /\ size \in Nat
    /\ m.type = 1 => size = 4
    /\ m.type = 3 => size = Len(address) /\ size <= 255
    /\ m.type = 4 => size = 16
    /\ Full(m) => m.host = address /\ Len(address) = size

\* The bytes copied into a reply are as many as the type of the address says, and
\* those of the address itself if it is written in full.
LEMMA AddressOfReply ==
    ASSUME NEW m \in Bound
    PROVE  Copied(m, AddressBuffer(m.type, m.text),
                  ReplyLength(m.type, m.text) - AddressOffset(m.type) - 2)
<1> DEFINE address == AddressBuffer(m.type, m.text)
           size    == ReplyLength(m.type, m.text) - AddressOffset(m.type) - 2
<1>1. Ports \subseteq Word /\ Byte \subseteq Nat
  BY WireAssumption DEF Byte
<1>2. CASE m \in {[type |-> 1, host |-> a, text |-> a, port |-> p] :
                     a \in IPv4Addresses, p \in Ports}
  <2>1. PICK a \in IPv4Addresses, p \in Ports :
           m.type = 1 /\ m.host = a /\ m.text = a /\ m.port = p
    BY <1>2
  <2>2. a \in Seq(Byte) /\ Len(a) = 4
    BY WireAssumption, Zenon
  <2>3. a \in Seq(Nat)
    BY <2>2, <1>1, SeqMonotonic
  <2>4. address = a /\ size = 4
    BY <2>1 DEF AddressBuffer, ReplyLength, AddressOffset
  <2>5. Copied(m, a, 4)
    BY <2>1, <2>2, <2>3, <1>1 DEF Copied
  <2> QED
    BY <2>4, <2>5, Zenon
<1>3. CASE m \in {[type |-> 3, host |-> a, text |-> a, port |-> p] :
                     a \in ReplyNames, p \in Ports}
  <2>1. PICK a \in DomainNames, p \in Ports :
           m.type = 3 /\ m.host = a /\ m.text = a /\ m.port = p
    BY <1>3 DEF ReplyNames
  <2> DEFINE k == Len(a)
  <2>2. a \in Seq(Byte) /\ k <= 255
    BY WireAssumption, Zenon
  <2>3. a \in Seq(Nat)
    BY <2>2, <1>1, SeqMonotonic
  <2>4. k \in Nat
    BY <2>3
  <2>5. address = a /\ ReplyLength(m.type, m.text) = 7 + k /\ AddressOffset(m.type) = 5
    BY <2>1 DEF AddressBuffer, ReplyLength, AddressOffset
  <2> HIDE DEF k
  <2>6. size = k
    BY <2>4, <2>5
  <2>7. Len(a) = k
    BY DEF k
  <2>8. Copied(m, a, k)
    BY <2>1, <2>2, <2>3, <2>4, <2>7, <1>1 DEF Copied
  <2> QED
    BY <2>5, <2>6, <2>8, Zenon
<1>4. CASE m \in {[type |-> 4, host |-> WordBytes(Words(a)), text |-> Written(a, style),
                   port |-> p] :
                     a \in IPv6Addresses, style \in {"padded", "plain", "compressed"},
                     p \in Ports}
  <2>1. PICK a \in IPv6Addresses, style \in {"padded", "plain", "compressed"}, p \in Ports :
           /\ m.type = 4 /\ m.host = WordBytes(Words(a)) /\ m.text = Written(a, style)
           /\ m.port = p
    BY <1>4
  <2>2. address \in Seq(Nat) /\ (Full(m) => address = m.host)
    BY <2>1, AddressOfText DEF Full
  <2>3. Len(m.host) = 16
    BY <2>1, BytesOfWords
  <2>4. size = 16
    BY <2>1 DEF ReplyLength, AddressOffset
  <2> HIDE DEF address, size
  <2>5. Copied(m, address, 16)
    BY <2>1, <2>2, <2>3, <1>1 DEF Copied
  <2> QED
    BY <2>4, <2>5, Zenon DEF address, size
<1>5. \/ m \in {[type |-> 1, host |-> a, text |-> a, port |-> p] :
                   a \in IPv4Addresses, p \in Ports}
      \/ m \in {[type |-> 3, host |-> a, text |-> a, port |-> p] :
                   a \in ReplyNames, p \in Ports}
      \/ m \in {[type |-> 4, host |-> WordBytes(Words(a)), text |-> Written(a, style),
                 port |-> p] :
                   a \in IPv6Addresses, style \in {"padded", "plain", "compressed"},
                   p \in Ports}
  BY DEF Bound
<1> HIDE DEF address, size
<1>6. Copied(m, address, size)
  BY <1>2, <1>3, <1>4, <1>5 DEF address, size
<1> QED
  BY <1>6 DEF address, size

\* A reply is a message with a header, about the address that was copied into
\* it.
Names(buffer, t) ==
    /\ Destination(t)
    /\ buffer \in Seq(Nat) /\ Follows(buffer, Header(t))
    /\ Len(buffer) = Len(Header(t))

\* A reply is a header about the address that was copied into it.
LEMMA ReplyIsHeader ==
    ASSUME NEW m \in Bound
    PROVE  \E host \in Seq(Nat) :
              /\ Names(SendReply(0, m.type, m.text, m.port),
                       [type |-> m.type, host |-> host, port |-> m.port])
              /\ Full(m) => host = m.host
<1> DEFINE buffer  == SendReply(0, m.type, m.text, m.port)
           type    == m.type
           port    == m.port
           first   == <<5, 0, 0, type>>
           bytes   == UInt16(port)
           address == AddressBuffer(type, m.text)
           k       == Len(address)
           n       == ReplyLength(type, m.text)
           h       == AddressOffset(type)
           e(i)    == IF i <= 4 THEN first[i]
                      ELSE IF i > n - 2 THEN bytes[i - n + 2]
                      ELSE IF i - h \in DOMAIN address THEN address[i - h]
                      ELSE IF i = 5 /\ type = 3 THEN k % 256
                      ELSE 0
           size    == n - h - 2
           host    == [i \in 1..size |-> e(h + i)]
           full    == Full(m)
           t       == [type |-> type, host |-> host, port |-> port]
           w       == Header(t)
<1>1. /\ type \in {1, 3, 4} /\ port \in Word
      /\ address \in Seq(Nat) /\ size \in Nat
      /\ type = 1 => size = 4
      /\ type = 3 => size = k /\ size <= 255
      /\ type = 4 => size = 16
      /\ full => m.host = address /\ k = size
  BY AddressOfReply, Zenon DEF Copied
<1>2. buffer = [i \in 1..n |-> e(i)]
  BY Zenon DEF SendReply
<1>3. h = (IF type = 3 THEN 5 ELSE 4)
  BY DEF AddressOffset
<1>4. n \in Int
  <2>1. CASE type = 3
    <3>1. n = 7 + Len(m.text) /\ address = m.text
      BY <2>1 DEF ReplyLength, AddressBuffer
    <3>2. k \in Nat
      BY <1>1
    <3> QED
      BY <3>1, <3>2
  <2> QED
    BY <2>1, <1>1 DEF ReplyLength
<1>5. n = h + size + 2 /\ n \in Nat
  BY <1>1, <1>3, <1>4
<1>6. first \in Seq(Nat) /\ Len(first) = 4 /\ first[4] = type
  BY <1>1
<1>7. /\ bytes \in Seq(Nat) /\ Len(bytes) = 2
      /\ bytes[1] = port \div 256 /\ bytes[2] = port % 256
  BY <1>1, UInt16IsRead
<1>8. k \in Nat /\ DOMAIN address = 1..k
  BY <1>1
<1> HIDE DEF first, bytes, address, k, n, h, size, full, buffer, type, port
\* The bytes of the reply, field by field.
<1>9. e(4) = type
  BY <1>6
<1>10. type = 3 => e(5) = size
  BY <1>1, <1>3, <1>5, <1>8
<1>11. ASSUME NEW i \in 1..size, i \in 1..k
       PROVE  e(h + i) = address[i]
  <2>1. ~(h + i <= 4) /\ ~(h + i > n - 2) /\ (h + i) - h = i
    BY <1>1, <1>3, <1>5
  <2>2. i \in DOMAIN address
    BY <1>8, <1>11
  <2> QED
    BY <2>1, <2>2, Zenon
<1>12. e(h + size + 1) = port \div 256 /\ e(h + size + 2) = port % 256
  <2>1. /\ ~(h + size + 1 <= 4) /\ h + size + 1 > n - 2 /\ (h + size + 1) - n + 2 = 1
        /\ ~(h + size + 2 <= 4) /\ h + size + 2 > n - 2 /\ (h + size + 2) - n + 2 = 2
    BY <1>1, <1>3, <1>5
  <2>2. e(h + size + 1) = bytes[1] /\ e(h + size + 2) = bytes[2]
    BY <2>1, Zenon
  <2> QED
    BY <2>2, <1>7
<1>13. ASSUME NEW i \in 1..n
       PROVE  e(i) \in Nat
  <2>1. i <= 4 => first[i] \in Nat
    <3> SUFFICES ASSUME i <= 4 PROVE first[i] \in Nat
      OBVIOUS
    <3>1. i \in 1..Len(first)
      BY <1>5, <1>6
    <3> QED
      BY <3>1, <1>6, ElementOfSeq
  <2>2. i > n - 2 => bytes[i - n + 2] \in Nat
    <3> SUFFICES ASSUME i > n - 2 PROVE bytes[i - n + 2] \in Nat
      OBVIOUS
    <3>1. i - n + 2 \in 1..2
      BY <1>5
    <3>2. i - n + 2 \in 1..Len(bytes)
      BY <3>1, <1>7
    <3> QED
      BY <3>2, <1>7, ElementOfSeq
  <2>3. i - h \in DOMAIN address => address[i - h] \in Nat
    <3> SUFFICES ASSUME i - h \in DOMAIN address PROVE address[i - h] \in Nat
      OBVIOUS
    <3> QED
      BY <1>1, ElementOfSeq
  <2>4. k % 256 \in Nat
    BY <1>8
  <2> QED
    BY <2>1, <2>2, <2>3, <2>4
<1> HIDE DEF e
<1>14. /\ buffer \in Seq(Nat) /\ Len(buffer) = n
       /\ \A i \in 1..n : buffer[i] = e(i)
  BY <1>2, <1>5, <1>13
<1>15. host \in Seq(Nat) /\ Len(host) = size /\ \A i \in 1..size : host[i] = e(h + i)
  <2> DEFINE d(i) == e(h + i)
  <2>1. ASSUME NEW i \in 1..size
        PROVE  d(i) \in Nat
    <3>1. h + i \in 1..n
      BY <1>1, <1>3, <1>5
    <3> QED
      BY <3>1, <1>13
  <2> HIDE DEF d
  <2>2. /\ [i \in 1..size |-> d(i)] \in Seq(Nat) /\ Len([i \in 1..size |-> d(i)]) = size
        /\ \A i \in 1..size : [j \in 1..size |-> d(j)][i] = d(i)
    BY <2>1, <1>1
  <2> QED
    BY <2>2 DEF d
<1> HIDE DEF host
<1>16. t.type = type /\ t.port = port /\ t.host = host
  OBVIOUS
<1>17. Destination(t)
  BY <1>1, <1>15 DEF Destination
<1>18. full => host = m.host
  <2> SUFFICES ASSUME full PROVE host = address
    BY <1>1
  <2>1. Len(address) = size /\ k = size
    BY <1>1 DEF k
  <2>2. \A i \in 1..size : host[i] = address[i]
    BY <2>1, <1>11, <1>15
  <2> QED
    BY <2>1, <2>2, <1>1, <1>15, SeqEqual
<1>19. /\ Len(w) = h + size + 2 /\ w[4] = type
       /\ type = 3 => w[5] = size
       /\ \A i \in 1..size : w[h + i] = host[i]
       /\ w[h + size + 1] = port \div 256
       /\ w[h + size + 2] = port % 256
  <2>1. HostAt(t) = h
    BY <1>3, <1>16 DEF HostAt
  <2>2. /\ Len(w) = HostAt(t) + Len(t.host) + 2 /\ w[4] = t.type
        /\ t.type = 3 => w[5] = Len(t.host)
        /\ \A i \in 1..Len(t.host) : w[HostAt(t) + i] = t.host[i]
        /\ w[HostAt(t) + Len(t.host) + 1] = t.port \div 256
        /\ w[HostAt(t) + Len(t.host) + 2] = t.port % 256
    BY <1>17, HeaderBytes, Zenon
  <2> HIDE DEF t, w
  <2> QED
    BY <2>1, <2>2, <1>15, <1>16
<1> HIDE DEF t, w
<1>20. ASSUME NEW i \in 4..n
       PROVE  buffer[i] = w[i]
  <2>1. buffer[i] = e(i)
    <3>1. i \in 1..n
      BY <1>5
    <3> QED
      BY <3>1, <1>14
  <2>2. \/ i = 4 \/ (type = 3 /\ i = 5) \/ i \in (h + 1)..(h + size)
        \/ i = h + size + 1 \/ i = h + size + 2
    BY <1>1, <1>3, <1>5
  <2>3. CASE i \in (h + 1)..(h + size)
    <3>1. i - h \in 1..size /\ h + (i - h) = i
      BY <2>3, <1>1, <1>3
    <3> DEFINE j == i - h
    <3>2. w[h + j] = host[j] /\ host[j] = e(h + j)
      BY <3>1, <1>15, <1>19
    <3> QED
      BY <3>1, <3>2, <2>1
  <2> QED
    BY <2>1, <2>2, <2>3, <1>9, <1>10, <1>12, <1>19
<1>21. Len(buffer) = Len(w) /\ Follows(buffer, w)
  <2>1. Len(buffer) = n /\ Len(w) = n
    BY <1>5, <1>14, <1>19
  <2> QED
    BY <2>1, <1>20 DEF Follows
<1>22. host \in Seq(Nat) /\ Names(buffer, t) /\ (full => host = m.host)
  BY <1>14, <1>15, <1>17, <1>18, <1>21 DEF w, Names
<1> QED
  BY <1>22, Zenon DEF full, buffer, t, type, port

\* The header of a UDP answer, and the answer behind it.
Carries(buffer, t, payload) ==
    /\ Destination(t)
    /\ buffer \in Seq(Nat) /\ Len(buffer) = 10 + Len(payload)
    /\ Follows(buffer, Header(t)) /\ Len(Header(t)) = 10
    /\ SubSeq(buffer, 11, Len(buffer)) = payload

\* An answer of the UDP association is ten bytes of header with an IPv4 address,
\* and the payload behind it.
LEMMA ResponseIsHeader ==
    ASSUME NEW payload \in Seq(Nat), NEW address \in Seq(Nat), Len(address) = 4,
           NEW port \in Word
    PROVE  Carries(ConstructSocks5Response(payload, address, port),
                   [type |-> 1, host |-> address, port |-> port], payload)
<1> DEFINE buffer == ConstructSocks5Response(payload, address, port)
           t      == [type |-> 1, host |-> address, port |-> port]
           left   == <<0, 0>> \o <<0>>
           first  == left \o <<1>>
           bytes  == UInt16(port)
           header == (first \o address) \o bytes
           w      == Header(t)
           n      == Len(payload)
           rest   == SubSeq(buffer, 11, Len(buffer))
<1>1. first \in Seq(Nat) /\ Len(first) = 4 /\ first[4] = 1
  <2>1. <<0, 0>> \in Seq(Nat) /\ <<0>> \in Seq(Nat) /\ <<1>> \in Seq(Nat)
    OBVIOUS
  <2>2. Joins3(Nat, first, <<0, 0>>, <<0>>, <<1>>)
    BY <2>1, ThreeParts
  <2>3. Len(<<0, 0>>) = 2 /\ Len(<<0>>) = 1 /\ Len(<<1>>) = 1 /\ <<1>>[1] = 1
    OBVIOUS
  <2> HIDE DEF first
  <2>4. 1 \in 1..Len(<<1>>)
    BY <2>3
  <2>5. first[Len(<<0, 0>>) + Len(<<0>>) + 1] = <<1>>[1]
    BY <2>2, <2>4, Zenon DEF Joins3
  <2> QED
    BY <2>2, <2>3, <2>5 DEF Joins3
<1>2. /\ bytes \in Seq(Nat) /\ Len(bytes) = 2
      /\ bytes[1] = port \div 256 /\ bytes[2] = port % 256
  BY UInt16IsRead
<1>3. n \in Nat
  OBVIOUS
<1>4. buffer = header \o payload
  BY DEF ConstructSocks5Response
<1>5. Destination(t) /\ HostAt(t) = 4 /\ t.host = address /\ t.port = port /\ t.type = 1
  BY DEF Destination, HostAt
<1> HIDE DEF first, bytes, buffer, t, n
<1>6. Joins3(Nat, header, first, address, bytes)
  BY <1>1, <1>2, ThreeParts
<1> HIDE DEF header
<1>7. /\ header \in Seq(Nat) /\ Len(header) = 10
      /\ header[4] = 1
      /\ \A i \in 1..4 : header[4 + i] = address[i]
      /\ header[9] = port \div 256 /\ header[10] = port % 256
  BY <1>1, <1>2, <1>6 DEF Joins3
<1>8. Joins2(Nat, buffer, header, payload)
  BY <1>4, <1>7, TwoParts
<1>9. /\ buffer \in Seq(Nat) /\ Len(buffer) = 10 + n
      /\ \A i \in 1..10 : buffer[i] = header[i]
      /\ \A i \in 1..n : buffer[10 + i] = payload[i]
  BY <1>7, <1>8 DEF Joins2, n
<1>10. /\ Len(w) = 10
       /\ w[4] = 1
       /\ \A i \in 1..4 : w[4 + i] = address[i]
       /\ w[9] = port \div 256
       /\ w[10] = port % 256
  <2>1. /\ Len(w) = HostAt(t) + Len(t.host) + 2
        /\ w[4] = t.type
        /\ \A i \in 1..Len(t.host) : w[HostAt(t) + i] = t.host[i]
        /\ w[HostAt(t) + Len(t.host) + 1] = t.port \div 256
        /\ w[HostAt(t) + Len(t.host) + 2] = t.port % 256
    BY <1>5, HeaderBytes, Zenon
  <2>2. HostAt(t) = 4 /\ Len(t.host) = 4
    BY <1>5
  <2> DEFINE h == HostAt(t)
             k == Len(t.host)
  <2> HIDE DEF w, h, k
  <2>3. h = 4 /\ k = 4
    BY <2>2 DEF h, k
  <2>4. /\ Len(w) = h + k + 2
        /\ w[4] = t.type
        /\ \A i \in 1..k : w[h + i] = t.host[i]
        /\ w[h + k + 1] = t.port \div 256
        /\ w[h + k + 2] = t.port % 256
    BY <2>1 DEF h, k
  <2> QED
    BY <2>3, <2>4, <1>5
<1> HIDE DEF w
<1>11. ASSUME NEW i \in 4..10
       PROVE  buffer[i] = w[i]
  <2>1. buffer[i] = header[i]
    <3>1. i \in 1..10
      OBVIOUS
    <3> QED
      BY <3>1, <1>9, Zenon
  <2>2. CASE i \in 5..8
    <3>1. i - 4 \in 1..4 /\ 4 + (i - 4) = i
      BY <2>2
    <3> DEFINE j == i - 4
    <3>2. header[4 + j] = address[j] /\ w[4 + j] = address[j]
      BY <3>1, <1>7, <1>10
    <3> QED
      BY <3>1, <3>2, <2>1
  <2>3. i = 4 \/ i = 9 \/ i = 10 \/ i \in 5..8
    OBVIOUS
  <2> QED
    BY <2>1, <2>2, <2>3, <1>7, <1>10
<1>12. Follows(buffer, w)
  <2>1. \A i \in 4..Len(buffer) : i <= 10 => i \in 4..10
    BY <1>3, <1>9
  <2> QED
    BY <2>1, <1>10, <1>11 DEF Follows
<1>13. rest = payload
  <2>1. 10 + n <= Len(buffer) /\ 10 + 1 = 11 /\ 10 + n = Len(buffer)
    BY <1>3, <1>9
  <2>2. IsPart(SubSeq(buffer, 10 + 1, 10 + n), buffer, 10, n)
    BY <2>1, <1>3, <1>9, SubSeqIsPart
  <2>3. IsPart(rest, buffer, 10, n)
    BY <2>1, <2>2
  <2>4. IsPart(payload, buffer, 10, n)
    BY <1>9 DEF IsPart, n
  <2> QED
    BY <2>3, <2>4, SameParts
<1>14. Carries(buffer, t, payload)
  BY <1>5, <1>9, <1>10, <1>12, <1>13 DEF w, n, Carries
<1> QED
  BY <1>14, Zenon DEF buffer, t

\* Whoever gets a reply or a UDP answer can take it apart again.
THEOREM RepliesAreExact == WireSpec => []ReplyExact
<1>1. WireInv => ReplyExact
  <2> SUFFICES ASSUME WireInv PROVE ReplyExact
    OBVIOUS
  <2>1. ASSUME format = "reply"
        PROVE  LET read == ParseDestination(data)
               IN  /\ read # Throws
                   /\ PayloadStartIndex(data) = Len(data)
                   /\ read.type = meant.type /\ read.port = meant.port
                   /\ Full(meant) => read.host = meant.host
    <3>1. meant \in Bound /\ data = SendReply(0, meant.type, meant.text, meant.port)
      BY <2>1 DEF WireInv, WireInit
    <3>2. PICK host \in Seq(Nat) :
             /\ Names(data, [type |-> meant.type, host |-> host, port |-> meant.port])
             /\ Full(meant) => host = meant.host
      BY <3>1, ReplyIsHeader
    <3> DEFINE t == [type |-> meant.type, host |-> host, port |-> meant.port]
    <3>3. t.type = meant.type /\ t.host = host /\ t.port = meant.port
      OBVIOUS
    <3> HIDE DEF t
    <3>4. /\ Destination(t) /\ data \in Seq(Nat) /\ Follows(data, Header(t))
          /\ Len(data) = Len(Header(t)) /\ Len(data) \in Nat
      BY <3>2 DEF Names, t
    <3>5. ParseDestination(data) = Read(t)
      <4>1. ParseDestination(data) = IF Len(data) >= Len(Header(t)) THEN Read(t) ELSE Throws
        BY <3>4, ParseOfHeader
      <4> QED
        BY <3>4, <4>1
    <3>6. PayloadStartIndex(data) = Len(data)
      BY <3>4, HeaderIsFound
    <3>7. /\ Read(t) # Throws /\ Read(t).type = t.type /\ Read(t).port = t.port
          /\ Read(t).host = Host(t.type, t.host)
      <4>1. t \in [type : {1, 3, 4}, host : Seq(Nat), port : Word] /\ Word \subseteq Nat
        <5>1. t \in [type : {1, 3, 4}, host : Seq(Nat), port : Word]
          BY <3>4, Zenon DEF Destination
        <5>2. Word \subseteq Nat
          BY DEF Word
        <5> QED
          BY <5>1, <5>2
      <4>2. Host(t.type, t.host) \in Seq(Nat)
        BY <4>1, DecodedIs DEF Host
      <4>3. /\ Read(t) \in [type : {1, 3, 4}, host : Seq(Nat), port : Nat]
            /\ Read(t).type = t.type /\ Read(t).port = t.port
            /\ Read(t).host = Host(t.type, t.host)
        BY <4>1, <4>2 DEF Read
      <4> QED
        BY <4>3, WireAssumption, Zenon
    <3>8. Host(meant.type, meant.host) = meant.host
      <4>1. CASE meant.type = 3
        <5>1. meant.host \in ReplyNames
          BY <3>1, <4>1 DEF Bound
        <5>2. meant.host \in Seq(Nat) /\ \A i \in DOMAIN meant.host : meant.host[i] < 128
          <6>1. Byte \subseteq Nat
            BY DEF Byte
          <6> QED
            BY <5>1, <6>1, WireAssumption, SeqMonotonic DEF ReplyNames
        <5> QED
          BY <4>1, <5>2, AsciiIsItself DEF Host
      <4>2. CASE meant.type # 3
        BY <4>2 DEF Host
      <4> QED
        BY <4>1, <4>2
    <3> QED
      BY <3>2, <3>3, <3>5, <3>6, <3>7, <3>8, Zenon
  <2>2. ASSUME format = "response"
        PROVE  /\ ParseDestination(data) =
                    [type |-> 1, host |-> meant.address, port |-> meant.port]
               /\ SubSeq(data, PayloadStartIndex(data) + 1, Len(data)) = meant.payload
    <3> DEFINE t       == [type |-> 1, host |-> meant.address, port |-> meant.port]
               payload == meant.payload
               address == meant.address
               port    == meant.port
               n       == Len(payload)
    <3>1. /\ payload \in DomainNames /\ address \in IPv4Addresses /\ port \in Ports
          /\ data = ConstructSocks5Response(payload, address, port)
      BY <2>2 DEF WireInv, WireInit
    <3>2. payload \in Seq(Nat) /\ address \in Seq(Nat) /\ Len(address) = 4 /\ port \in Word
      <4>1. Byte \subseteq Nat /\ Ports \subseteq Word
        BY WireAssumption DEF Byte
      <4>2. payload \in Seq(Byte) /\ address \in Seq(Byte) /\ Len(address) = 4
        BY <3>1, WireAssumption, Zenon
      <4> HIDE DEF payload, address, port
      <4> QED
        BY <4>1, <4>2, <3>1, SeqMonotonic
    <3> HIDE DEF payload, address, port
    <3>3. Carries(data, [type |-> 1, host |-> address, port |-> port], payload)
      BY <3>1, <3>2, ResponseIsHeader
    <3> HIDE DEF t
    <3>4. /\ Destination(t) /\ data \in Seq(Nat) /\ Len(data) = 10 + n
          /\ Follows(data, Header(t)) /\ Len(Header(t)) = 10
          /\ SubSeq(data, 11, Len(data)) = payload
      BY <3>3 DEF Carries, t, address, port
    <3> HIDE DEF n
    <3>5. Len(data) >= Len(Header(t))
      <4>1. n \in Nat
        BY <3>2 DEF n
      <4> QED
        BY <3>4, <4>1
    <3>6. ParseDestination(data) = t
      <4>1. ParseDestination(data) = IF Len(data) >= Len(Header(t)) THEN Read(t) ELSE Throws
        BY <3>4, ParseOfHeader
      <4>2. Read(t) = t
        BY DEF t, Read, Host
      <4> QED
        BY <3>5, <4>1, <4>2, Zenon
    <3>7. PayloadStartIndex(data) + 1 = 11
      <4>1. PayloadStartIndex(data) = Len(Header(t))
        BY <3>4, <3>5, HeaderIsFound
      <4> QED
        BY <3>4, <4>1
    <3> QED
      BY <3>4, <3>6, <3>7, Zenon DEF t, payload
  <2> QED
    BY <2>1, <2>2 DEF ReplyExact, Full
<1> QED
  BY <1>1, WireInvariant, PTL

-----------------------------------------------------------------------------
(* Users and passwords *)

\* A buffer that has the bytes of an authentication message, as far as either of
\* them goes, and what authenticateSocks5 should make of it.
Says(buffer, u, w) ==
    LET m == AuthMessage([user |-> u, password |-> w])
    IN  \A i \in 1..Len(buffer) : i <= Len(m) => buffer[i] = m[i]

Judged(buffer, u, w) ==
    IF Len(buffer) >= Len(AuthMessage([user |-> u, password |-> w]))
    THEN AuthenticateSocks5(buffer) = Valid(Decoded(u), Decoded(w))
    ELSE AuthenticateSocks5(buffer) =>
           \E n \in 0..(Len(w) - 1) : StoredPassword(Decoded(u)) = Decoded(SubSeq(w, 1, n))

\* It judges a message or a piece of it as it should.
LEMMA AuthenticateOfMessage ==
    ASSUME NEW u \in Seq(Nat), NEW w \in Seq(Nat), NEW buffer \in Seq(Nat),
           Says(buffer, u, w)
    PROVE  Judged(buffer, u, w)
<1> DEFINE m        == AuthMessage([user |-> u, password |-> w])
           n        == Len(u)
           k        == Len(w)
           size     == Len(buffer)
           username == Slice(buffer, 2, n)
           password == Slice(buffer, 3 + n, k)
<1>1. /\ Len(m) = 3 + n + k
      /\ m[2] = n
      /\ \A i \in 1..n : m[2 + i] = u[i]
      /\ m[3 + n] = k
      /\ \A i \in 1..k : m[3 + n + i] = w[i]
  BY AuthMessageBytes, Zenon
<1>2. \A i \in 1..size : i <= Len(m) => buffer[i] = m[i]
  BY DEF Says
<1>3. n \in Nat /\ k \in Nat /\ size \in Nat /\ Len(u) = n /\ Len(w) = k /\ Len(buffer) = size
  OBVIOUS
<1> HIDE DEF m, n, k, size
<1>4. CASE size < 2
  <2>1. At(buffer, 1) = Undefined
    BY <1>3, <1>4 DEF At
  <2>2. ~AuthenticateSocks5(buffer)
    BY <2>1 DEF AuthenticateSocks5
  <2>3. ~(size >= Len(m))
    BY <1>1, <1>3, <1>4
  <2> QED
    BY <2>2, <2>3, <1>3, Zenon DEF Judged, m
<1>5. ASSUME size >= 2
      PROVE  At(buffer, 1) = n /\ At(buffer, 1) # Undefined
  <2>1. 2 \in 1..size /\ 2 <= Len(m) /\ 1 < size /\ 1 + 1 = 2
    BY <1>1, <1>3, <1>5
  <2>2. At(buffer, 1) = n
    BY <2>1, <1>1, <1>2, <1>3 DEF At
  <2> QED
    BY <2>2, <1>3 DEF Undefined
<1>6. CASE size >= 2 /\ size <= 2 + n
  <2>1. At(buffer, 2 + n) = Undefined
    BY <1>3, <1>6 DEF At
  <2>2. Slice(buffer, 3 + n, Undefined) = <<>>
    BY DEF Slice
  <2>3. ~AuthenticateSocks5(buffer)
    <3>1. Decoded(<<>>) = <<>>
      <4>1. <<>> \in Seq(Nat) /\ DOMAIN <<>> = {}
        OBVIOUS
      <4> QED
        BY <4>1, AsciiIsItself
    <3>2. AuthenticateSocks5(buffer) =>
             Valid(Decoded(Slice(buffer, 2, n)), Decoded(Slice(buffer, 3 + n, Undefined)))
      BY <2>1, <1>5, <1>6 DEF AuthenticateSocks5
    <3> QED
      BY <3>1, <3>2, <2>2, Zenon DEF Valid
  <2>4. ~(size >= Len(m))
    BY <1>1, <1>3, <1>6
  <2> QED
    BY <2>3, <2>4, <1>3, Zenon DEF Judged, m
<1>7. CASE size > 2 + n
  <2>1. At(buffer, 2 + n) = k
    <3> DEFINE j == 2 + n
    <3>1. j + 1 \in 1..size /\ j + 1 <= Len(m) /\ j < size /\ j + 1 = 3 + n
      BY <1>1, <1>3, <1>7
    <3> HIDE DEF j
    <3>2. At(buffer, j) = k
      BY <3>1, <1>1, <1>2, <1>3 DEF At
    <3> QED
      BY <3>2 DEF j
  <2>2. At(buffer, 1) = n /\ At(buffer, 1) # Undefined
    BY <1>3, <1>5, <1>7
  <2>3. AuthenticateSocks5(buffer) = Valid(Decoded(username), Decoded(password))
    <3> HIDE DEF Valid
    <3>1. AuthenticateSocks5(buffer) =
             (n # Undefined /\ Valid(Decoded(Slice(buffer, 2, n)), Decoded(Slice(buffer, 3 + n, k))))
      BY <2>1, <2>2, Zenon DEF AuthenticateSocks5
    <3>2. Valid(Decoded(username), Decoded(password)) \in BOOLEAN
      BY DEF Valid
    <3> QED
      BY <3>1, <3>2, <2>2
  <2>4. username = u
    <3>1. IsPart(username, buffer, 2, n)
      <4>1. 2 + n <= Len(buffer)
        BY <1>3, <1>7
      <4> QED
        BY <4>1, <1>3, SliceWithin
    <3>2. ASSUME NEW i \in 1..n
          PROVE  u[i] = buffer[2 + i]
      <4>1. 2 + i \in 1..size /\ 2 + i <= Len(m)
        BY <1>1, <1>3, <1>7
      <4> QED
        BY <4>1, <1>1, <1>2
    <3>3. IsPart(u, buffer, 2, n)
      BY <3>2, <1>3 DEF IsPart
    <3> QED
      BY <3>1, <3>3, SameParts
  <2>5. ASSUME NEW i \in 1..k, 3 + n + i <= size
        PROVE  w[i] = buffer[3 + n + i]
    <3> DEFINE j == 3 + n + i
    <3>1. j \in 1..size /\ j <= Len(m)
      BY <2>5, <1>1, <1>3
    <3>2. buffer[j] = m[j]
      BY <3>1, <1>2
    <3> QED
      BY <3>2, <1>1
  <2>6. CASE size >= Len(m)
    <3>1. 3 + n \in Nat /\ (3 + n) + k <= size
      BY <2>6, <1>1, <1>3
    <3>2. IsPart(password, buffer, 3 + n, k)
      BY <3>1, <1>3, SliceWithin
    <3>3. ASSUME NEW i \in 1..k
          PROVE  w[i] = buffer[3 + n + i]
      <4>1. 3 + n + i <= size
        BY <3>1, <1>3
      <4> QED
        BY <4>1, <2>5
    <3>4. IsPart(w, buffer, 3 + n, k)
      BY <3>3, <1>3 DEF IsPart
    <3>5. password = w
      BY <3>2, <3>4, SameParts
    <3>6. AuthenticateSocks5(buffer) = Valid(Decoded(u), Decoded(w))
      BY <3>5, <2>3, <2>4, Zenon
    <3> QED
      BY <3>6, <2>6, <1>3, Zenon DEF Judged, m
  <2>7. CASE size < Len(m)
    <3> DEFINE left == size - (3 + n)
               from == 3 + n
    <3>1. left \in Nat /\ from \in Nat /\ from + left = size /\ left < k
      BY <2>7, <1>1, <1>3, <1>7
    <3> HIDE DEF left
    <3>2. IsPart(password, buffer, 3 + n, left)
      BY <3>1, <1>3, SliceBeyond
    <3>3. ASSUME NEW i \in 1..left
          PROVE  password[i] = w[0 + i]
      <4>1. i \in 1..k /\ 3 + n + i <= size /\ 0 + i = i
        BY <3>1, <1>3
      <4>2. password[i] = buffer[3 + n + i]
        BY <3>2 DEF IsPart
      <4> QED
        BY <4>1, <4>2, <2>5
    <3>4. IsPart(password, w, 0, left)
      BY <3>2, <3>3 DEF IsPart
    <3>5. password = SubSeq(w, 1, left) /\ left \in 0..(Len(w) - 1)
      <4>1. 0 + left <= Len(w) /\ 0 + 1 = 1 /\ 0 + left = left /\ left \in 0..(Len(w) - 1)
        BY <3>1, <1>3
      <4>2. IsPart(SubSeq(w, 0 + 1, 0 + left), w, 0, left)
        BY <3>1, <4>1, SubSeqIsPart
      <4>3. IsPart(SubSeq(w, 1, left), w, 0, left)
        BY <4>1, <4>2
      <4> HIDE DEF password
      <4>4. password = SubSeq(w, 1, left)
        BY <3>4, <4>3, SameParts
      <4> QED
        BY <4>1, <4>4
    <3>6. AuthenticateSocks5(buffer) => StoredPassword(Decoded(u)) = Decoded(password)
      BY <2>3, <2>4 DEF Valid
    <3>7. ~(size >= Len(m))
      BY <2>7, <1>1, <1>3
    <3> HIDE DEF password
    <3> QED
      BY <3>5, <3>6, <3>7, <1>3, Zenon DEF Judged, m
  <2> QED
    BY <2>6, <2>7, <1>1, <1>3
<1> QED
  BY <1>3, <1>4, <1>6, <1>7

-----------------------------------------------------------------------------
(* Texts that are split at colons *)

\* Two elements are two.
LEMMA TwoElements ==
    ASSUME NEW a, NEW b, a # b
    PROVE  Cardinality({a} \cup {b}) = 2
<1> DEFINE one == {a}
           two == one \cup {b}
<1>1. IsFiniteSet(one) /\ Cardinality(one) = 1
  BY FS_Singleton, Zenon
<1>2. b \notin one
  OBVIOUS
<1> HIDE DEF one
<1>3. Cardinality(two) = Cardinality(one) + 1
  BY <1>1, <1>2, FS_AddElement
<1> HIDE DEF two
<1>4. Cardinality(two) = 2
  BY <1>1, <1>3
<1> QED
  BY <1>4 DEF one, two

\* Where the fields of a text end.
LEMMA EndsOfFields ==
    ASSUME NEW text \in Seq(Nat)
    PROVE  /\ IsFiniteSet(Ends(text)) /\ Ends(text) \subseteq 1..(Len(text) + 1)
           /\ \A i \in 1..(Len(text) + 1) :
                 i \in Ends(text) <=> i = Len(text) + 1 \/ text[i] = Colon
<1>1. Ends(text) \subseteq 1..(Len(text) + 1) /\ Len(text) \in Nat
  BY DEF Ends
<1>2. IsFiniteSet(1..(Len(text) + 1))
  BY <1>1, FS_Interval
<1>3. \A i \in 1..(Len(text) + 1) :
         i \in Ends(text) <=> i = Len(text) + 1 \/ text[i] = Colon
  BY DEF Ends
<1> QED
  BY <1>1, <1>2, <1>3, FS_Subset

\* A field goes from one end to the next.
IsField(text, k, b, e) ==
    /\ Len(Fields(text)) = Cardinality(Ends(text))
    /\ k \in 1..Len(Fields(text))
    /\ Fields(text)[k] = SubSeq(text, b + 1, e - 1)

\* Which one it is, is how many ends there are up to its own.
LEMMA FieldIs ==
    ASSUME NEW text \in Seq(Nat), NEW e \in Ends(text), NEW b \in Ends(text) \cup {0},
           b < e, \A i \in Ends(text) : i <= b \/ i >= e,
           NEW k, k = Cardinality({j \in Ends(text) : j <= e})
    PROVE  IsField(text, k, b, e)
<1> DEFINE ends == Ends(text)
           upTo == {j \in ends : j <= e}
           n    == Cardinality(ends)
<1>1. IsFiniteSet(ends) /\ ends \in SUBSET Int /\ \A i \in ends : i >= 1
  BY EndsOfFields
<1>2. k \in 1..n /\ n \in Nat
  <2>1. upTo \subseteq ends /\ upTo # {} /\ k = Cardinality(upTo)
    BY <1>1
  <2> HIDE DEF upTo, ends
  <2>2. IsFiniteSet(upTo) /\ Cardinality(upTo) <= Cardinality(ends)
    BY <2>1, <1>1, FS_Subset
  <2>3. k \in Nat /\ n \in Nat /\ k # 0
    BY <2>1, <2>2, <1>1, FS_CardinalityType, FS_EmptySet
  <2> QED
    BY <2>1, <2>2, <2>3
<1>3. Fields(text) = [i \in 1..n |-> SubSeq(text, Start(text, Nth(ends, i)), Nth(ends, i) - 1)]
  BY DEF Fields
<1>4. Nth(ends, k) = e
  BY <1>1, NthIs
<1>5. Start(text, e) = b + 1
  <2> DEFINE before == {i \in ends : i < e} \cup {0}
  <2>1. before \in SUBSET Int /\ b \in before /\ \A y \in before : y <= b
    <3>1. b \in Int /\ b >= 0 /\ e \in Int
      BY <1>1
    <3>2. b \in before
      BY <3>1
    <3>3. ASSUME NEW y \in before
          PROVE  y \in Int /\ y <= b
      <4>1. y = 0 \/ (y \in ends /\ y < e /\ y \in Int)
        BY <1>1
      <4> QED
        BY <4>1, <3>1
    <3> QED
      BY <3>2, <3>3
  <2> HIDE DEF before
  <2>2. Max(before) = b
    BY <2>1, MaxIs
  <2> QED
    BY <2>2 DEF Start, before
<1>6. Len(Fields(text)) = n
  BY <1>2, <1>3
<1> HIDE DEF ends
<1>7. Fields(text)[k] = SubSeq(text, b + 1, e - 1)
  BY <1>2, <1>3, <1>4, <1>5
<1> QED
  BY <1>2, <1>6, <1>7 DEF ends, IsField

\* The first field goes to the first end.
LEMMA FirstField ==
    ASSUME NEW text \in Seq(Nat), NEW e \in Ends(text), \A i \in Ends(text) : i >= e
    PROVE  IsField(text, 1, 0, e)
<1>1. Ends(text) \subseteq Int /\ e \in Int /\ e >= 1
  BY EndsOfFields
<1>2. {j \in Ends(text) : j <= e} = {e}
  BY <1>1
<1>3. Cardinality({e}) = 1
  BY FS_Singleton
<1>4. 1 = Cardinality({j \in Ends(text) : j <= e})
  BY <1>2, <1>3
<1>5. 0 \in Ends(text) \cup {0} /\ 0 < e /\ \A i \in Ends(text) : i <= 0 \/ i >= e
  BY <1>1
<1> QED
  BY <1>4, <1>5, FieldIs

\* The second one goes from there to the second.
LEMMA SecondField ==
    ASSUME NEW text \in Seq(Nat), NEW b \in Ends(text), NEW e \in Ends(text), b < e,
           \A i \in Ends(text) : i = b \/ i >= e
    PROVE  IsField(text, 2, b, e)
<1>1. Ends(text) \subseteq Int /\ b \in Int /\ e \in Int
  BY EndsOfFields
<1>2. {j \in Ends(text) : j <= e} = {b} \cup {e}
  BY <1>1
<1>3. Cardinality({b} \cup {e}) = 2
  <2>1. b # e
    BY <1>1
  <2> QED
    BY <2>1, TwoElements
<1>4. 2 = Cardinality({j \in Ends(text) : j <= e})
  BY <1>2, <1>3
<1>5. \A i \in Ends(text) : i <= b \/ i >= e
  BY <1>1
<1> QED
  BY <1>4, <1>5, FieldIs

\* The last one goes to the end of the text.
LEMMA LastField ==
    ASSUME NEW text \in Seq(Nat), NEW b \in Ends(text), b <= Len(text),
           \A i \in Ends(text) : i <= b \/ i = Len(text) + 1
    PROVE  /\ Len(Fields(text)) >= 2
           /\ Last(Fields(text)) = SubSeq(text, b + 1, Len(text))
<1> DEFINE n == Len(text)
           e == n + 1
           k == Cardinality(Ends(text))
<1>1. /\ n \in Nat /\ b \in Int /\ e \in Ends(text) /\ IsFiniteSet(Ends(text))
      /\ \A i \in Ends(text) : i \in Int /\ i <= e
  BY EndsOfFields
<1>2. b < e /\ b # e /\ e - 1 = n
  BY <1>1
<1> HIDE DEF n
<1>3. {j \in Ends(text) : j <= e} = Ends(text)
  BY <1>1
<1>4. \A i \in Ends(text) : i <= b \/ i >= e
  BY <1>1 DEF n
<1>5. IsField(text, k, b, e)
  BY <1>1, <1>2, <1>3, <1>4, FieldIs
<1>6. k \in Nat /\ k >= 2
  <2>2. Cardinality({b} \cup {e}) = 2
    BY <1>2, TwoElements
  <2>3. {b} \cup {e} \subseteq Ends(text)
    BY <1>1
  <2>4. Cardinality({b} \cup {e}) <= k
    BY <2>3, <1>1, FS_Subset
  <2>5. k \in Nat
    BY <1>1, FS_CardinalityType
  <2> QED
    BY <2>2, <2>4, <2>5
<1> HIDE DEF k, e
<1>7. Len(Fields(text)) = k /\ Fields(text)[k] = SubSeq(text, b + 1, n)
  BY <1>2, <1>5 DEF IsField, k
<1> QED
  BY <1>6, <1>7 DEF Last, n

\* A text that is put together of two with a colon between them.
IsJoined(text, u, p) ==
    LET c == Len(u) + 1
    IN  /\ text \in Seq(Nat) /\ Len(text) = c + Len(p)
        /\ \A i \in 1..Len(u) : text[i] = u[i]
        /\ text[c] = Colon
        /\ \A i \in 1..Len(p) : text[c + i] = p[i]

\* The text a user and a password are joined to has the colon behind the user.
LEMMA Joined ==
    ASSUME NEW u \in Seq(Nat), NEW p \in Seq(Nat)
    PROVE  IsJoined((u \o <<Colon>>) \o p, u, p)
<1> DEFINE text == (u \o <<Colon>>) \o p
           mid  == <<Colon>>
<1>1. mid \in Seq(Nat) /\ Len(mid) = 1 /\ mid[1] = Colon /\ Len(u) \in Nat /\ Len(p) \in Nat
  BY DEF Colon
<1>2. text = (u \o mid) \o p
  OBVIOUS
<1> HIDE DEF mid
<1>3. Joins3(Nat, text, u, mid, p)
  BY <1>1, <1>2, ThreeParts
<1> HIDE DEF text
<1>4. text \in Seq(Nat) /\ Len(text) = (Len(u) + 1) + Len(p)
  BY <1>1, <1>3 DEF Joins3
<1>5. text[Len(u) + 1] = Colon
  BY <1>1, <1>3 DEF Joins3
<1>6. \A i \in 1..Len(p) : text[(Len(u) + 1) + i] = p[i]
  BY <1>1, <1>3 DEF Joins3
<1> QED
  BY <1>3, <1>4, <1>5, <1>6 DEF IsJoined, Joins3, text

\* Its ends are the colon, at c, and those of the two.
EndsAt(text, u, p, c) ==
    /\ c \in Nat /\ text \in Seq(Nat) /\ c \in Ends(text)
    /\ \A i \in Ends(p) : i >= 1 /\ c + i \in Ends(text)
    /\ \A i \in Ends(text) : i > c => i - c \in Ends(p)
    /\ (\A i \in DOMAIN u : u[i] # Colon) => \A i \in Ends(text) : i >= c
    /\ SubSeq(text, 1, c - 1) = u
    /\ \A n \in 0..Len(p) : SubSeq(text, c + 1, c + n) = SubSeq(p, 1, n)

\* The ends of the fields of a joined text are the colon and, moved behind it, the
\* ends of the second part.
LEMMA EndsOfJoined ==
    ASSUME NEW u \in Seq(Nat), NEW p \in Seq(Nat), NEW text, IsJoined(text, u, p)
    PROVE  EndsAt(text, u, p, Len(u) + 1)
<1> DEFINE c == Len(u) + 1
           k == Len(p)
<1>1. /\ text \in Seq(Nat) /\ Len(text) = c + k /\ text[c] = Colon
      /\ \A i \in 1..Len(u) : text[i] = u[i]
      /\ \A i \in 1..k : text[c + i] = p[i]
  BY Zenon DEF IsJoined
<1>2. k \in Nat /\ c \in Nat /\ c >= 1 /\ Len(u) = c - 1 /\ c - 1 \in Nat
  OBVIOUS
<1>3. DOMAIN u = 1..(c - 1)
  BY <1>2
<1> HIDE DEF c, k
<1>4. \A i \in 1..(c + k + 1) : i \in Ends(text) <=> i = c + k + 1 \/ text[i] = Colon
  BY <1>1, EndsOfFields
<1>5. Ends(text) \subseteq 1..(c + k + 1)
  BY <1>1, EndsOfFields
<1>6. /\ \A i \in 1..(k + 1) : i \in Ends(p) <=> i = k + 1 \/ p[i] = Colon
      /\ Ends(p) \subseteq 1..(k + 1)
  BY EndsOfFields DEF k
<1>7. c \in Ends(text)
  BY <1>1, <1>2, <1>4
<1>8. ASSUME NEW i \in Ends(p)
      PROVE  i >= 1 /\ c + i \in Ends(text)
  <2>1. i \in 1..(k + 1) /\ c + i \in 1..(c + k + 1)
    BY <1>2, <1>6
  <2>2. i = k + 1 \/ (i \in 1..k /\ p[i] = Colon)
    BY <2>1, <1>2, <1>6
  <2>3. c + i = c + k + 1 \/ text[c + i] = Colon
    BY <2>2, <1>1, <1>2
  <2> QED
    BY <2>1, <2>3, <1>4
<1>9. ASSUME NEW i \in Ends(text), i > c
      PROVE  i - c \in Ends(p)
  <2> DEFINE j == i - c
  <2>1. i \in 1..(c + k + 1) /\ j \in 1..(k + 1) /\ i = c + j
    BY <1>2, <1>5, <1>9
  <2> HIDE DEF j
  <2>2. j = k + 1 \/ (j \in 1..k /\ text[c + j] = Colon)
    BY <2>1, <1>2, <1>4
  <2>3. j = k + 1 \/ p[j] = Colon
    BY <2>2, <1>1
  <2>4. j \in Ends(p)
    BY <2>1, <2>3, <1>6
  <2> QED
    BY <2>4 DEF j
<1>10. ASSUME \A i \in DOMAIN u : u[i] # Colon, NEW i \in Ends(text)
       PROVE  i >= c
  <2> SUFFICES ASSUME ~(i >= c) PROVE FALSE
    OBVIOUS
  <2>1. i \in 1..(c + k + 1) /\ i \in 1..(c - 1) /\ i # c + k + 1
    BY <1>2, <1>5
  <2>2. text[i] = Colon
    BY <2>1, <1>4
  <2>3. text[i] = u[i] /\ u[i] # Colon
    BY <2>1, <1>1, <1>2, <1>3, <1>10
  <2> QED
    BY <2>2, <2>3
<1>11. SubSeq(text, 1, c - 1) = u
  <2> DEFINE n == c - 1
  <2>1. n \in Nat /\ 0 + n <= Len(text) /\ 0 + 1 = 1 /\ 0 + n = n /\ Len(u) = n
    BY <1>1, <1>2
  <2> HIDE DEF n
  <2>2. IsPart(SubSeq(text, 1, n), text, 0, n)
    BY <2>1, <1>1, SubSeqIsPart
  <2>3. IsPart(u, text, 0, n)
    <3>1. ASSUME NEW i \in 1..n
          PROVE  u[i] = text[0 + i]
      <4>1. 0 + i = i
        BY <2>1
      <4> QED
        BY <4>1, <2>1, <1>1
    <3> QED
      BY <3>1, <2>1 DEF IsPart
  <2>4. SubSeq(text, 1, n) = u
    BY <2>2, <2>3, SameParts
  <2> QED
    BY <2>4 DEF n
<1>12. ASSUME NEW n \in 0..k
       PROVE  SubSeq(text, c + 1, c + n) = SubSeq(p, 1, n)
  <2>1. n \in Nat /\ c + n <= Len(text) /\ 0 + n <= Len(p) /\ 0 + 1 = 1 /\ 0 + n = n
    BY <1>1, <1>2 DEF k
  <2>2. IsPart(SubSeq(text, c + 1, c + n), text, c, n)
    BY <2>1, <1>1, <1>2, SubSeqIsPart
  <2>3. IsPart(SubSeq(p, 0 + 1, 0 + n), p, 0, n)
    BY <2>1, SubSeqIsPart
  <2>4. ASSUME NEW i \in 1..n
        PROVE  p[0 + i] = text[c + i]
    <3>1. i \in 1..k /\ 0 + i = i
      BY <1>2
    <3> QED
      BY <3>1, <1>1
  <2>5. IsPart(SubSeq(p, 1, n), text, c, n)
    BY <2>1, <2>3, <2>4 DEF IsPart
  <2> QED
    BY <2>2, <2>5, SameParts
<1>13. EndsAt(text, u, p, c)
  BY <1>1, <1>2, <1>7, <1>8, <1>9, <1>10, <1>11, <1>12 DEF k, EndsAt
<1> QED
  BY <1>13 DEF c

\* Bytes that end where the text ends or a colon follows become the same codes,
\* wherever they are.
LEMMA UnitsMoved ==
    ASSUME NEW u \in Seq(Nat), NEW w \in Seq(Nat), NEW c \in Nat,
           c + Len(u) <= Len(w), \A i \in 1..Len(u) : w[c + i] = u[i],
           c + Len(u) < Len(w) => w[c + Len(u) + 1] = Colon,
           NEW i \in 1..Len(u)
    PROVE  /\ UnitLength(w, c + i) = UnitLength(u, i)
           /\ CodePoint(w, c + i) = CodePoint(u, i)
<1> DEFINE k == Len(u)
           m == Len(w)
           L == SequenceLength(u[i])
<1>1. k \in Nat /\ m \in Nat /\ i \in 1..k /\ c + k <= m
  OBVIOUS
<1>2. /\ c + k < m => w[c + k + 1] = Colon
      /\ \A j \in 1..k : w[c + j] = u[j]
      /\ w[c + i] = u[i]
  OBVIOUS
<1>3. L \in 1..4
  BY UnitIsReached
<1> HIDE DEF k, m
<1>4. ASSUME NEW n \in 1..L, i + n <= k + 1, NEW j \in 2..n
      PROVE  w[(c + i) + j - 1] = u[i + j - 1]
  <2>1. i + j - 1 \in 1..k /\ c + (i + j - 1) = (c + i) + j - 1
    BY <1>1, <1>3, <1>4
  <2> QED
    BY <2>1, <1>2
<1>5. ASSUME NEW n \in 1..L,
             (c + i) + n <= m + 1,
             \A j \in 2..n : w[(c + i) + j - 1] \in Continuations(u[i], j)
      PROVE  i + n <= k + 1
  <2> SUFFICES ASSUME ~(i + n <= k + 1) PROVE FALSE
    OBVIOUS
  <2> DEFINE j == k - i + 2
  <2>1. j \in 2..n /\ (c + i) + j - 1 = c + k + 1 /\ c + k < m
    BY <1>1, <1>3, <1>5
  <2>2. w[c + k + 1] \in Continuations(u[i], j)
    BY <2>1, <1>5
  <2>3. w[c + k + 1] \in 128..191
    BY <2>2 DEF Continuations
  <2>4. Colon \notin 128..191
    BY DEF Colon
  <2>5. w[c + k + 1] = Colon
    BY <2>1, <1>2
  <2> QED
    BY <2>3, <2>4, <2>5, Zenon
<1>6. Reaches(w, c + i) = Reaches(u, i)
  <2>1. Reaches(w, c + i) =
           {n \in 1..L : /\ (c + i) + n <= m + 1
                         /\ \A j \in 2..n : w[(c + i) + j - 1] \in Continuations(u[i], j)}
    BY <1>2, Zenon DEF Reaches, m
  <2>2. Reaches(u, i) =
           {n \in 1..L : /\ i + n <= k + 1
                         /\ \A j \in 2..n : u[i + j - 1] \in Continuations(u[i], j)}
    BY Zenon DEF Reaches, k
  <2>3. ASSUME NEW n \in 1..L
        PROVE  (/\ (c + i) + n <= m + 1
                /\ \A j \in 2..n : w[(c + i) + j - 1] \in Continuations(u[i], j))
               <=>
               (/\ i + n <= k + 1
                /\ \A j \in 2..n : u[i + j - 1] \in Continuations(u[i], j))
    <3>1. i + n <= k + 1 => (c + i) + n <= m + 1
      BY <1>1, <1>3
    <3> QED
      BY <3>1, <1>4, <1>5, Zenon
  <2> HIDE DEF L
  <2> QED
    BY <2>1, <2>2, <2>3, Zenon
<1>7. UnitLength(w, c + i) = UnitLength(u, i)
  BY <1>6, Zenon DEF UnitLength
<1> DEFINE n == UnitLength(u, i)
<1>8. n \in 1..L /\ i + n <= k + 1
  BY UnitIsReached DEF Reaches, k
<1> HIDE DEF n
<1>9. \A j \in 2..n : w[(c + i) + j - 1] = u[i + j - 1]
  BY <1>4, <1>8
<1>10. CodePoint(w, c + i) = CodePoint(u, i)
  <2> DEFINE Code(b, l, l2, l3, l4) ==
                IF l < SequenceLength(b) \/ b \in 128..193 \/ b > 244 THEN Replacement
                ELSE CASE l = 1 -> b
                       [] l = 2 -> 64 * (b - 192) + l2
                       [] l = 3 -> 4096 * (b - 224) + 64 * l2 + l3
                       [] l = 4 -> 262144 * (b - 240) + 4096 * l2 + 64 * l3 + l4
             bw == w[c + i]
             nw == UnitLength(w, c + i)
             w2 == w[(c + i) + 2 - 1] - 128
             w3 == w[(c + i) + 3 - 1] - 128
             w4 == w[(c + i) + 4 - 1] - 128
             bu == u[i]
             u2 == u[i + 2 - 1] - 128
             u3 == u[i + 3 - 1] - 128
             u4 == u[i + 4 - 1] - 128
  <2>1. CodePoint(w, c + i) = Code(bw, nw, w2, w3, w4)
    BY DEF CodePoint
  <2>2. CodePoint(u, i) = Code(bu, n, u2, u3, u4)
    BY DEF CodePoint, n
  <2>3. bw = bu /\ nw = n
    BY <1>2, <1>7 DEF n
  <2>4. n \in 1..4
    <3> HIDE DEF L
    <3> QED
      BY <1>3, <1>8
  <2>5. ASSUME n >= 2 PROVE w2 = u2
    <3>1. 2 \in 2..n
      BY <2>4, <2>5
    <3> QED
      BY <3>1, <1>9, Zenon
  <2>6. ASSUME n >= 3 PROVE w3 = u3
    <3>1. 3 \in 2..n
      BY <2>4, <2>6
    <3> QED
      BY <3>1, <1>9, Zenon
  <2>7. ASSUME n >= 4 PROVE w4 = u4
    <3>1. 4 \in 2..n
      BY <2>4, <2>7
    <3> QED
      BY <3>1, <1>9, Zenon
  <2> HIDE DEF bw, nw, bu, w2, w3, w4, u2, u3, u4
  <2>8. Code(bu, n, w2, w3, w4) = Code(bu, n, u2, u3, u4)
    <3>1. CASE n = 1
      BY <3>1
    <3>2. CASE n = 2
      BY <3>2, <2>5
    <3>3. CASE n = 3
      BY <3>3, <2>5, <2>6
    <3>4. CASE n = 4
      BY <3>4, <2>5, <2>6, <2>7
    <3> QED
      BY <3>1, <3>2, <3>3, <3>4, <2>4
  <2> HIDE DEF Code
  <2> QED
    BY <2>1, <2>2, <2>3, <2>8, Zenon
<1> QED
  BY <1>7, <1>10

\* Where its units start.
StartsAt(text, u, p, c) ==
    /\ Starts(text) \subseteq 1..(c + Len(p)) /\ c \in Starts(text)
    /\ CodePoint(text, c) = Colon
    /\ \A i \in 1..Len(u) : /\ i \in Starts(text) <=> i \in Starts(u)
                            /\ CodePoint(text, i) = CodePoint(u, i)
    /\ \A i \in 1..Len(p) : /\ c + i \in Starts(text) <=> i \in Starts(p)
                            /\ CodePoint(text, c + i) = CodePoint(p, i)

\* No unit goes over the colon, so the units are those of the two parts.
LEMMA StartsOfJoined ==
    ASSUME NEW u \in Seq(Nat), NEW p \in Seq(Nat), NEW text, IsJoined(text, u, p)
    PROVE  StartsAt(text, u, p, Len(u) + 1)
<1> DEFINE c == Len(u) + 1
           k == Len(p)
<1>1. /\ text \in Seq(Nat) /\ Len(text) = c + k /\ text[c] = Colon
      /\ \A i \in 1..Len(u) : text[i] = u[i]
      /\ \A i \in 1..k : text[c + i] = p[i]
  BY Zenon DEF IsJoined
<1>2. k \in Nat /\ c \in Nat /\ c >= 1 /\ Len(u) = c - 1 /\ c - 1 \in Nat /\ c \in 1..(c + k)
  OBVIOUS
<1>3. ASSUME NEW i \in 1..(c - 1)
      PROVE  /\ UnitLength(text, i) = UnitLength(u, i) /\ CodePoint(text, i) = CodePoint(u, i)
             /\ UnitLength(u, i) \in Nat /\ i + UnitLength(u, i) <= c
  <2>1. UnitLength(u, i) \in Nat /\ i + UnitLength(u, i) <= Len(u) + 1
    <3>1. UnitLength(u, i) \in Reaches(u, i) /\ SequenceLength(u[i]) \in 1..4
      BY <1>2, UnitIsReached
    <3> QED
      BY <3>1 DEF Reaches
  <2>2. /\ 0 \in Nat /\ 0 + Len(u) <= Len(text)
        /\ 0 + Len(u) + 1 = c /\ 0 + i = i /\ i \in 1..Len(u)
    <3> HIDE DEF c, k
    <3> QED
      BY <1>1, <1>2
  <2>3. \A j \in 1..Len(u) : text[0 + j] = u[j]
    <3>1. \A j \in 1..Len(u) : 0 + j = j
      OBVIOUS
    <3> QED
      BY <3>1, <1>1
  <2>4. 0 + Len(u) < Len(text) => text[0 + Len(u) + 1] = Colon
    BY <2>2, <1>1, Zenon
  <2>5. UnitLength(text, 0 + i) = UnitLength(u, i) /\ CodePoint(text, 0 + i) = CodePoint(u, i)
    BY <1>1, <2>2, <2>3, <2>4, UnitsMoved
  <2> QED
    BY <2>1, <2>2, <2>5
<1>4. ASSUME NEW i \in 1..k
      PROVE  /\ UnitLength(text, c + i) = UnitLength(p, i)
             /\ CodePoint(text, c + i) = CodePoint(p, i)
             /\ UnitLength(p, i) \in Nat
  <2>1. /\ c + Len(p) <= Len(text)
        /\ \A j \in 1..Len(p) : text[c + j] = p[j]
        /\ ~(c + Len(p) < Len(text))
    <3>1. \A j \in 1..k : text[c + j] = p[j]
      BY <1>1
    <3>2. c + k <= Len(text) /\ ~(c + k < Len(text))
      <4> HIDE DEF c, k
      <4> QED
        BY <1>1, <1>2
    <3> QED
      BY <3>1, <3>2, Zenon DEF k
  <2>2. UnitLength(text, c + i) = UnitLength(p, i) /\ CodePoint(text, c + i) = CodePoint(p, i)
    BY <1>1, <1>2, <2>1, UnitsMoved
  <2>3. UnitLength(p, i) \in Nat
    <3>1. UnitLength(p, i) \in Reaches(p, i) /\ SequenceLength(p[i]) \in 1..4
      BY UnitIsReached
    <3> QED
      BY <3>1 DEF Reaches
  <2> QED
    BY <2>2, <2>3
<1>5. UnitLength(text, c) = 1 /\ CodePoint(text, c) = Colon
  <2>1. c \in 1..Len(text) /\ text[c] < 128
    BY <1>1, <1>2 DEF Colon
  <2> QED
    BY <2>1, <1>1, CodePointIs
<1> DEFINE unit(j) == UnitLength(text, j)
<1>6. Starts(text) = {i \in 1..(c + k) : \A j \in 1..(i - 1) : j + unit(j) <= i}
  <2>1. DOMAIN text = 1..(c + k)
    BY <1>1, <1>2
  <2> QED
    BY <2>1, Zenon DEF Starts
<1>7. /\ Starts(u) = {i \in 1..(c - 1) : \A j \in 1..(i - 1) : j + UnitLength(u, j) <= i}
      /\ Starts(p) = {i \in 1..k : \A j \in 1..(i - 1) : j + UnitLength(p, j) <= i}
  <2>1. DOMAIN u = 1..(c - 1) /\ DOMAIN p = 1..k
    BY <1>2
  <2> QED
    BY <2>1, Zenon DEF Starts
<1> HIDE DEF unit, c, k
<1>8. /\ \A j \in 1..(c - 1) : unit(j) = UnitLength(u, j) /\ unit(j) \in Nat /\ j + unit(j) <= c
      /\ unit(c) = 1
      /\ \A j \in 1..k : unit(c + j) = UnitLength(p, j) /\ unit(c + j) \in Nat
  BY <1>3, <1>4, <1>5 DEF unit
<1>9. c \in Starts(text)
  BY <1>2, <1>6, <1>8
<1>10. ASSUME NEW i \in 1..(c - 1)
       PROVE  i \in Starts(text) <=> i \in Starts(u)
  <2>1. i \in 1..(c + k)
    BY <1>2
  <2>2. \A j \in 1..(i - 1) : unit(j) = UnitLength(u, j)
    BY <1>2, <1>8
  <2> QED
    BY <2>1, <2>2, <1>6, <1>7
<1>11. ASSUME NEW i \in 1..k
       PROVE  c + i \in Starts(text) <=> i \in Starts(p)
  <2>1. c + i \in 1..(c + k)
    BY <1>2
  <2>2. ASSUME \A j \in 1..((c + i) - 1) : j + unit(j) <= c + i, NEW j \in 1..(i - 1)
        PROVE  j + UnitLength(p, j) <= i
    <3>1. j \in 1..k /\ c + j \in 1..((c + i) - 1)
      BY <1>2
    <3> DEFINE n == UnitLength(p, j)
    <3>2. (c + j) + unit(c + j) <= c + i
      BY <3>1, <2>2
    <3>3. unit(c + j) = n /\ n \in Nat
      BY <3>1, <1>8
    <3> HIDE DEF n
    <3>4. (c + j) + n <= c + i
      BY <3>2, <3>3, Zenon
    <3>5. j + n <= i
      BY <3>1, <3>3, <3>4, <1>2
    <3> QED
      BY <3>5 DEF n
  <2>3. ASSUME \A j \in 1..(i - 1) : j + UnitLength(p, j) <= i, NEW j \in 1..((c + i) - 1)
        PROVE  j + unit(j) <= c + i
    <3>1. CASE j < c
      <4>1. j \in 1..(c - 1)
        BY <3>1, <1>2
      <4>2. j + unit(j) <= c /\ unit(j) \in Nat
        BY <4>1, <1>8
      <4> QED
        BY <4>2, <1>2
    <3>2. CASE j = c
      BY <3>2, <1>2, <1>8
    <3>3. CASE j > c
      <4> DEFINE d == j - c
      <4>1. d \in 1..(i - 1) /\ d \in 1..k /\ c + d = j
        BY <3>3, <1>2
      <4> HIDE DEF d
      <4> DEFINE n == UnitLength(p, d)
      <4>2. d + n <= i /\ unit(c + d) = n /\ n \in Nat
        BY <4>1, <2>3, <1>8
      <4> HIDE DEF n
      <4>3. (c + d) + n <= c + i
        BY <4>1, <4>2, <1>2
      <4> QED
        BY <4>1, <4>2, <4>3, Zenon
    <3> QED
      BY <3>1, <3>2, <3>3, <1>2
  <2>4. c + i \in Starts(text) <=> \A j \in 1..((c + i) - 1) : j + unit(j) <= c + i
    BY <2>1, <1>6, Zenon
  <2>5. i \in Starts(p) <=> \A j \in 1..(i - 1) : j + UnitLength(p, j) <= i
    BY <1>7
  <2> QED
    BY <2>2, <2>3, <2>4, <2>5, Zenon
<1>12. Starts(text) \subseteq 1..(c + k)
  BY <1>6
<1>13. StartsAt(text, u, p, c)
  BY <1>2, <1>3, <1>4, <1>5, <1>9, <1>10, <1>11, <1>12 DEF StartsAt, k
<1> QED
  BY <1>13 DEF c

\* A text without a colon is decoded to one without.
LEMMA NoColonDecoded ==
    ASSUME NEW u \in Seq(Nat), \A i \in DOMAIN u : u[i] # Colon
    PROVE  \A i \in DOMAIN Decoded(u) : Decoded(u)[i] # Colon
<1> DEFINE text == Decoded(u)
<1>1. /\ text \in Seq(Nat) /\ Starts(u) \subseteq 1..Len(u)
      /\ \A k \in 1..Len(text) : \E m \in Starts(u) : text[k] = CodePoint(u, m)
  BY DecodedIs
<1> HIDE DEF text
<1>2. ASSUME NEW k \in 1..Len(text)
      PROVE  text[k] # Colon
  <2>1. PICK m \in 1..Len(u) : text[k] = CodePoint(u, m)
    BY <1>1
  <2>2. u[m] # Colon
    OBVIOUS
  <2> QED
    BY <2>1, <2>2, CodePointIs
<1>3. DOMAIN text = 1..Len(text)
  BY <1>1
<1> QED
  BY <1>2, <1>3 DEF text

\* The places behind a place, moved there, are as many.
LEMMA MovedAreAsMany ==
    ASSUME NEW S \in SUBSET Int, IsFiniteSet(S), NEW c \in Int
    PROVE  LET moved == {i \in Int : i - c \in S}
           IN  IsFiniteSet(moved) /\ Cardinality(moved) = Cardinality(S)
<1> DEFINE moved == {i \in Int : i - c \in S}
           f     == [i \in S |-> c + i]
<1>1. f \in [S -> moved]
  <2>1. ASSUME NEW i \in S
        PROVE  c + i \in moved
    <3>1. i \in Int /\ (c + i) - c = i
      OBVIOUS
    <3> QED
      BY <3>1
  <2> QED
    BY <2>1
<1>2. \A a, b \in S : f[a] = f[b] => a = b
  <2>1. ASSUME NEW a \in S, NEW b \in S, c + a = c + b
        PROVE  a = b
    <3>1. a \in Int /\ b \in Int
      OBVIOUS
    <3> QED
      BY <3>1, <2>1
  <2> QED
    BY <2>1
<1>3. \A t \in moved : \E i \in S : f[i] = t
  <2>1. ASSUME NEW t \in moved
        PROVE  t - c \in S /\ c + (t - c) = t
    OBVIOUS
  <2> QED
    BY <2>1
<1> HIDE DEF f, moved
<1>4. f \in Bijection(S, moved)
  BY <1>1, <1>2, <1>3 DEF Bijection, Injection, Surjection, IsInjective
<1>5. IsFiniteSet(moved) /\ Cardinality(moved) = Cardinality(S)
  BY <1>4, FS_Bijection DEF ExistsBijection
<1> QED
  BY <1>5 DEF moved

\* Two sets without a common element are together as many as both.
LEMMA ApartAreAdded ==
    ASSUME NEW S, NEW T, IsFiniteSet(S), IsFiniteSet(T), S \cap T = {}
    PROVE  /\ IsFiniteSet(S \cup T)
           /\ Cardinality(S \cup T) = Cardinality(S) + Cardinality(T)
<1>1. IsFiniteSet(S \cup T) /\ Cardinality(S \cup T) = Cardinality(S) + Cardinality(T) - Cardinality(S \cap T)
  BY FS_Union
<1>2. Cardinality(S) \in Nat /\ Cardinality(T) \in Nat /\ Cardinality(S \cap T) = 0
  BY FS_CardinalityType, FS_EmptySet
<1> QED
  BY <1>1, <1>2

\* Two texts that are joined in bytes are decoded to the two decoded texts, joined.
LEMMA DecodedOfJoined ==
    ASSUME NEW u \in Seq(Nat), NEW p \in Seq(Nat), NEW text, IsJoined(text, u, p)
    PROVE  IsJoined(Decoded(text), Decoded(u), Decoded(p))
<1> DEFINE c        == Len(u) + 1
           S        == Starts(text)
           A        == Starts(u)
           B        == Starts(p)
           first    == A \cup {c}
           Moved(T) == {i \in Int : i - c \in T}
           d        == Decoded(text)
           du       == Decoded(u)
           dp       == Decoded(p)
           a        == Cardinality(A)
           b        == Cardinality(B)
<1>1. /\ S \subseteq 1..(c + Len(p)) /\ c \in S
      /\ CodePoint(text, c) = Colon
      /\ \A i \in 1..(c - 1) : (i \in S <=> i \in A) /\ CodePoint(text, i) = CodePoint(u, i)
      /\ \A i \in 1..Len(p) : (c + i \in S <=> i \in B) /\ CodePoint(text, c + i) = CodePoint(p, i)
  <2>1. StartsAt(text, u, p, c)
    BY StartsOfJoined
  <2>2. c - 1 = Len(u)
    OBVIOUS
  <2> QED
    BY <2>1, <2>2, Zenon DEF StartsAt
<1>2. c \in Nat /\ Len(p) \in Nat /\ text \in Seq(Nat) /\ c - 1 = Len(u)
  <2>1. text \in Seq(Nat)
    BY Zenon DEF IsJoined
  <2> QED
    BY <2>1
<1>3. /\ IsFiniteSet(A) /\ A \subseteq 1..(c - 1)
      /\ du \in Seq(Nat) /\ Len(du) = a
      /\ \A k \in 1..Len(du) : \E m \in A : /\ Cardinality({j \in A : j <= m}) = k
                                            /\ du[k] = CodePoint(u, m)
  BY <1>2, DecodedIs
<1>4. /\ IsFiniteSet(B) /\ B \subseteq 1..Len(p)
      /\ dp \in Seq(Nat) /\ Len(dp) = b
      /\ \A k \in 1..Len(dp) : \E m \in B : /\ Cardinality({j \in B : j <= m}) = k
                                            /\ dp[k] = CodePoint(p, m)
  BY DecodedIs
<1>5. /\ d \in Seq(Nat) /\ Len(d) = Cardinality(S)
      /\ \A m \in S : LET k == Cardinality({j \in S : j <= m})
                      IN  k \in 1..Len(d) => d[k] = CodePoint(text, m)
  BY <1>2, DecodedIs
<1>6. a \in Nat /\ b \in Nat
  BY <1>3, <1>4, FS_CardinalityType
<1> HIDE DEF c, S, A, B, d, du, dp, a, b
<1>7. IsFiniteSet(first) /\ Cardinality(first) = a + 1
  <2>1. c \notin A
    BY <1>2, <1>3
  <2> QED
    BY <2>1, <1>3, FS_AddElement DEF a
<1>8. ASSUME NEW T \in SUBSET B
      PROVE  /\ IsFiniteSet(first \cup Moved(T))
             /\ Cardinality(first \cup Moved(T)) = a + 1 + Cardinality(T)
  <2>1. T \in SUBSET Int /\ IsFiniteSet(T)
    <3>1. IsFiniteSet(T)
      BY <1>4, FS_Subset
    <3>2. T \in SUBSET Int
      BY <1>4
    <3> QED
      BY <3>1, <3>2
  <2>2. IsFiniteSet(Moved(T)) /\ Cardinality(Moved(T)) = Cardinality(T)
    <3>1. c \in Int
      BY <1>2
    <3> QED
      BY <2>1, <3>1, MovedAreAsMany, Zenon
  <2>3. first \cap Moved(T) = {}
    <3>1. ASSUME NEW i \in first
          PROVE  ~(i - c \in T)
      <4>1. i \in 1..(c - 1) \/ i = c
        BY <1>3
      <4>2. ~(i - c \in 1..Len(p))
        BY <4>1, <1>2
      <4> QED
        BY <4>2, <1>4
    <3> QED
      BY <3>1
  <2>4. Cardinality(first) = a + 1 /\ IsFiniteSet(first)
    BY <1>7
  <2> DEFINE M == Moved(T)
  <2> HIDE DEF first, Moved, M
  <2>5. IsFiniteSet(first \cup M) /\ Cardinality(first \cup M) = Cardinality(first) + Cardinality(M)
    BY <2>2, <2>3, <2>4, ApartAreAdded, Zenon DEF M
  <2> QED
    BY <2>2, <2>4, <2>5, Zenon DEF M
<1>9. S = first \cup Moved(B)
  <2>1. ASSUME NEW i \in S
        PROVE  i \in first \cup Moved(B)
    <3>1. i \in 1..(c + Len(p)) /\ i \in Int
      BY <1>1, <1>2
    <3>2. CASE i \in 1..(c - 1)
      BY <3>2, <1>1
    <3>3. CASE i = c
      BY <3>3
    <3>4. CASE i - c \in 1..Len(p)
      <4>1. c + (i - c) = i
        BY <3>1, <1>2
      <4>2. i - c \in B
        BY <4>1, <3>4, <1>1
      <4> QED
        BY <4>2, <3>1
    <3> QED
      BY <3>1, <3>2, <3>3, <3>4, <1>2
  <2>2. ASSUME NEW i \in first \cup Moved(B)
        PROVE  i \in S
    <3>1. CASE i \in A
      BY <3>1, <1>1, <1>3
    <3>2. CASE i = c
      BY <3>2, <1>1
    <3>3. CASE i \in Moved(B)
      <4>1. i - c \in B /\ i - c \in 1..Len(p) /\ c + (i - c) = i
        BY <3>3, <1>2, <1>4
      <4> QED
        BY <4>1, <1>1
    <3> QED
      BY <3>1, <3>2, <3>3
  <2> QED
    BY <2>1, <2>2
<1>10. Len(d) = a + 1 + b
  BY <1>5, <1>8, <1>9 DEF b
<1>11. ASSUME NEW k \in 1..a
       PROVE  d[k] = du[k]
  <2>1. PICK m \in A : Cardinality({j \in A : j <= m}) = k /\ du[k] = CodePoint(u, m)
    BY <1>3
  <2>2. m \in 1..(c - 1) /\ m \in S
    BY <1>1, <1>3
  <2>3. {j \in S : j <= m} = {j \in A : j <= m}
    <3>1. ASSUME NEW j \in S, j <= m
          PROVE  j \in A
      <4>1. j \in 1..(c + Len(p))
        BY <1>1
      <4>2. j \in 1..(c - 1)
        BY <4>1, <3>1, <2>2, <1>2
      <4> QED
        BY <4>2, <1>1
    <3>2. A \subseteq S
      BY <1>1, <1>3
    <3> QED
      BY <3>1, <3>2
  <2>4. k \in 1..Len(d)
    BY <1>6, <1>10
  <2>5. d[k] = CodePoint(text, m)
    BY <2>1, <2>2, <2>3, <2>4, <1>5
  <2> QED
    BY <2>1, <2>2, <2>5, <1>1
<1>12. d[a + 1] = Colon
  <2>1. {j \in S : j <= c} = first
    <3>1. ASSUME NEW j \in S, j <= c
          PROVE  j \in first
      <4>1. j \in 1..(c + Len(p))
        BY <1>1
      <4>2. j \in 1..(c - 1) \/ j = c
        BY <4>1, <3>1, <1>2
      <4> QED
        BY <4>2, <1>1
    <3>2. ASSUME NEW j \in first
          PROVE  j \in S /\ j <= c
      BY <1>1, <1>2, <1>3
    <3> QED
      BY <3>1, <3>2
  <2>2. a + 1 \in 1..Len(d)
    BY <1>6, <1>10
  <2> HIDE DEF first
  <2>3. Cardinality({j \in S : j <= c}) = a + 1
    BY <2>1, <1>7
  <2>4. d[a + 1] = CodePoint(text, c)
    BY <2>2, <2>3, <1>1, <1>5
  <2> QED
    BY <2>4, <1>1
<1>13. ASSUME NEW k \in 1..b
       PROVE  d[(a + 1) + k] = dp[k]
  <2>1. PICK m \in B : Cardinality({j \in B : j <= m}) = k /\ dp[k] = CodePoint(p, m)
    BY <1>4
  <2> DEFINE T == {j \in B : j <= m}
  <2>2. m \in 1..Len(p) /\ c + m \in S /\ T \in SUBSET B
    BY <1>1, <1>4
  <2>3. {j \in S : j <= c + m} = first \cup Moved(T)
    <3>1. ASSUME NEW j \in first \cup Moved(B)
          PROVE  j <= c + m <=> j \in first \cup Moved(T)
      <4>1. CASE j \in first
        <5>1. j \in 1..(c - 1) \/ j = c
          BY <4>1, <1>3
        <5>2. j <= c + m
          BY <5>1, <2>2, <1>2
        <5> QED
          BY <4>1, <5>2
      <4>2. CASE j \notin first /\ j \in Moved(B)
        <5>1. j \in Int /\ j - c \in B /\ (j <= c + m <=> j - c <= m)
          BY <4>2, <2>2, <1>2
        <5> QED
          BY <5>1, <4>2
      <4> QED
        BY <3>1, <4>1, <4>2
    <3>2. first \cup Moved(T) \subseteq first \cup Moved(B)
      BY <2>2
    <3> HIDE DEF first, Moved, T
    <3> QED
      BY <3>1, <3>2, <1>9
  <2>4. Cardinality(T) = k
    BY <2>1
  <2> HIDE DEF T
  <2>5. Cardinality(first \cup Moved(T)) = a + 1 + k
    BY <2>2, <2>4, <1>8
  <2> HIDE DEF first, Moved
  <2>6. Cardinality({j \in S : j <= c + m}) = a + 1 + k
    BY <2>3, <2>5
  <2>7. a + 1 + k \in 1..Len(d)
    BY <1>6, <1>10
  <2>8. d[a + 1 + k] = CodePoint(text, c + m)
    BY <2>2, <2>6, <2>7, <1>5
  <2> QED
    BY <2>1, <2>2, <2>8, <1>1
<1>14. IsJoined(d, du, dp)
  <2>1. /\ Len(d) = (Len(du) + 1) + Len(dp)
        /\ \A i \in 1..Len(du) : d[i] = du[i]
        /\ d[Len(du) + 1] = Colon
        /\ \A i \in 1..Len(dp) : d[(Len(du) + 1) + i] = dp[i]
    BY <1>3, <1>4, <1>6, <1>10, <1>11, <1>12, <1>13
  <2> QED
    BY <2>1, <1>5 DEF IsJoined
<1> QED
  BY <1>14 DEF d, du, dp

\* What the user and the password of an HTTP header are taken for.
LEMMA AuthenticateOfHeader ==
    ASSUME NEW user \in Seq(Nat), NEW password \in Seq(Nat),
           \A i \in DOMAIN user : user[i] # Colon
    PROVE  AuthenticateHttp(<<<<66>>, (user \o <<Colon>>) \o password>>) =
               Valid(Decoded(user), Fields(Decoded(password))[1])
<1> DEFINE sent  == (user \o <<Colon>>) \o password
           words == <<<<66>>, sent>>
           text  == Decoded(sent)
           u     == Decoded(user)
           p     == Decoded(password)
           c     == Len(u) + 1
           ends  == Ends(p)
<1>1. words[2] = sent /\ Len(words) >= 2
  OBVIOUS
<1>2. IsJoined(text, u, p) /\ u \in Seq(Nat) /\ p \in Seq(Nat)
  <2>1. IsJoined(sent, user, password)
    BY Joined
  <2> HIDE DEF sent
  <2> QED
    BY <2>1, DecodedOfJoined, DecodedIs
<1>3. \A i \in DOMAIN u : u[i] # Colon
  BY NoColonDecoded
<1> HIDE DEF sent, text, words, u, p
<1>4. /\ c \in Nat /\ text \in Seq(Nat) /\ c \in Ends(text)
      /\ \A i \in ends : i >= 1 /\ c + i \in Ends(text)
      /\ \A i \in Ends(text) : i > c => i - c \in ends
      /\ \A i \in Ends(text) : i >= c
      /\ SubSeq(text, 1, c - 1) = u
      /\ \A n \in 0..Len(p) : SubSeq(text, c + 1, c + n) = SubSeq(p, 1, n)
  <2>1. EndsAt(text, u, p, c)
    BY <1>2, EndsOfJoined
  <2> QED
    BY <2>1, <1>3 DEF EndsAt
<1> HIDE DEF c
\* The first end of the password.
<1>5. PICK m \in ends : \A k \in ends : m <= k
  <2>1. ends \in SUBSET Nat /\ Len(p) + 1 \in ends
    <3>1. /\ Ends(p) \subseteq 1..(Len(p) + 1) /\ Len(p) \in Nat
          /\ \A i \in 1..(Len(p) + 1) :
                i \in Ends(p) <=> i = Len(p) + 1 \/ p[i] = Colon
      BY <1>2, EndsOfFields
    <3> QED
      BY <3>1
  <2>2. ends # {}
    BY <2>1
  <2> HIDE DEF ends
  <2> QED
    BY <2>1, <2>2, LeastNumber
<1>6. m \in 1..(Len(p) + 1) /\ Len(p) \in Nat
  BY <1>2, EndsOfFields
<1>7. Fields(p)[1] = SubSeq(p, 1, m - 1)
  <2>1. \A i \in Ends(p) : i >= m
    BY <1>2, <1>5, <1>6, EndsOfFields
  <2>2. IsField(p, 1, 0, m)
    BY <2>1, <1>2, FirstField
  <2> QED
    BY <2>2 DEF IsField
<1>8. Fields(text)[1] = u
  <2>1. IsField(text, 1, 0, c)
    BY <1>4, FirstField
  <2>2. Fields(text)[1] = SubSeq(text, 0 + 1, c - 1)
    BY <2>1 DEF IsField
  <2> QED
    BY <2>2, <1>4
<1>9. Len(Fields(text)) >= 2 /\ Fields(text)[2] = Fields(p)[1]
  <2>1. c + m \in Ends(text) /\ c < c + m
    BY <1>4, <1>6
  <2>2. ASSUME NEW i \in Ends(text)
        PROVE  i = c \/ i >= c + m
    <3>1. i \in Int /\ i >= c
      BY <1>4, EndsOfFields
    <3>2. CASE i > c
      <4>1. i - c \in ends
        BY <3>2, <1>4
      <4>2. m <= i - c
        BY <4>1, <1>5
      <4> QED
        BY <4>2, <3>1, <1>4, <1>6
    <3> QED
      BY <3>1, <3>2, <1>4
  <2>3. IsField(text, 2, c, c + m)
    BY <2>1, <2>2, <1>4, SecondField
  <2>4. Fields(text)[2] = SubSeq(text, c + 1, (c + m) - 1) /\ 2 \in 1..Len(Fields(text))
    BY <2>3 DEF IsField
  <2>5. m - 1 \in 0..Len(p) /\ (c + m) - 1 = c + (m - 1)
    BY <1>4, <1>6
  <2>6. SubSeq(text, c + 1, c + (m - 1)) = SubSeq(p, 1, m - 1)
    BY <2>5, <1>4
  <2>7. Len(Fields(text)) >= 2
    <3>1. IsFiniteSet(Ends(text)) /\ Len(Fields(text)) = Cardinality(Ends(text))
      BY <2>3, <1>4, EndsOfFields DEF IsField
    <3>2. Len(Fields(text)) \in Nat
      BY <3>1, FS_CardinalityType
    <3> QED
      BY <3>2, <2>4
  <2> QED
    BY <2>4, <2>5, <2>6, <2>7, <1>7
<1>10. AuthenticateHttp(words) =
         (Len(words) >= 2 /\ Len(Fields(text)) >= 2 /\ Valid(Fields(text)[1], Fields(text)[2]))
  BY <1>1, Zenon DEF AuthenticateHttp, text
<1>11. AuthenticateHttp(words) = Valid(u, Fields(p)[1])
  <2>1. Valid(u, Fields(p)[1]) \in BOOLEAN
    BY DEF Valid
  <2> QED
    BY <2>1, <1>1, <1>8, <1>9, <1>10
<1> QED
  BY <1>11 DEF words, sent, u, p

\* Users are judged by the name and the password that were sent, decoded, for
\* every table of users, also where they are no UTF-8.
THEOREM CredentialsAreExact == WireSpec => []CredentialsExact
<1>1. WireInv => CredentialsExact
  <2> SUFFICES ASSUME WireInv PROVE CredentialsExact
    OBVIOUS
  <2> DEFINE u == meant.user
             w == meant.password
  <2>1. ASSUME format \in {"credentials", "authorization"}
        PROVE  u \in Seq(Nat) /\ w \in Seq(Nat)
    <3>1. u \in Users /\ w \in Passwords
      BY <2>1 DEF WireInv, WireInit
    <3> HIDE DEF u, w
    <3> QED
      BY <3>1, TextsAreSequences
  <2>2. ASSUME format = "credentials"
        PROVE  IF IsPrefix(Whole, data)
               THEN AuthenticateSocks5(data) = Valid(Decoded(u), Decoded(w))
               ELSE AuthenticateSocks5(data) =>
                      \E n \in 0..(Len(w) - 1) :
                         StoredPassword(Decoded(u)) = Decoded(SubSeq(w, 1, n))
    <3> DEFINE m == AuthMessage([user |-> u, password |-> w])
    <3>1. Arrived /\ meant = [user |-> u, password |-> w]
      BY <2>2 DEF WireInv
    <3>2. Whole = m
      BY <2>2, <3>1 DEF Whole
    <3> HIDE DEF u, w
    <3>3. u \in Seq(Nat) /\ w \in Seq(Nat) /\ data \in Seq(Nat)
      BY <2>1, <2>2, <3>1 DEF Arrived
    <3>4. Says(data, u, w)
      BY <3>1, <3>2 DEF Says, Arrived
    <3>5. Judged(data, u, w)
      BY <3>3, <3>4, AuthenticateOfMessage
    <3>6. m \in Seq(Nat)
      BY <3>3, AuthMessageBytes
    <3>7. IsPrefix(Whole, data) <=> Len(data) >= Len(m)
      BY <3>1, <3>2, <3>6, WholeArrived
    <3> QED
      BY <3>5, <3>7, Zenon DEF Judged
  <2>3. ASSUME format = "authorization"
        PROVE  AuthenticateHttp(data) = Valid(Decoded(u), Fields(Decoded(w))[1])
    <3>1. /\ \A i \in DOMAIN u : u[i] # Colon
          /\ data = <<<<66>>, (u \o <<Colon>>) \o w>>
      BY <2>3 DEF WireInv, WireInit
    <3> HIDE DEF u, w
    <3> QED
      BY <3>1, <2>1, <2>3, AuthenticateOfHeader
  <2> QED
    BY <2>2, <2>3 DEF CredentialsExact
<1> QED
  BY <1>1, WireInvariant, PTL

-----------------------------------------------------------------------------
(* Targets of tunnels *)

\* A text without brackets stays what it is.
LEMMA NoBrackets ==
    ASSUME NEW text \in Seq(Nat), \A i \in DOMAIN text : text[i] \notin {Open, Closed}
    PROVE  WithoutBrackets(text) = text
<1> DEFINE n    == Len(text)
           kept == {i \in DOMAIN text : text[i] \notin {Open, Closed}}
<1>1. n \in Nat /\ kept = 1..n
  OBVIOUS
<1>2. Cardinality(1..n) = n /\ IsFiniteSet(1..n)
  <2> HIDE DEF n
  <2>1. Cardinality(1..n) = IF 1 > n THEN 0 ELSE n - 1 + 1
    BY <1>1, FS_Interval
  <2>2. IsFiniteSet(1..n)
    BY <1>1, FS_Interval
  <2> QED
    BY <2>1, <2>2, <1>1
<1>3. WithoutBrackets(text) = [k \in 1..Cardinality(kept) |-> text[Nth(kept, k)]]
  BY DEF WithoutBrackets
<1> HIDE DEF kept
<1>4. WithoutBrackets(text) = [k \in 1..n |-> text[Nth(1..n, k)]]
  BY <1>1, <1>2, <1>3
<1>5. ASSUME NEW k \in 1..n
      PROVE  Nth(1..n, k) = k
  <2> HIDE DEF n
  <2>1. {j \in 1..n : j <= k} = 1..k /\ k \in Nat
    BY <1>1
  <2>2. Cardinality(1..k) = IF 1 > k THEN 0 ELSE k - 1 + 1
    BY <2>1, FS_Interval
  <2>3. Cardinality({j \in 1..n : j <= k}) = k
    <3>1. Cardinality(1..k) = k
      BY <2>1, <2>2
    <3> QED
      BY <3>1, <2>1, Zenon
  <2>4. 1..n \in SUBSET Int
    BY <1>1
  <2>5. Nth(1..n, Cardinality({j \in 1..n : j <= k})) = k
    BY <2>4, <1>2, NthIs
  <2> QED
    BY <2>3, <2>5
<1>6. [k \in 1..n |-> text[Nth(1..n, k)]] = [k \in 1..n |-> text[k]]
  BY <1>5
<1>7. [k \in 1..n |-> text[k]] = text
  OBVIOUS
<1> QED
  BY <1>4, <1>6, <1>7

\* Brackets around a text without brackets are taken off.
LEMMA BracketsAround ==
    ASSUME NEW host \in Seq(Nat), host # <<>>, \A i \in DOMAIN host : host[i] \notin {Open, Closed}
    PROVE  /\ Unbracketed(host) = host
           /\ (<<Open>> \o host) \o <<Closed>> \in Seq(Nat)
           /\ Unbracketed((<<Open>> \o host) \o <<Closed>>) = host
<1> DEFINE n     == Len(host)
           left  == <<Open>>
           right == <<Closed>>
           all   == (left \o host) \o right
<1>1. n \in Nat /\ n >= 1 /\ 1 \in DOMAIN host /\ n \in DOMAIN host
  <2>1. n # 0
    BY EmptySeq
  <2> QED
    BY <2>1
<1>2. host[1] # Open /\ host[n] # Closed
  BY <1>1
<1>3. Unbracketed(host) = host
  BY <1>1, <1>2 DEF Unbracketed, Last
<1>4. /\ left \in Seq(Nat) /\ Len(left) = 1 /\ left[1] = Open
      /\ right \in Seq(Nat) /\ Len(right) = 1 /\ right[1] = Closed
  BY DEF Open, Closed
<1>5. Unbracketed((<<Open>> \o host) \o <<Closed>>) = Unbracketed(all)
  OBVIOUS
<1> HIDE DEF left, right
<1>6. Joins3(Nat, all, left, host, right)
  BY <1>4, ThreeParts
<1> DEFINE most == Tail(all)
<1> HIDE DEF all
<1>7. /\ all \in Seq(Nat) /\ Len(all) = n + 2 /\ all[1] = Open /\ all[n + 2] = Closed
      /\ \A i \in 1..n : all[1 + i] = host[i]
  <2>1. Len(all) = n + 2
    BY <1>1, <1>4, <1>6 DEF Joins3
  <2>2. all[1] = Open
    BY <1>4, <1>6 DEF Joins3
  <2>3. \A i \in 1..n : all[1 + i] = host[i]
    BY <1>4, <1>6 DEF Joins3
  <2>4. all[1 + n + 1] = Closed
    BY <1>4, <1>6 DEF Joins3
  <2> QED
    BY <2>1, <2>2, <2>3, <2>4, <1>1, <1>6 DEF Joins3
<1> HIDE DEF n
<1>8. all # <<>>
  BY <1>1, <1>7, EmptySeq
<1>9. most \in Seq(Nat) /\ Len(most) = n + 1 /\ \A i \in 1..(n + 1) : most[i] = all[i + 1]
  BY <1>1, <1>7, <1>8
<1> HIDE DEF most
<1>10. most # <<>> /\ Last(most) = Closed
  <2>1. most[n + 1] = Closed
    <3>1. n + 1 \in 1..(n + 1) /\ (n + 1) + 1 = n + 2
      BY <1>1
    <3> QED
      BY <3>1, <1>7, <1>9
  <2> QED
    BY <2>1, <1>1, <1>9, EmptySeq DEF Last
<1>11. Front(most) = host
  <2>1. Front(most) = SubSeq(most, 0 + 1, 0 + n)
    <3>1. Len(most) - 1 = 0 + n /\ 0 + 1 = 1
      BY <1>1, <1>9
    <3> QED
      BY <3>1 DEF Front
  <2>2. IsPart(SubSeq(most, 0 + 1, 0 + n), most, 0, n)
    BY <1>1, <1>9, SubSeqIsPart
  <2>3. IsPart(host, most, 0, n)
    <3>1. ASSUME NEW i \in 1..n
          PROVE  host[i] = most[0 + i]
      <4>1. 0 + i = i /\ i \in 1..(n + 1) /\ i + 1 = 1 + i
        BY <1>1
      <4> QED
        BY <4>1, <1>7, <1>9
    <3> QED
      BY <3>1 DEF IsPart, n
  <2> QED
    BY <2>1, <2>2, <2>3, SameParts
<1>12. Unbracketed(all) = host
  <2>1. (IF all # <<>> /\ all[1] = Open THEN Tail(all) ELSE all) = most
    BY <1>7, <1>8 DEF most
  <2> QED
    BY <2>1, <1>10, <1>11, Zenon DEF Unbracketed
<1> QED
  BY <1>3, <1>5, <1>7, <1>12 DEF all, left, right

\* A host and a port are told apart by the last colon.
LEMMA AuthorityIsParsed ==
    ASSUME NEW a \in Seq(Nat), NEW host \in Seq(Nat), host # <<>>,
           \A i \in DOMAIN host : host[i] \notin {Open, Closed},
           Unbracketed(a) = host
    PROVE  ParseHostAndPort((a \o <<Colon>>) \o PortText) = [hostname |-> host, port |-> PortText]
<1> DEFINE url == (a \o <<Colon>>) \o PortText
           c   == Len(a) + 1
           p   == PortText
<1>1. p \in Seq(Nat) /\ Len(p) = 2 /\ p[1] = 56 /\ p[2] = 48 /\ p # <<>>
  BY DEF PortText
<1>2. IsJoined(url, a, p)
  BY <1>1, Joined
<1>3. Len(url) = c + 2
  BY <1>1, <1>2 DEF IsJoined
<1> HIDE DEF url, p
<1>4. /\ c \in Nat /\ url \in Seq(Nat) /\ c \in Ends(url)
      /\ \A i \in Ends(url) : i > c => i - c \in Ends(p)
      /\ SubSeq(url, 1, c - 1) = a
      /\ \A n \in 0..Len(p) : SubSeq(url, c + 1, c + n) = SubSeq(p, 1, n)
  <2>1. EndsAt(url, a, p, c)
    BY <1>1, <1>2, EndsOfJoined
  <2> QED
    BY <2>1 DEF EndsAt
<1> HIDE DEF c
<1>5. SubSeq(url, c + 1, Len(url)) = p
  <2>1. 2 \in 0..Len(p)
    BY <1>1
  <2>2. SubSeq(p, 1, 2) = p
    BY <1>1, SubSeqFull
  <2> QED
    BY <2>1, <2>2, <1>3, <1>4
<1>6. ASSUME NEW i \in Ends(url)
      PROVE  i <= c \/ i = Len(url) + 1
  <2>1. i \in Int
    BY <1>4, EndsOfFields
  <2> SUFFICES ASSUME i > c PROVE i = Len(url) + 1
    BY <2>1, <1>4
  <2> DEFINE j == i - c
  <2>2. j \in Ends(p)
    BY <1>4
  <2>3. j \in 1..3 /\ (j = 3 \/ p[j] = Colon)
    <3>1. Len(p) + 1 = 3
      BY <1>1
    <3> HIDE DEF j
    <3> QED
      BY <3>1, <2>2, <1>1, EndsOfFields
  <2>4. j = 3
    BY <2>3, <1>1 DEF Colon
  <2> QED
    BY <2>1, <2>4, <1>3, <1>4
<1>7. Len(Fields(url)) >= 2 /\ Last(Fields(url)) = p
  <2>1. c <= Len(url)
    BY <1>3, <1>4
  <2> QED
    BY <2>1, <1>4, <1>5, <1>6, LastField
<1>8. Unbracketed(SubSeq(url, 1, Len(url) - Len(p) - 1)) = host
  <2>1. Len(url) - Len(p) - 1 = c - 1
    BY <1>1, <1>3, <1>4
  <2> QED
    BY <2>1, <1>4
<1>9. \A i \in DOMAIN p : p[i] \in Digits
  <2>1. \A i \in DOMAIN p : i = 1 \/ i = 2
    BY <1>1
  <2> QED
    BY <2>1, <1>1 DEF Digits
<1>10. ~(Len(Fields(url)) < 2)
  <2>1. Len(Fields(url)) \in Nat
    <3>1. Len(Fields(url)) = Cardinality(Ends(url))
      <4>1. IsFiniteSet(Ends(url))
        BY <1>4, EndsOfFields
      <4>2. Cardinality(Ends(url)) \in Nat
        BY <4>1, FS_CardinalityType
      <4> QED
        BY <4>2 DEF Fields
    <3> QED
      BY <3>1, <1>4, EndsOfFields, FS_CardinalityType
  <2> QED
    BY <2>1, <1>7
<1>11. ~(\E i \in DOMAIN p : p[i] \notin Digits) /\ ~(\E i \in DOMAIN host : host[i] = Closed)
  BY <1>9
<1>12. ParseHostAndPort(url) = [hostname |-> host, port |-> p]
  BY <1>1, <1>7, <1>8, <1>10, <1>11, Zenon DEF ParseHostAndPort
<1> QED
  BY <1>12 DEF url, p

\* What is looked up is the host, if it begins neither with a bracket nor with
\* "www.".
LEMMA HostIsChecked ==
    ASSUME NEW host \in Seq(Nat), ~IsPrefix(Www, host),
           \A i \in DOMAIN host : host[i] \notin {Open, Closed} /\ host[i] # Colon
    PROVE  CheckedHost((host \o <<Colon>>) \o PortText) = host
<1> DEFINE url == (host \o <<Colon>>) \o PortText
           c   == Len(host) + 1
<1>1. PortText \in Seq(Nat)
  BY DEF PortText
<1>2. IsJoined(url, host, PortText)
  BY <1>1, Joined
<1> HIDE DEF url
<1>3. /\ c \in Ends(url) /\ url \in Seq(Nat) /\ \A i \in Ends(url) : i >= c
      /\ SubSeq(url, 1, c - 1) = host
  <2>1. EndsAt(url, host, PortText, c)
    BY <1>1, <1>2, EndsOfJoined
  <2> QED
    BY <2>1 DEF EndsAt
<1> HIDE DEF c
<1>4. Fields(url)[1] = host
  <2>1. IsField(url, 1, 0, c)
    BY <1>3, FirstField
  <2>2. Fields(url)[1] = SubSeq(url, 0 + 1, c - 1)
    BY <2>1 DEF IsField
  <2> QED
    BY <2>2, <1>3
<1>5. WithoutBrackets(host) = host
  BY NoBrackets
<1>6. CheckedHost(url) = host
  BY <1>4, <1>5, Zenon DEF CheckedHost
<1> QED
  BY <1>6 DEF url

\* Tunnels lead to the host that was named and, in the plain cases, looked up.
THEOREM TargetsAreExact == WireSpec => []TargetExact
<1>1. WireInv => TargetExact
  <2> SUFFICES ASSUME WireInv, format = "authority"
               PROVE  /\ ParseHostAndPort(data) = [hostname |-> meant.host, port |-> PortText]
                      /\ ~meant.bracketed /\ ~IsPrefix(Www, meant.host) =>
                            CheckedHost(data) = meant.host
    BY DEF TargetExact
  <2> DEFINE host == meant.host
             a    == IF meant.bracketed THEN (<<Open>> \o host) \o <<Closed>> ELSE host
  <2>1. /\ host \in DomainNames /\ host # <<>>
        /\ \A i \in DOMAIN host : host[i] \notin {Open, Closed}
        /\ meant.bracketed \in BOOLEAN
        /\ (\E i \in DOMAIN host : host[i] = Colon) = meant.bracketed
        /\ data = (a \o <<Colon>>) \o PortText
    BY DEF WireInv, WireInit
  <2> HIDE DEF host
  <2>2. host \in Seq(Nat)
    <3>1. host \in Seq(Byte) /\ Byte \subseteq Nat
      BY <2>1, WireAssumption DEF Byte
    <3> QED
      BY <3>1, SeqMonotonic
  <2>3. a \in Seq(Nat) /\ Unbracketed(a) = host
    BY <2>1, <2>2, BracketsAround
  <2>4. ~meant.bracketed => a = host
    OBVIOUS
  <2> HIDE DEF a
  <2>5. ParseHostAndPort(data) = [hostname |-> host, port |-> PortText]
    BY <2>1, <2>2, <2>3, AuthorityIsParsed
  <2>6. ASSUME ~meant.bracketed, ~IsPrefix(Www, host)
        PROVE  CheckedHost(data) = host
    <3>1. \A i \in DOMAIN host : host[i] \notin {Open, Closed} /\ host[i] # Colon
      BY <2>1, <2>6
    <3>2. data = (host \o <<Colon>>) \o PortText
      BY <2>1, <2>4, <2>6
    <3> QED
      BY <3>1, <3>2, <2>2, <2>6, HostIsChecked
  <2> QED
    BY <2>5, <2>6 DEF host
<1> QED
  BY <1>1, WireInvariant, PTL
=============================================================================
