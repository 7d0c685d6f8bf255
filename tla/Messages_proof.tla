---------------------------- MODULE Messages_proof ----------------------------
(***************************************************************************)
(* Proofs about Messages, for message classes with any number of fields    *)
(* and for all values of the fields: no integer is damaged on its way into *)
(* bytes and back, no string is cut, and objects that are merged, copied   *)
(* and used again keep the bits of their fields.  The fold over the fields *)
(* of a message is left to the model checker.                              *)
(***************************************************************************)
EXTENDS Messages, SequenceTheorems, TLAPS

Bytes == 0..255
Int32s == {n \in Int : -2147483647 - 1 <= n /\ n <= 2147483647}
\* A string is shorter than 2 GB.
Values(type) == IF type = "int32" THEN Int32s ELSE {s \in Seq(Bytes) : Len(s) <= 2147483647}
Types == {"int32", "string"}

\* An object that setters and the operations below have made.
Valid(m) ==
    /\ m = [class |-> m.class, value |-> m.value, has |-> m.has, unknown |-> m.unknown]
    /\ m.class \in Seq(Types)
    /\ DOMAIN m.value = DOMAIN m.class /\ m.value = [i \in DOMAIN m.class |-> m.value[i]]
    /\ \A i \in DOMAIN m.class : m.value[i] \in Values(m.class[i])
    /\ m.has \subseteq DOMAIN m.class
    /\ m.unknown \in Seq(Bytes)
    /\ Consistent(m)

-----------------------------------------------------------------------------
(* Sequences of bytes.                                                     *)

LEMMA BytesAreNumbers == \A b \in Bytes : b \in Int
  BY DEF Bytes

\* The varint at the head of s ends with the first byte below 128.
LEMMA LeadingEnds ==
  ASSUME NEW s \in Seq(Bytes), NEW n \in DOMAIN s, s[n] < 128,
         \A k \in 1..(n - 1) : s[k] >= 128
  PROVE  Leading(s) = SubSeq(s, 1, n)
<1> DEFINE Ends(e) == s[e] < 128 /\ \A k \in 1..(e - 1) : s[k] >= 128
<1>1. DOMAIN s = 1..Len(s) /\ Len(s) \in Nat /\ \A k \in DOMAIN s : s[k] \in Int
  <2>1. DOMAIN s = 1..Len(s) /\ Len(s) \in Nat /\ \A k \in DOMAIN s : s[k] \in Bytes
    OBVIOUS
  <2>2. Bytes \subseteq Int
    BY DEF Bytes
  <2>3. QED
    BY <2>1, <2>2
<1>2. ASSUME NEW e \in DOMAIN s, Ends(e) PROVE e = n
  <2>1. CASE e < n
    <3>1. e \in 1..(n - 1)
      BY <1>1, <2>1
    <3>2. s[e] >= 128 /\ s[e] < 128 /\ s[e] \in Int
      BY <1>1, <1>2, <3>1
    <3>3. QED
      BY <3>2
  <2>2. CASE e > n
    <3>1. n \in 1..(e - 1)
      BY <1>1, <2>2
    <3>2. s[n] >= 128 /\ s[n] < 128 /\ s[n] \in Int
      BY <1>1, <1>2, <3>1
    <3>3. QED
      BY <3>2
  <2>3. QED
    BY <1>1, <2>1, <2>2
<1>3. Ends(n)
  OBVIOUS
<1> HIDE DEF Ends
<1>4. (CHOOSE e \in DOMAIN s : Ends(e)) = n
  BY <1>2, <1>3
<1>5. QED
  BY <1>4 DEF Leading, Ends

\* What stands before and after the place where two sequences are joined.
LEMMA Joint ==
  ASSUME NEW a \in Seq(Bytes), NEW b \in Seq(Bytes)
  PROVE  /\ a \o b \in Seq(Bytes) /\ Len(a \o b) = Len(a) + Len(b)
         /\ SubSeq(a \o b, 1, Len(a)) = a
         /\ SubSeq(a \o b, Len(a) + 1, Len(a \o b)) = b
         /\ \A i \in 1..Len(a) : (a \o b)[i] = a[i]
<1> DEFINE whole == a \o b
           front == SubSeq(whole, 1, Len(a))
           back == SubSeq(whole, Len(a) + 1, Len(whole))
<1>1. /\ whole \in Seq(Bytes) /\ Len(whole) = Len(a) + Len(b)
      /\ \A i \in 1..(Len(a) + Len(b)) :
            whole[i] = IF i <= Len(a) THEN a[i] ELSE b[i - Len(a)]
      /\ Len(a) \in Nat /\ Len(b) \in Nat
  BY ConcatProperties, LenProperties
<1> HIDE DEF whole
<1>2. /\ front \in Seq(Bytes) /\ Len(front) = Len(a)
      /\ \A i \in 1..Len(a) : front[i] = whole[i]
  BY <1>1, SubSeqProperties
<1>3. \A i \in 1..Len(a) : whole[i] = a[i]
  BY <1>1
<1>4. /\ back \in Seq(Bytes) /\ Len(back) = Len(b)
      /\ \A i \in 1..Len(b) : back[i] = whole[i + Len(a)]
  <2> DEFINE first == Len(a) + 1
             last == Len(whole)
  <2>1. first \in Int /\ last \in Int /\ last - first + 1 = Len(b)
        /\ \A i \in first..last : i \in 1..Len(whole)
    BY <1>1
  <2>2. \A i \in first..last : whole[i] \in Bytes
    BY <1>1, <2>1
  <2>3. Len(b) = IF first <= last THEN last - first + 1 ELSE 0
    BY <1>1, <2>1
  <2>4. \A i \in 1..Len(b) : first + i - 1 = i + Len(a)
    BY <1>1
  <2> HIDE DEF first, last
  <2>5. /\ SubSeq(whole, first, last) \in Seq(Bytes)
        /\ Len(SubSeq(whole, first, last)) = IF first <= last THEN last - first + 1 ELSE 0
        /\ \A i \in 1..(last - first + 1) : SubSeq(whole, first, last)[i] = whole[first + i - 1]
    BY <2>1, <2>2, SubSeqProperties
  <2>6. \A i \in 1..Len(b) : SubSeq(whole, first, last)[i] = whole[i + Len(a)]
    BY <2>1, <2>4, <2>5
  <2>7. QED
    BY <2>3, <2>5, <2>6 DEF first, last
<1>5. \A i \in 1..Len(b) : back[i] = b[i]
  <2>1. \A i \in 1..Len(b) : /\ i + Len(a) \in 1..(Len(a) + Len(b)) /\ ~(i + Len(a) <= Len(a))
                             /\ (i + Len(a)) - Len(a) = i
    BY <1>1
  <2>2. \A i \in 1..Len(b) : whole[i + Len(a)] = b[i]
    BY <1>1, <2>1
  <2>3. QED
    BY <1>4, <2>2
<1> HIDE DEF front, back
<1>6. front = a
  BY <1>1, <1>2, <1>3, SeqEqual
<1>7. back = b
  BY <1>1, <1>4, <1>5, SeqEqual
<1>8. QED
  BY <1>1, <1>3, <1>6, <1>7 DEF whole, front, back
-----------------------------------------------------------------------------
(* Varints.                                                                *)

\* The seven bits of the kth byte of n's varint.
Group(n, k) == CASE k <= 5 -> (n \div 128^(k - 1)) % 128 [] k = 10 -> 1 [] OTHER -> 127

LEMMA Powers ==
  128^0 = 1 /\ 128^1 = 128 /\ 128^2 = 16384 /\ 128^3 = 2097152 /\ 128^4 = 268435456
  BY SMT

LEMMA GroupValues ==
  ASSUME NEW n \in Int
  PROVE  /\ Group(n, 1) = n % 128 /\ Group(n, 2) = (n \div 128) % 128
         /\ Group(n, 3) = (n \div 16384) % 128 /\ Group(n, 4) = (n \div 2097152) % 128
         /\ Group(n, 5) = (n \div 268435456) % 128
<1>1. 1 - 1 = 0 /\ 2 - 1 = 1 /\ 3 - 1 = 2 /\ 4 - 1 = 3 /\ 5 - 1 = 4 /\ n \div 1 = n
  BY SMT
<1>2. QED
  BY SMT, <1>1, Powers DEF Group

LEMMA GroupRange ==
  ASSUME NEW n \in Int, NEW k \in 1..10
  PROVE  Group(n, k) \in 0..127
<1>1. CASE k \in 6..10
  BY SMT, <1>1 DEF Group
<1>2. \A m \in Int : m % 128 \in 0..127
  BY SMT
<1>3. /\ n \div 128 \in Int /\ n \div 16384 \in Int
      /\ n \div 2097152 \in Int /\ n \div 268435456 \in Int
  BY SMT
<1>4. /\ Group(n, 1) \in 0..127 /\ Group(n, 2) \in 0..127 /\ Group(n, 3) \in 0..127
      /\ Group(n, 4) \in 0..127 /\ Group(n, 5) \in 0..127
  <2>1. Group(n, 1) = n % 128
    <3>1. 1 - 1 = 0 /\ n \div 1 = n
      BY SMT
    <3>2. QED
      BY SMT, <3>1, Powers DEF Group
  <2>2. Group(n, 2) = (n \div 128) % 128
    BY SMT, GroupValues
  <2>3. Group(n, 3) = (n \div 16384) % 128
    BY SMT, GroupValues
  <2>4. Group(n, 4) = (n \div 2097152) % 128
    BY SMT, GroupValues
  <2>5. Group(n, 5) = (n \div 268435456) % 128
    BY SMT, GroupValues
  <2>6. /\ n % 128 \in 0..127 /\ (n \div 128) % 128 \in 0..127 /\ (n \div 16384) % 128 \in 0..127
        /\ (n \div 2097152) % 128 \in 0..127 /\ (n \div 268435456) % 128 \in 0..127
    BY SMT, <1>2, <1>3
  <2>7. QED
    BY SMT, <2>1, <2>2, <2>3, <2>4, <2>5, <2>6
<1>5. QED
  BY SMT, <1>1, <1>4

LEMMA PlaceValues ==
  ASSUME NEW n \in Int, NEW a \in Int, NEW b \in Int, NEW c \in Int, NEW d \in Int,
         NEW g1 \in Int, NEW g2 \in Int, NEW g3 \in Int, NEW g4 \in Int,
         n = (128 * a) + g1, a = (128 * b) + g2, b = (128 * c) + g3, c = (128 * d) + g4
  PROVE  g1 + 128 * g2 + 16384 * g3 + 2097152 * g4 + d * 268435456 = n
  BY SMT

\* The groups of an int32 make it up, its sign bit among them.
LEMMA Digits ==
  ASSUME NEW n \in Int32s
  PROVE  LET high == Group(n, 5) % 16
         IN  Group(n, 1) + 128 * Group(n, 2) + 16384 * Group(n, 3) + 2097152 * Group(n, 4)
               + (IF high >= 8 THEN high - 16 ELSE high) * 268435456 = n
<1> DEFINE a == n \div 128
           b == n \div 16384
           c == n \div 2097152
           d == n \div 268435456
           high == Group(n, 5) % 16
           top == IF high >= 8 THEN high - 16 ELSE high
<1>1. n \in Int /\ -2147483648 <= n /\ n <= 2147483647
  BY SMT DEF Int32s
<1>2. a \in Int /\ b \in Int /\ c \in Int /\ d \in Int
  BY SMT, <1>1
<1>3. b = a \div 128 /\ c = b \div 128 /\ d = c \div 128
  <2>1. n \div 16384 = (n \div 128) \div 128
    BY SMT, <1>1
  <2>2. n \div 2097152 = (n \div 16384) \div 128
    BY SMT, <1>1
  <2>3. n \div 268435456 = (n \div 2097152) \div 128
    BY SMT, <1>1
  <2>4. QED
    BY SMT, <2>1, <2>2, <2>3
<1>4. d \in -8..7
  BY SMT, <1>1
<1>5. /\ Group(n, 1) = n % 128 /\ Group(n, 2) = a % 128 /\ Group(n, 3) = b % 128
      /\ Group(n, 4) = c % 128 /\ Group(n, 5) = d % 128
  BY SMT, <1>1, GroupValues
<1>6. top = d
  <2>1. \A q \in -8..7 : (IF (q % 128) % 16 >= 8 THEN ((q % 128) % 16) - 16 ELSE (q % 128) % 16) = q
    BY SMT
  <2> HIDE DEF d
  <2>2. QED
    BY SMT, <1>4, <1>5, <2>1
<1>7. \A m \in Int : m = (128 * (m \div 128)) + (m % 128) /\ m % 128 \in Int
  BY SMT
<1>8. n = (128 * a) + (n % 128) /\ a = (128 * b) + (a % 128)
      /\ b = (128 * c) + (b % 128) /\ c = (128 * d) + (c % 128)
      /\ n % 128 \in Int /\ a % 128 \in Int /\ b % 128 \in Int /\ c % 128 \in Int
  BY SMT, <1>1, <1>2, <1>3, <1>7
<1> HIDE DEF a, b, c, d, top
<1>9. Group(n, 1) + 128 * Group(n, 2) + 16384 * Group(n, 3) + 2097152 * Group(n, 4)
        + top * 268435456 = n
  <2>1. (n % 128) + 128 * (a % 128) + 16384 * (b % 128) + 2097152 * (c % 128)
          + d * 268435456 = n
    BY <1>1, <1>2, <1>8, PlaceValues
  <2>2. QED
    BY <1>5, <1>6, <2>1
<1>10. QED
  BY SMT, <1>9 DEF top

\* The groups beyond the last byte are zero.
LEMMA SizeFits ==
  ASSUME NEW n \in Int32s
  PROVE  /\ VarintSize(n) \in 1..10
         /\ \A k \in 1..5 : k > VarintSize(n) => Group(n, k) = 0
<1>1. n \in Int
  BY SMT DEF Int32s
<1>2. VarintSize(n) \in {1, 2, 3, 4, 5, 10}
  BY SMT, <1>1 DEF VarintSize
<1>3. /\ VarintSize(n) < 2 => 0 <= n /\ n < 128
      /\ VarintSize(n) < 3 => 0 <= n /\ n < 16384
      /\ VarintSize(n) < 4 => 0 <= n /\ n < 2097152
      /\ VarintSize(n) < 5 => 0 <= n /\ n < 268435456
  BY SMT, <1>1 DEF VarintSize
<1>4. /\ 0 <= n /\ n < 128 => n \div 128 = 0
      /\ 0 <= n /\ n < 16384 => n \div 16384 = 0
      /\ 0 <= n /\ n < 2097152 => n \div 2097152 = 0
      /\ 0 <= n /\ n < 268435456 => n \div 268435456 = 0
  BY SMT, <1>1
<1>5. 0 % 128 = 0
  BY SMT
<1>6. /\ VarintSize(n) < 2 => Group(n, 2) = 0
      /\ VarintSize(n) < 3 => Group(n, 3) = 0
      /\ VarintSize(n) < 4 => Group(n, 4) = 0
      /\ VarintSize(n) < 5 => Group(n, 5) = 0
  <2>1. /\ Group(n, 2) = (n \div 128) % 128 /\ Group(n, 3) = (n \div 16384) % 128
        /\ Group(n, 4) = (n \div 2097152) % 128 /\ Group(n, 5) = (n \div 268435456) % 128
    BY SMT, <1>1, GroupValues
  <2>2. VarintSize(n) < 2 => n \div 128 = 0
    BY SMT, <1>3, <1>4
  <2>3. VarintSize(n) < 3 => n \div 16384 = 0
    BY SMT, <1>3, <1>4
  <2>4. VarintSize(n) < 4 => n \div 2097152 = 0
    BY SMT, <1>3, <1>4
  <2>5. VarintSize(n) < 5 => n \div 268435456 = 0
    BY SMT, <1>3, <1>4
  <2>6. QED
    BY SMT, <1>5, <2>1, <2>2, <2>3, <2>4, <2>5
<1>7. \A k \in 1..5 : k = 1 \/ k = 2 \/ k = 3 \/ k = 4 \/ k = 5
  BY SMT
<1>8. QED
  BY SMT, <1>2, <1>6, <1>7

\* A varint is bytes, the last one below 128 and the others not.
LEMMA VarintBytes ==
  ASSUME NEW n \in Int32s
  PROVE  /\ Varint(n) \in Seq(Bytes) /\ Len(Varint(n)) = VarintSize(n) /\ VarintSize(n) \in 1..10
         /\ \A k \in 1..VarintSize(n) :
               /\ Varint(n)[k] = IF k = VarintSize(n) THEN Group(n, k) ELSE 128 + Group(n, k)
               /\ Varint(n)[k] % 128 = Group(n, k)
               /\ Varint(n)[k] < 128 <=> k = VarintSize(n)
<1> DEFINE size == VarintSize(n)
           byte(k) == IF k = size THEN Group(n, k) ELSE 128 + Group(n, k)
<1>1. size \in 1..10 /\ n \in Int
  BY SMT, SizeFits DEF Int32s
<1>2. Varint(n) = [k \in 1..size |-> byte(k)]
  BY DEF Varint, Group
<1>3. \A k \in 1..size : Group(n, k) \in 0..127
  <2>1. \A k \in 1..10 : Group(n, k) \in 0..127
    BY <1>1, GroupRange
  <2> HIDE DEF size
  <2>2. \A k \in 1..size : k \in 1..10
    BY <1>1
  <2>3. QED
    BY <2>1, <2>2
<1>4. \A g \in 0..127 : /\ g \in Bytes /\ 128 + g \in Bytes
                        /\ g % 128 = g /\ (128 + g) % 128 = g
                        /\ g < 128 /\ ~(128 + g < 128)
  BY SMT DEF Bytes
<1>5. \A k \in 1..size : /\ byte(k) \in Bytes /\ byte(k) % 128 = Group(n, k)
                         /\ byte(k) < 128 <=> k = size
  <2> SUFFICES ASSUME NEW k \in 1..size
               PROVE  /\ byte(k) \in Bytes /\ byte(k) % 128 = Group(n, k)
                      /\ byte(k) < 128 <=> k = size
    OBVIOUS
  <2>1. Group(n, k) \in 0..127
    BY <1>3
  <2>2. CASE k = size
    BY <1>4, <2>1, <2>2
  <2>3. CASE k # size
    BY <1>4, <2>1, <2>3
  <2>4. QED
    BY <2>2, <2>3
<1> HIDE DEF size, byte
<1>6. Varint(n) \in [1..size -> Bytes]
  BY <1>2, <1>5
<1>7. Varint(n) \in Seq(Bytes) /\ Len(Varint(n)) = size
  <2>1. size \in Nat
    BY <1>1
  <2>2. DOMAIN Varint(n) = 1..size
    BY <1>2
  <2>3. Varint(n) \in Seq(Bytes)
    BY <1>6, <2>1, SeqDef
  <2>4. QED
    BY <2>1, <2>2, <2>3, LenProperties
<1>8. \A k \in 1..size : Varint(n)[k] = byte(k)
  BY <1>2
<1>9. QED
  BY <1>1, <1>5, <1>7, <1>8 DEF size, byte

\* An int32 is read as it was written, and no more than was written.
LEMMA VarintRead ==
  ASSUME NEW n \in Int32s, NEW s \in Seq(Bytes)
  PROVE  Leading(Varint(n) \o s) = Varint(n) /\ Int32(Varint(n) \o s) = n
<1> DEFINE size == VarintSize(n)
           all == Varint(n) \o s
<1>1. /\ Varint(n) \in Seq(Bytes) /\ Len(Varint(n)) = size /\ size \in 1..10
      /\ \A k \in 1..size : /\ Varint(n)[k] % 128 = Group(n, k)
                            /\ Varint(n)[k] < 128 <=> k = size
  BY VarintBytes
<1>2. /\ all \in Seq(Bytes) /\ Len(all) = size + Len(s) /\ SubSeq(all, 1, size) = Varint(n)
      /\ \A k \in 1..size : all[k] = Varint(n)[k]
  <2> HIDE DEF size
  <2>1. /\ all \in Seq(Bytes) /\ Len(all) = Len(Varint(n)) + Len(s)
        /\ SubSeq(all, 1, Len(Varint(n))) = Varint(n)
        /\ \A k \in 1..Len(Varint(n)) : all[k] = Varint(n)[k]
    BY <1>1, Joint
  <2>2. QED
    BY <1>1, <2>1
<1> HIDE DEF size, all
<1>3. size \in DOMAIN all /\ all[size] < 128
  <2>1. size <= Len(all) /\ size \in 1..size
    BY <1>1, <1>2
  <2>2. QED
    BY <1>1, <1>2, <2>1
<1>4. \A k \in 1..(size - 1) : all[k] >= 128
  <2> SUFFICES ASSUME NEW k \in 1..(size - 1) PROVE all[k] >= 128
    OBVIOUS
  <2>1. k \in 1..size /\ k # size
    BY <1>1
  <2>2. ~(all[k] < 128) /\ k \in DOMAIN all
    BY <1>1, <1>2, <2>1
  <2>3. all[k] \in Int
    <3>1. all[k] \in Bytes
      BY <1>2, <2>2
    <3>2. QED
      BY <3>1, BytesAreNumbers
  <2>4. QED
    BY <2>2, <2>3
<1>5. Leading(all) = Varint(n)
  <2>1. Leading(all) = SubSeq(all, 1, size)
    BY <1>2, <1>3, <1>4, LeadingEnds
  <2>2. QED
    BY <1>2, <2>1
<1> DEFINE group(k) == IF k > Len(Leading(all)) THEN 0 ELSE all[k] % 128
<1>6. ASSUME NEW k \in 1..5 PROVE group(k) = Group(n, k)
  <2>1. CASE k > size
    BY <1>1, <1>5, <2>1, SizeFits DEF size
  <2>2. CASE ~(k > size)
    <3>1. k \in 1..size
      BY <1>1, <2>2
    <3>2. all[k] % 128 = Group(n, k)
      BY <1>1, <1>2, <3>1
    <3>3. QED
      BY <1>1, <1>5, <2>2, <3>2
  <2>3. QED
    BY <2>1, <2>2
<1>7. /\ group(1) = Group(n, 1) /\ group(2) = Group(n, 2) /\ group(3) = Group(n, 3)
      /\ group(4) = Group(n, 4) /\ group(5) = Group(n, 5)
  BY <1>6
<1>8. Int32(all) = LET high == group(5) % 16
                   IN  group(1) + 128 * group(2) + 16384 * group(3) + 2097152 * group(4)
                         + (IF high >= 8 THEN high - 16 ELSE high) * 268435456
  BY SMT DEF Int32
<1> HIDE DEF group
<1>9. Int32(all) = n
  BY SMT, <1>7, <1>8, Digits
<1>10. QED
  BY <1>5, <1>9 DEF all

LEMMA VarintAlone ==
  ASSUME NEW n \in Int32s
  PROVE  Int32(Varint(n)) = n
<1>1. Varint(n) \in Seq(Bytes) /\ <<>> \in Seq(Bytes)
  BY VarintBytes
<1>2. Varint(n) \o <<>> = Varint(n)
  BY <1>1, ConcatEmptySeq
<1>3. QED
  BY <1>1, <1>2, VarintRead

-----------------------------------------------------------------------------
(* Fields.                                                                 *)

\* What stands between two sequences.
LEMMA Between ==
  ASSUME NEW a \in Seq(Bytes), NEW b \in Seq(Bytes), NEW c \in Seq(Bytes)
  PROVE  SubSeq(a \o (b \o c), Len(a) + 1, Len(a) + Len(b)) = b
<1> DEFINE tail == b \o c
           whole == a \o tail
           first == Len(a) + 1
           last == Len(a) + Len(b)
<1>1. /\ Len(a) \in Nat /\ Len(b) \in Nat /\ Len(c) \in Nat
      /\ tail \in Seq(Bytes) /\ Len(tail) = Len(b) + Len(c)
      /\ \A i \in 1..Len(b) : tail[i] = b[i]
  BY Joint, LenProperties
<1> HIDE DEF tail
<1>2. /\ whole \in Seq(Bytes) /\ Len(whole) = Len(a) + Len(tail)
      /\ \A i \in 1..(Len(a) + Len(tail)) :
            whole[i] = IF i <= Len(a) THEN a[i] ELSE tail[i - Len(a)]
  <2>1. /\ a \o tail \in Seq(Bytes) /\ Len(a \o tail) = Len(a) + Len(tail)
        /\ \A i \in 1..(Len(a) + Len(tail)) :
              (a \o tail)[i] = IF i <= Len(a) THEN a[i] ELSE tail[i - Len(a)]
    <3>1. a \in Seq(Bytes) /\ tail \in Seq(Bytes)
      BY <1>1
    <3>2. QED
      BY ONLY <3>1, ConcatProperties
  <2>2. QED
    BY <2>1
<1> HIDE DEF whole
<1>3. /\ first \in Int /\ last \in Int /\ last - first + 1 = Len(b)
      /\ \A i \in first..last : i \in 1..Len(whole)
  BY <1>1, <1>2
<1>4. \A i \in first..last : whole[i] \in Bytes
  BY <1>2, <1>3
<1>5. Len(b) = IF first <= last THEN last - first + 1 ELSE 0
  BY <1>1, <1>3
<1>6. \A i \in 1..Len(b) : /\ first + i - 1 \in 1..(Len(a) + Len(tail))
                           /\ ~(first + i - 1 <= Len(a))
                           /\ (first + i - 1) - Len(a) = i
  BY <1>1
<1>7. \A i \in 1..Len(b) : whole[first + i - 1] = b[i]
  BY <1>1, <1>2, <1>6
<1> HIDE DEF first, last
<1>8. /\ SubSeq(whole, first, last) \in Seq(Bytes)
      /\ Len(SubSeq(whole, first, last)) = IF first <= last THEN last - first + 1 ELSE 0
      /\ \A i \in 1..(last - first + 1) : SubSeq(whole, first, last)[i] = whole[first + i - 1]
  BY <1>3, <1>4, SubSeqProperties
<1>9. /\ Len(SubSeq(whole, first, last)) = Len(b)
      /\ \A i \in 1..Len(SubSeq(whole, first, last)) : SubSeq(whole, first, last)[i] = b[i]
  BY <1>3, <1>5, <1>7, <1>8
<1>10. SubSeq(whole, first, last) = b
  BY <1>8, <1>9, SeqEqual
<1>11. QED
  BY <1>10 DEF whole, tail, first, last

LEMMA Regroup ==
  ASSUME NEW a \in Seq(Bytes), NEW b \in Seq(Bytes), NEW c \in Seq(Bytes)
  PROVE  (a \o b) \o c = a \o (b \o c)
  BY ConcatAssociative

\* The tags of the fields 1 to 15.
LEMMA Tags ==
  ASSUME NEW i \in 1..15
  PROVE  /\ 8 * i \in Int32s /\ VarintSize(8 * i) = 1
         /\ (8 * i) % 8 = 0 /\ (8 * i) \div 8 = i
         /\ 8 * i + 2 \in Int32s /\ VarintSize(8 * i + 2) = 1
         /\ (8 * i + 2) % 8 = 2 /\ (8 * i + 2) \div 8 = i
<1>1. 8 * i \in 0..127 /\ 8 * i + 2 \in 0..127
  BY SMT
<1>2. \A n \in 0..127 : n \in Int32s /\ VarintSize(n) = 1
  BY SMT DEF Int32s, VarintSize
<1>3. QED
  BY SMT, <1>1, <1>2

\* What the parser makes of the head of the input: an int32 and a string.
LEMMA Int32Field ==
  ASSUME NEW i \in 1..15, NEW v \in Int32s, NEW more \in Seq(Bytes)
  PROVE  LET written == WriteField(i, "int32", v)
         IN  /\ written \in Seq(Bytes) /\ Len(written) = FieldSize("int32", v)
             /\ Field(written \o more) = [num |-> i, type |-> "int32", v |-> v, bytes |-> written]
<1> DEFINE number == Varint(8 * i)
           value == Varint(v)
           written == number \o value
           all == written \o more
           body == SubSeq(all, Len(number) + 1, Len(all))
<1>1. /\ number \in Seq(Bytes) /\ Len(number) = 1
      /\ value \in Seq(Bytes) /\ Len(value) = VarintSize(v) /\ Len(value) \in Nat
  <2>1. 8 * i \in Int32s /\ VarintSize(8 * i) = 1
    BY Tags
  <2>2. VarintSize(v) \in 1..10 /\ \A n \in 1..10 : n \in Nat
    BY VarintBytes
  <2>3. number \in Seq(Bytes) /\ Len(number) = 1
    BY <2>1, VarintBytes
  <2>4. value \in Seq(Bytes) /\ Len(value) = VarintSize(v)
    BY VarintBytes
  <2>5. QED
    BY <2>2, <2>3, <2>4
<1>2. /\ \A s \in Seq(Bytes) : Leading(number \o s) = number
      /\ Int32(number) = 8 * i
      /\ \A s \in Seq(Bytes) : Leading(value \o s) = value /\ Int32(value \o s) = v
  BY Tags, VarintRead, VarintAlone
<1> HIDE DEF number, value
<1>3. /\ written \in Seq(Bytes) /\ Len(written) = Len(number) + Len(value)
      /\ value \o more \in Seq(Bytes)
  BY <1>1, Joint
<1>4. all = number \o (value \o more)
  BY <1>1, Regroup
<1> HIDE DEF written, all
<1>5. SubSeq(all, 1, Len(number) + Len(value)) = written
  <2>1. SubSeq(written \o more, 1, Len(written)) = written
    BY <1>3, Joint
  <2>2. QED
    BY <1>3, <2>1 DEF all
<1>6. Leading(all) = number
  BY <1>2, <1>3, <1>4
<1>7. body = value \o more
  <2>1. SubSeq(number \o (value \o more), Len(number) + 1, Len(number \o (value \o more)))
           = value \o more
    BY <1>1, <1>3, Joint
  <2>2. QED
    BY <1>4, <2>1
<1> HIDE DEF body
<1>8. Leading(body) = value /\ Int32(body) = v
  BY <1>2, <1>7
<1>9. Int32(Leading(all)) % 8 = 0 /\ Int32(Leading(all)) \div 8 = i
  BY <1>2, <1>6, Tags
<1>10. WriteField(i, "int32", v) = written
  BY DEF WriteField, written, number, value
<1>11. Len(number) + (Len(Leading(body)) + 1 - 1) = Len(number) + Len(value)
  BY <1>1, <1>8
<1>12. Field(all) = [num |-> Int32(Leading(all)) \div 8, type |-> "int32", v |-> Int32(body),
                     bytes |-> SubSeq(all, 1, Len(number) + (Len(Leading(body)) + 1 - 1))]
  BY <1>6, <1>9 DEF Field, body
<1>13. Field(all) = [num |-> i, type |-> "int32", v |-> v, bytes |-> written]
  BY <1>5, <1>8, <1>9, <1>11, <1>12
<1>14. Len(written) = FieldSize("int32", v)
  BY <1>1, <1>3 DEF FieldSize
<1>15. QED
  BY <1>3, <1>10, <1>13, <1>14 DEF all

LEMMA StringField ==
  ASSUME NEW i \in 1..15, NEW v \in Values("string"), NEW more \in Seq(Bytes)
  PROVE  LET written == WriteField(i, "string", v)
         IN  /\ written \in Seq(Bytes) /\ Len(written) = FieldSize("string", v)
             /\ Field(written \o more) = [num |-> i, type |-> "string", v |-> v, bytes |-> written]
<1> DEFINE number == Varint(8 * i + 2)
           length == Varint(Len(v))
           head == number \o length
           written == head \o v
           all == written \o more
           body == SubSeq(all, Len(number) + 1, Len(all))
<1>1. v \in Seq(Bytes) /\ Len(v) \in Int32s /\ Len(v) \in Nat
  BY SMT DEF Values, Int32s
<1>2. /\ number \in Seq(Bytes) /\ Len(number) = 1
      /\ length \in Seq(Bytes) /\ Len(length) = VarintSize(Len(v)) /\ Len(length) \in Nat
  <2>1. 8 * i + 2 \in Int32s /\ VarintSize(8 * i + 2) = 1
    BY Tags
  <2>2. VarintSize(Len(v)) \in 1..10 /\ \A n \in 1..10 : n \in Nat
    BY <1>1, VarintBytes
  <2>3. number \in Seq(Bytes) /\ Len(number) = 1
    BY <2>1, VarintBytes
  <2>4. length \in Seq(Bytes) /\ Len(length) = VarintSize(Len(v))
    BY <1>1, VarintBytes
  <2>5. QED
    BY <2>2, <2>3, <2>4
<1>3. /\ \A s \in Seq(Bytes) : Leading(number \o s) = number
      /\ Int32(number) = 8 * i + 2
      /\ \A s \in Seq(Bytes) : Leading(length \o s) = length /\ Int32(length \o s) = Len(v)
  BY <1>1, Tags, VarintRead, VarintAlone
<1> HIDE DEF number, length
<1>4. /\ head \in Seq(Bytes) /\ Len(head) = Len(number) + Len(length)
      /\ v \o more \in Seq(Bytes) /\ length \o (v \o more) \in Seq(Bytes)
  BY <1>1, <1>2, Joint
<1>5. /\ written \in Seq(Bytes) /\ Len(written) = Len(number) + (Len(length) + Len(v))
  <2> HIDE DEF head
  <2>1. /\ written \in Seq(Bytes) /\ Len(written) = Len(head) + Len(v)
    BY <1>1, <1>4, Joint
  <2>2. QED
    BY <1>1, <1>2, <1>4, <2>1
<1>6. all = number \o (length \o (v \o more))
  <2> DEFINE rest == v \o more
  <2>1. rest \in Seq(Bytes)
    BY <1>4
  <2> HIDE DEF rest
  <2>2. number \o (length \o rest) = head \o rest
    <3>1. number \in Seq(Bytes) /\ length \in Seq(Bytes) /\ rest \in Seq(Bytes)
      BY <1>2, <2>1
    <3>2. (number \o length) \o rest = number \o (length \o rest)
      BY SMTT(30), <3>1, Regroup
    <3>3. QED
      BY <3>2
  <2> HIDE DEF head
  <2>3. head \in Seq(Bytes) /\ v \in Seq(Bytes)
    BY <1>1, <1>4
  <2>4. head \o rest = (head \o v) \o more
    BY <2>3, Regroup DEF rest
  <2>5. QED
    BY <2>2, <2>4 DEF rest
<1> HIDE DEF written, all
<1>7. SubSeq(all, 1, Len(number) + (Len(length) + Len(v))) = written
  <2>1. SubSeq(written \o more, 1, Len(written)) = written
    BY <1>5, Joint
  <2>2. QED
    BY <1>5, <2>1 DEF all
<1>8. Leading(all) = number
  BY <1>3, <1>4, <1>6
<1>9. body = length \o (v \o more)
  <2> DEFINE rest == length \o (v \o more)
  <2>1. rest \in Seq(Bytes) /\ all = number \o rest
    BY <1>4, <1>6
  <2> HIDE DEF rest
  <2>2. SubSeq(number \o rest, Len(number) + 1, Len(number \o rest)) = rest
    BY <1>2, <2>1, Joint
  <2>3. QED
    BY <2>1, <2>2 DEF rest
<1> HIDE DEF body
<1>10. Leading(body) = length /\ Int32(body) = Len(v)
  BY <1>3, <1>4, <1>9
<1>11. SubSeq(body, Len(Leading(body)) + 1, Len(Leading(body)) + Int32(body)) = v
  <2>1. SubSeq(length \o (v \o more), Len(length) + 1, Len(length) + Len(v)) = v
    BY <1>1, <1>2, Between
  <2>2. QED
    BY <1>9, <1>10, <2>1
<1>12. Int32(Leading(all)) % 8 = 2 /\ Int32(Leading(all)) \div 8 = i
  BY <1>3, <1>8, Tags
<1>13. WriteField(i, "string", v) = written
  <2>1. WriteField(i, "string", v) = (number \o length) \o v
    BY DEF WriteField, number, length
  <2>2. QED
    BY <2>1 DEF written
<1>14. Field(all) =
         [num |-> Int32(Leading(all)) \div 8, type |-> "string",
          v |-> SubSeq(body, Len(Leading(body)) + 1, Len(Leading(body)) + Int32(body)),
          bytes |-> SubSeq(all, 1, Len(number) + (Len(Leading(body)) + Int32(body)))]
  <2>1. (IF Int32(Leading(all)) % 8 = 0 THEN "int32" ELSE "string") = "string"
    BY <1>12
  <2>2. QED
    BY <1>8, <2>1, Zenon DEF Field, body
<1>15. Field(all) = [num |-> i, type |-> "string", v |-> v, bytes |-> written]
  BY <1>7, <1>10, <1>11, <1>12, <1>14
<1>16. Len(written) = FieldSize("string", v)
  <2>1. FieldSize("string", v) = 1 + VarintSize(Len(v)) + Len(v)
    BY DEF FieldSize
  <2>2. VarintSize(Len(v)) \in Nat /\ Len(written) = 1 + (VarintSize(Len(v)) + Len(v))
    BY <1>2, <1>5
  <2>3. QED
    BY <1>1, <2>1, <2>2
<1>17. QED
  BY <1>5, <1>13, <1>15, <1>16 DEF all

\* Whatever comes after it, a field that one side has written is the first that the other
\* side reads, with the same number, type and value (GetVerifyRsp::_InternalSerialize and the
\* parser of _table_); and it takes the room that ByteSizeLong has counted.
THEOREM FieldArrives ==
  ASSUME NEW i \in 1..15, NEW type \in Types, NEW v \in Values(type), NEW more \in Seq(Bytes)
  PROVE  LET written == WriteField(i, type, v)
         IN  /\ written \in Seq(Bytes) /\ Len(written) = FieldSize(type, v)
             /\ Field(written \o more) = [num |-> i, type |-> type, v |-> v, bytes |-> written]
<1>1. CASE type = "int32"
  <2>1. v \in Int32s
    BY <1>1 DEF Values
  <2>2. QED
    BY <1>1, <2>1, Int32Field
<1>2. CASE type = "string"
  BY <1>2, StringField
<1>3. QED
  BY <1>1, <1>2 DEF Types

-----------------------------------------------------------------------------
(* Objects that are used again.                                            *)

LEMMA Defaults == \A type \in Types : Default(type) \in Values(type)
<1>1. Default("int32") \in Values("int32")
  BY SMT DEF Default, Values, Int32s
<1>2. Default("string") \in Values("string")
  <2>1. <<>> \in Seq(Bytes) /\ Len(<<>>) = 0
    OBVIOUS
  <2>2. 0 <= 2147483647
    BY SMT
  <2>3. QED
    BY SMT, <2>1, <2>2 DEF Default, Values
<1>3. QED
  BY <1>1, <1>2 DEF Types

\* The parts of an object.
Fit(class, value, has, unknown) ==
    /\ class \in Seq(Types) /\ unknown \in Seq(Bytes) /\ has \subseteq DOMAIN class
    /\ value = [i \in DOMAIN class |-> value[i]]
    /\ \A i \in DOMAIN class : /\ value[i] \in Values(class[i])
                               /\ i \in has \/ value[i] = Default(class[i])

LEMMA Parts ==
  ASSUME NEW class, NEW value, NEW has, NEW unknown, Fit(class, value, has, unknown)
  PROVE  Valid([class |-> class, value |-> value, has |-> has, unknown |-> unknown])
<1> DEFINE m == [class |-> class, value |-> value, has |-> has, unknown |-> unknown]
<1>1. /\ m.class = class /\ m.value = value /\ m.has = has /\ m.unknown = unknown
      /\ m = [class |-> m.class, value |-> m.value, has |-> m.has, unknown |-> m.unknown]
  OBVIOUS
<1> HIDE DEF m
<1>2. DOMAIN value = DOMAIN class
  BY DEF Fit
<1>3. Consistent(m)
  BY <1>1 DEF Consistent, IsDefault, Fit
<1>4. Valid(m)
  BY <1>1, <1>2, <1>3 DEF Valid, Fit
<1>5. QED
  BY <1>4 DEF m

LEMMA OneObject ==
  ASSUME NEW r, NEW c, NEW w, NEW h, NEW u,
         r \in [class : {c}, value : {w}, has : {h}, unknown : {u}]
  PROVE  r = [class |-> c, value |-> w, has |-> h, unknown |-> u]
<1>1. r = [class |-> r.class, value |-> r.value, has |-> r.has, unknown |-> r.unknown]
  OBVIOUS
<1>2. r.class = c /\ r.value = w /\ r.has = h /\ r.unknown = u
  OBVIOUS
<1>3. QED
  BY <1>1, <1>2

LEMMA FitParts ==
  ASSUME NEW m, Valid(m)
  PROVE  /\ Fit(m.class, m.value, m.has, m.unknown)
         /\ m = [class |-> m.class, value |-> m.value, has |-> m.has, unknown |-> m.unknown]
  BY DEF Valid, Fit, Consistent, IsDefault

\* A new object, and one field set.
LEMMA NewValid == ASSUME NEW class \in Seq(Types) PROVE Valid(New(class))
<1> DEFINE value == [i \in DOMAIN class |-> Default(class[i])]
<1>1. value = [i \in DOMAIN class |-> value[i]]
  OBVIOUS
<1>2. \A i \in DOMAIN class : class[i] \in Types
  OBVIOUS
<1>3. \A i \in DOMAIN class : value[i] \in Values(class[i]) /\ value[i] = Default(class[i])
  BY <1>2, Defaults
<1>4. New(class) = [class |-> class, value |-> value, has |-> {}, unknown |-> <<>>]
  BY DEF New
<1>5. <<>> \in Seq(Bytes)
  OBVIOUS
<1> HIDE DEF value
<1>6. QED
  BY <1>1, <1>3, <1>4, <1>5, Parts DEF Fit

LEMMA SetValid ==
  ASSUME NEW m, Valid(m), NEW i \in DOMAIN m.class, NEW v \in Values(m.class[i])
  PROVE  Valid(Set(m, i, v))
<1> DEFINE value == [m.value EXCEPT ![i] = v]
           has == m.has \cup {i}
<1>1. /\ m = [class |-> m.class, value |-> m.value, has |-> m.has, unknown |-> m.unknown]
      /\ Fit(m.class, m.value, m.has, m.unknown)
  BY FitParts
<1>2. ASSUME NEW c, NEW w, NEW h, NEW u
      PROVE  [[class |-> c, value |-> w, has |-> h, unknown |-> u]
                 EXCEPT !.value[i] = v, !.has = @ \cup {i}]
               \in [class : {c}, value : {[w EXCEPT ![i] = v]}, has : {h \cup {i}}, unknown : {u}]
  OBVIOUS
<1>3. Set(m, i, v) = [class |-> m.class, value |-> value, has |-> has, unknown |-> m.unknown]
  <2> DEFINE object(c, w, h, u) == [class |-> c, value |-> w, has |-> h, unknown |-> u]
             after == [object(m.class, m.value, m.has, m.unknown)
                          EXCEPT !.value[i] = v, !.has = @ \cup {i}]
  <2>1. after \in [class : {m.class}, value : {value}, has : {has}, unknown : {m.unknown}]
    BY <1>2
  <2>2. Set(m, i, v) = after
    BY <1>1, Zenon DEF Set
  <2> HIDE DEF after, value, has
  <2>3. QED
    BY <2>1, <2>2, OneObject
<1>4. /\ value = [k \in DOMAIN m.class |-> value[k]]
      /\ \A k \in DOMAIN m.class : value[k] = IF k = i THEN v ELSE m.value[k]
  BY <1>1 DEF Fit
<1>5. has \subseteq DOMAIN m.class /\ \A k \in m.has \cup {i} : k \in has
  BY <1>1 DEF Fit
<1> HIDE DEF value, has
<1>6. \A k \in DOMAIN m.class : /\ value[k] \in Values(m.class[k])
                                /\ k \in has \/ value[k] = Default(m.class[k])
  BY <1>1, <1>4, <1>5 DEF Fit
<1>7. Fit(m.class, value, has, m.unknown)
  BY <1>1, <1>4, <1>5, <1>6 DEF Fit
<1>8. QED
  BY <1>3, <1>7, Parts

\* Clear leaves the strings alone whose bit is not set: they are empty.
LEMMA ClearIsNew == ASSUME NEW m, Valid(m) PROVE Clear(m) = New(m.class)
<1> DEFINE value == [i \in DOMAIN m.class |-> Default(m.class[i])]
           kept == [i \in DOMAIN m.class |->
                       IF m.class[i] = "string" /\ i \notin m.has THEN m.value[i] ELSE value[i]]
<1>1. New(m.class) = [class |-> m.class, value |-> value, has |-> {}, unknown |-> <<>>]
  BY DEF New
<1>2. New(m.class).value = value
  BY <1>1
<1>3. Clear(m) = [New(m.class) EXCEPT !.value = kept]
  BY <1>2, Zenon DEF Clear
<1>4. \A i \in DOMAIN m.class : i \notin m.has => m.value[i] = Default(m.class[i])
  BY FitParts DEF Fit
<1>5. kept = value
  BY <1>4
<1> HIDE DEF value, kept
<1>6. [[class |-> m.class, value |-> value, has |-> {}, unknown |-> <<>>] EXCEPT !.value = value]
        \in [class : {m.class}, value : {value}, has : {{}}, unknown : {<<>>}]
  OBVIOUS
<1>7. QED
  BY <1>1, <1>3, <1>5, <1>6, OneObject

\* What MergeFrom makes of the values.
Merged(to, from) ==
    [i \in DOMAIN from.class |->
        IF i \in from.has /\ from.value[i] # Default(from.class[i]) THEN from.value[i] ELSE to.value[i]]

LEMMA MergeParts ==
  ASSUME NEW to, NEW from, Valid(to), Valid(from), to.class = from.class
  PROVE  MergeFrom(to, from) = [class |-> to.class, value |-> Merged(to, from),
                                has |-> to.has \cup from.has,
                                unknown |-> to.unknown \o from.unknown]
<1> DEFINE object(c, w, h, u) == [class |-> c, value |-> w, has |-> h, unknown |-> u]
<1>1. to = object(to.class, to.value, to.has, to.unknown)
  BY FitParts
<1>2. ASSUME NEW c, NEW w, NEW h, NEW u, NEW value
      PROVE  [object(c, w, h, u) EXCEPT !.value = value, !.has = @ \cup from.has,
                                        !.unknown = @ \o from.unknown]
               \in [class : {c}, value : {value}, has : {h \cup from.has},
                    unknown : {u \o from.unknown}]
  OBVIOUS
<1>3. MergeFrom(to, from)
        = [to EXCEPT !.value = Merged(to, from), !.has = @ \cup from.has,
                     !.unknown = @ \o from.unknown]
  BY Zenon DEF MergeFrom, Merged, IsDefault
<1> DEFINE after == [object(to.class, to.value, to.has, to.unknown)
                        EXCEPT !.value = Merged(to, from), !.has = @ \cup from.has,
                               !.unknown = @ \o from.unknown]
<1>4. after \in [class : {to.class}, value : {Merged(to, from)}, has : {to.has \cup from.has},
                 unknown : {to.unknown \o from.unknown}]
  BY <1>2
<1>5. MergeFrom(to, from) = after
  BY <1>1, <1>3, Zenon
<1> HIDE DEF after
<1>6. QED
  BY <1>4, <1>5, OneObject

LEMMA MergeValid ==
  ASSUME NEW to, NEW from, Valid(to), Valid(from), to.class = from.class
  PROVE  Valid(MergeFrom(to, from))
<1>1. Fit(to.class, to.value, to.has, to.unknown) /\ Fit(from.class, from.value, from.has, from.unknown)
  BY FitParts
<1> DEFINE value == Merged(to, from)
           has == to.has \cup from.has
           unknown == to.unknown \o from.unknown
<1>2. unknown \in Seq(Bytes) /\ has \subseteq DOMAIN to.class /\ to.class \in Seq(Types)
  BY <1>1 DEF Fit
<1>3. /\ value = [i \in DOMAIN to.class |-> value[i]]
      /\ \A i \in DOMAIN to.class :
            value[i] = IF i \in from.has /\ from.value[i] # Default(from.class[i])
                       THEN from.value[i] ELSE to.value[i]
  BY DEF Merged
<1>4. \A i \in to.has \cup from.has : i \in has
  OBVIOUS
<1> HIDE DEF value, has, unknown
<1>5. \A i \in DOMAIN to.class : /\ value[i] \in Values(to.class[i])
                                 /\ i \in has \/ value[i] = Default(to.class[i])
  BY <1>1, <1>3, <1>4 DEF Fit
<1>6. Fit(to.class, value, has, unknown)
  BY <1>2, <1>3, <1>5 DEF Fit
<1>7. Valid([class |-> to.class, value |-> value, has |-> has, unknown |-> unknown])
  BY <1>6, Parts
<1>8. QED
  BY <1>7, MergeParts DEF value, has, unknown

\* Setters, Clear, MergeFrom and CopyFrom leave every field with its type and with its bit,
\* if it has a value (message.pb.cc: CheckHasBitConsistency): without the bit it would not be
\* sent.
THEOREM ObjectsStayValid ==
  ASSUME NEW class \in Seq(Types), NEW to, NEW from, Valid(to), Valid(from),
         to.class = from.class, NEW i \in DOMAIN to.class, NEW v \in Values(to.class[i])
  PROVE  /\ Valid(New(class))
         /\ Valid(Set(to, i, v))
         /\ Valid(Clear(to))
         /\ Valid(MergeFrom(to, from))
         /\ Valid(CopyFrom(to, from))
<1>1. to.class \in Seq(Types)
  BY DEF Valid
<1>2. Valid(New(to.class)) /\ New(to.class).class = to.class
  BY <1>1, NewValid DEF New
<1>3. Valid(Clear(to)) /\ Clear(to).class = from.class
  BY <1>2, ClearIsNew
<1>4. Valid(CopyFrom(to, from))
  BY <1>3, MergeValid DEF CopyFrom
<1>5. QED
  BY <1>3, <1>4, NewValid, SetValid, MergeValid

\* A copy is its original: nothing that the object has held before is left, not in the
\* strings that Clear has not touched either (GetChatServerRsp::CopyFrom).
THEOREM CopiesAreEqual ==
  ASSUME NEW to, NEW from, Valid(to), Valid(from), to.class = from.class
  PROVE  CopyFrom(to, from) = from
<1> DEFINE new == New(from.class)
<1>1. /\ Fit(from.class, from.value, from.has, from.unknown)
      /\ from = [class |-> from.class, value |-> from.value, has |-> from.has,
                 unknown |-> from.unknown]
  BY FitParts
<1>2. /\ Valid(new) /\ new.class = from.class /\ new.has = {} /\ new.unknown = <<>>
      /\ \A i \in DOMAIN from.class : new.value[i] = Default(from.class[i])
  <2>1. from.class \in Seq(Types)
    BY <1>1 DEF Fit
  <2>2. QED
    BY <2>1, NewValid DEF New
<1>3. CopyFrom(to, from) = MergeFrom(new, from)
  BY ClearIsNew DEF CopyFrom
<1> HIDE DEF new
<1>4. Merged(new, from) = from.value
  <2>1. /\ from.value = [i \in DOMAIN from.class |-> from.value[i]]
        /\ \A i \in DOMAIN from.class : i \in from.has \/ from.value[i] = Default(from.class[i])
    BY <1>1 DEF Fit
  <2>2. QED
    BY <1>2, <2>1 DEF Merged
<1>5. new.has \cup from.has = from.has /\ new.unknown \o from.unknown = from.unknown
  BY <1>1, <1>2, ConcatEmptySeq DEF Fit
<1>6. MergeFrom(new, from) = [class |-> from.class, value |-> from.value, has |-> from.has,
                              unknown |-> from.unknown]
  BY <1>2, <1>4, <1>5, MergeParts
<1>7. QED
  BY <1>1, <1>3, <1>6
=============================================================================
