--------------------------- MODULE FastDateProofs ---------------------------
(* The fast conversions of detail/fast_date.hpp give back every date: a date *)
(* turned into days, and the days into a date by multiplications of 64-bit   *)
(* words, is the date it was (DatesComeBack).                                *)
(*                                                                           *)
(* The argument: a word of eight bytes stands for a number (Value), and sums,*)
(* differences, products and quotients of words for those of the numbers, up *)
(* to 2^64 (CarriedValue, PlusNumber, MinusNumber, ProductValue,             *)
(* QuarterValue). The days are counted backwards from the end of a far era   *)
(* (DaysBackwards); a product with a constant and the shift by 64 places then*)
(* is the division it stands for, because the constant is so near to the     *)
(* reciprocal that the error stays below one day, one quarter of a day and   *)
(* one day of a month (CenturiesByProduct, YearsByProduct, DayByProduct).    *)
EXTENDS FastDate, SequenceTheorems, TLAPS
-----------------------------------------------------------------------------
(* Words and numbers                                                       *)

\* One column of a sum: its byte, and what is carried into the next one.
Carry(before, col) ==
    [carry |-> (col + before.carry) \div 256, bytes |-> Append(before.bytes, (col + before.carry) % 256)]

CarrySteps(f, cols, n) ==
    f = [i \in 0..n |-> IF i = 0 THEN [carry |-> 0, bytes |-> <<>>] ELSE Carry(f[i - 1], cols[i])]

\* The columns are carried one after the other.
LEMMA CarriesExist ==
    ASSUME NEW cols, NEW n \in 0..16
    PROVE  \E f : CarrySteps(f, cols, n)
<1> DEFINE r0 == [carry |-> 0, bytes |-> <<>>]
           r1 == Carry(r0, cols[1])
           r2 == Carry(r1, cols[2])
           r3 == Carry(r2, cols[3])
           r4 == Carry(r3, cols[4])
           r5 == Carry(r4, cols[5])
           r6 == Carry(r5, cols[6])
           r7 == Carry(r6, cols[7])
           r8 == Carry(r7, cols[8])
           r9 == Carry(r8, cols[9])
           r10 == Carry(r9, cols[10])
           r11 == Carry(r10, cols[11])
           r12 == Carry(r11, cols[12])
           r13 == Carry(r12, cols[13])
           r14 == Carry(r13, cols[14])
           r15 == Carry(r14, cols[15])
           r16 == Carry(r15, cols[16])
           row(i) == CASE i = 0 -> r0 [] i = 1 -> r1 [] i = 2 -> r2 [] i = 3 -> r3 [] i = 4 -> r4
                       [] i = 5 -> r5 [] i = 6 -> r6 [] i = 7 -> r7 [] i = 8 -> r8 [] i = 9 -> r9
                       [] i = 10 -> r10 [] i = 11 -> r11 [] i = 12 -> r12 [] i = 13 -> r13
                       [] i = 14 -> r14 [] i = 15 -> r15 [] i = 16 -> r16
           f == [i \in 0..n |-> row(i)]
<1>1. \A i \in 1..16 : row(i) = Carry(row(i - 1), cols[i])
  <2> HIDE DEF r0
  <2>1. /\ row(0) = r0 /\ row(1) = r1 /\ row(2) = r2 /\ row(3) = r3 /\ row(4) = r4 /\ row(5) = r5
        /\ row(6) = r6 /\ row(7) = r7 /\ row(8) = r8 /\ row(9) = r9 /\ row(10) = r10 /\ row(11) = r11
        /\ row(12) = r12 /\ row(13) = r13 /\ row(14) = r14 /\ row(15) = r15 /\ row(16) = r16
    <3> HIDE DEF r1, r2, r3, r4, r5, r6, r7, r8, r9, r10, r11, r12, r13, r14, r15, r16
    <3> QED
      OBVIOUS
  <2> HIDE DEF row
  <2> QED
    BY <2>1
<1>2. row(0) = [carry |-> 0, bytes |-> <<>>]
  <2> HIDE DEF r1, r2, r3, r4, r5, r6, r7, r8, r9, r10, r11, r12, r13, r14, r15, r16
  <2> QED
    OBVIOUS
<1> HIDE DEF row
<1>3. \A i \in 0..n : f[i] = IF i = 0 THEN [carry |-> 0, bytes |-> <<>>] ELSE Carry(f[i - 1], cols[i])
  <2> TAKE i \in 0..n
  <2>1. CASE i = 0
    BY <2>1, <1>2
  <2>2. CASE i # 0
    <3>1. i \in 1..16 /\ i - 1 \in 0..n
      BY <2>2
    <3> QED
      BY <3>1, <2>2, <1>1
  <2> QED
    BY <2>1, <2>2
<1>4. CarrySteps(f, cols, n)
  BY <1>3 DEF CarrySteps
<1> QED
  BY <1>4

\* After so many columns: that many bytes, each made of its column and the carry before.
Bytewise(f, cols, i) ==
    /\ f[i].carry \in Int /\ f[i].bytes \in Seq(0..255) /\ Len(f[i].bytes) = i
    /\ \A j \in 1..i : f[i].bytes[j] = (cols[j] + f[j - 1].carry) % 256

\* One more column appends one byte.
LEMMA ByteAppended ==
    ASSUME NEW f, NEW cols, NEW n \in 0..16, NEW i \in 0 .. n - 1, CarrySteps(f, cols, n),
           \A k \in 1..n : cols[k] \in Int, Bytewise(f, cols, i)
    PROVE  /\ Bytewise(f, cols, i + 1)
           /\ f[i + 1].carry = (cols[i + 1] + f[i].carry) \div 256
<1> DEFINE x == cols[i + 1] + f[i].carry
           s == f[i].bytes
<1>0. cols[i + 1] \in Int /\ f[i].carry \in Int
  <2>1. i + 1 \in 1..n
    OBVIOUS
  <2> QED
    BY <2>1 DEF Bytewise
<1>1. x \in Int /\ x % 256 \in 0..255 /\ x \div 256 \in Int
  <2> DEFINE c == cols[i + 1]
             k == f[i].carry
  <2>1. c \in Int /\ k \in Int /\ x = c + k
    BY <1>0
  <2> HIDE DEF c, k, x
  <2> QED
    BY <2>1
<1>2. f[i + 1] = [carry |-> x \div 256, bytes |-> Append(s, x % 256)]
  <2>1. i + 1 \in 0..n /\ i + 1 # 0 /\ i + 1 - 1 = i
    OBVIOUS
  <2>2. f[i + 1] = Carry(f[i], cols[i + 1])
    BY <2>1 DEF CarrySteps
  <2> QED
    BY <2>2 DEF Carry
<1>3. s \in Seq(0..255) /\ Len(s) = i /\ \A j \in 1..i : s[j] = (cols[j] + f[j - 1].carry) % 256
  BY DEF Bytewise
<1> HIDE DEF s
<1>4. \A j \in 1 .. i + 1 : Append(s, x % 256)[j] = (cols[j] + f[j - 1].carry) % 256
  <2> TAKE j \in 1 .. i + 1
  <2>1. CASE j = i + 1
    BY <2>1, <1>1, <1>3, AppendProperties
  <2>2. CASE j \in 1..i
    <3> HIDE DEF x
    <3>1. Append(s, x % 256)[j] = s[j]
      BY <2>2, <1>1, <1>3, AppendProperties
    <3> QED
      BY <3>1, <2>2, <1>3
  <2>3. j = i + 1 \/ j \in 1..i
    OBVIOUS
  <2> HIDE DEF x
  <2> QED
    BY <2>1, <2>2, <2>3, Zenon
<1>5. Append(s, x % 256) \in Seq(0..255) /\ Len(Append(s, x % 256)) = i + 1
  <2> HIDE DEF x
  <2> QED
    BY <1>1, <1>3, AppendProperties
<1> QED
  <2> HIDE DEF x
  <2>1. f[i + 1].carry = x \div 256 /\ f[i + 1].bytes = Append(s, x % 256)
    BY <1>2
  <2>2. f[i + 1].carry = (cols[i + 1] + f[i].carry) \div 256
    BY <2>1 DEF x
  <2> QED
    BY <2>1, <2>2, <1>1, <1>4, <1>5 DEF Bytewise

\* Carried() is what such steps lead to.
LEMMA CarriedBytes ==
    ASSUME NEW n \in 0..16, NEW cols, Len(cols) = n
    PROVE  \E f : CarrySteps(f, cols, n) /\ Carried(cols) = f[n].bytes
<1> DEFINE f == CHOOSE g : CarrySteps(g, cols, n)
<1>1. CarrySteps(f, cols, n)
  BY CarriesExist
<1>2. Carried(cols) = f[n].bytes
  BY DEF Carried, CarrySteps, Carry
<1> QED
  BY <1>1, <1>2

\* The bytes of sums of columns, and what each column carries into the next.
Carries(c, cols, bytes, n) ==
    /\ c[0] = 0
    /\ \A j \in 0..n : c[j] \in Int
    /\ \A j \in 1..n : bytes[j] \in 0..255 /\ cols[j] + c[j - 1] = bytes[j] + 256 * c[j]

\* The steps of Carried() are such a chain.
LEMMA CarryChain ==
    ASSUME NEW f, NEW cols, NEW n \in 0..16, CarrySteps(f, cols, n),
           \A k \in 1..n : cols[k] \in Int, Bytewise(f, cols, n),
           \A j \in 0..n : f[j].carry \in Int
    PROVE  Carries([j \in 0..n |-> f[j].carry], cols, f[n].bytes, n)
<1> DEFINE c == [j \in 0..n |-> f[j].carry]
<1>1. c[0] = 0
  BY DEF CarrySteps
<1>2. ASSUME NEW j \in 1..n
      PROVE  f[n].bytes[j] \in 0..255 /\ cols[j] + c[j - 1] = f[n].bytes[j] + 256 * c[j]
  <2>1. j \in 0..n /\ j - 1 \in 0..n /\ j # 0
    OBVIOUS
  <2>2. f[j] = Carry(f[j - 1], cols[j])
    BY <2>1 DEF CarrySteps
  <2> DEFINE x == cols[j] + f[j - 1].carry
  <2>3. f[j].carry = x \div 256 /\ c[j] = f[j].carry /\ c[j - 1] = f[j - 1].carry
    BY <2>1, <2>2 DEF Carry
  <2>4. f[n].bytes[j] = x % 256
    BY DEF Bytewise
  <2>5. x \in Int
    <3>1. cols[j] \in Int /\ f[j - 1].carry \in Int
      BY <2>1
    <3> QED
      BY <3>1
  <2> HIDE DEF c
  <2>6. x = cols[j] + c[j - 1]
    BY <2>3
  <2> HIDE DEF x
  <2> QED
    BY <2>3, <2>4, <2>5, <2>6
<1> QED
  BY <1>1, <1>2 DEF Carries

\* Up to sixteen columns, one byte after the other.
LEMMA BytesInTurn ==
    ASSUME NEW f, NEW cols, NEW n \in {8, 16}, CarrySteps(f, cols, n), \A k \in 1..n : cols[k] \in Int
    PROVE  Bytewise(f, cols, n) /\ \A j \in 0..n : f[j].carry \in Int
<1>1. Bytewise(f, cols, 0)
  <2>1. f[0] = [carry |-> 0, bytes |-> <<>>]
    BY DEF CarrySteps
  <2> QED
    BY <2>1, EmptySeq DEF Bytewise
<1>2. \A i \in 0 .. n - 1 : Bytewise(f, cols, i) => Bytewise(f, cols, i + 1)
  BY ByteAppended
<1>3. \A j \in 0..8 : Bytewise(f, cols, j)
  <2>1. Bytewise(f, cols, 1)
    BY <1>1, <1>2
  <2>2. Bytewise(f, cols, 2)
    BY <2>1, <1>2
  <2>3. Bytewise(f, cols, 3)
    BY <2>2, <1>2
  <2>4. Bytewise(f, cols, 4)
    BY <2>3, <1>2
  <2>5. Bytewise(f, cols, 5)
    BY <2>4, <1>2
  <2>6. Bytewise(f, cols, 6)
    BY <2>5, <1>2
  <2>7. Bytewise(f, cols, 7)
    BY <2>6, <1>2
  <2>8. Bytewise(f, cols, 8)
    BY <2>7, <1>2
  <2> QED
    BY <1>1, <2>1, <2>2, <2>3, <2>4, <2>5, <2>6, <2>7, <2>8
<1>4. n = 16 => \A j \in 9..16 : Bytewise(f, cols, j)
  <2> SUFFICES ASSUME n = 16 PROVE \A j \in 9..16 : Bytewise(f, cols, j)
    OBVIOUS
  <2>1. Bytewise(f, cols, 9)
    BY <1>3, <1>2
  <2>2. Bytewise(f, cols, 10)
    BY <2>1, <1>2
  <2>3. Bytewise(f, cols, 11)
    BY <2>2, <1>2
  <2>4. Bytewise(f, cols, 12)
    BY <2>3, <1>2
  <2>5. Bytewise(f, cols, 13)
    BY <2>4, <1>2
  <2>6. Bytewise(f, cols, 14)
    BY <2>5, <1>2
  <2>7. Bytewise(f, cols, 15)
    BY <2>6, <1>2
  <2>8. Bytewise(f, cols, 16)
    BY <2>7, <1>2
  <2> QED
    BY <2>1, <2>2, <2>3, <2>4, <2>5, <2>6, <2>7, <2>8
<1>5. \A j \in 0..n : Bytewise(f, cols, j)
  BY <1>3, <1>4
<1> QED
  BY <1>5 DEF Bytewise

\* Eight columns make a word, sixteen the bytes of a product.
LEMMA CarriedColumns ==
    ASSUME NEW n \in {8, 16}, NEW cols, Len(cols) = n, \A k \in 1..n : cols[k] \in Int
    PROVE  \E c : Carries(c, cols, Carried(cols), n)
<1>0. n \in 0..16
  OBVIOUS
<1>1. PICK f : CarrySteps(f, cols, n) /\ Carried(cols) = f[n].bytes
  BY <1>0, CarriedBytes
<1>2. Bytewise(f, cols, n) /\ \A j \in 0..n : f[j].carry \in Int
  BY <1>1, BytesInTurn
<1>3. Carries([j \in 0..n |-> f[j].carry], cols, f[n].bytes, n)
  BY <1>0, <1>1, <1>2, CarryChain
<1> QED
  BY <1>1, <1>3

\* The number a word stands for.
Value(w) ==
    w[1] + 256 * w[2] + 65536 * w[3] + 16777216 * w[4] + 4294967296 * w[5]
      + 1099511627776 * w[6] + 281474976710656 * w[7] + 72057594037927936 * w[8]

TwoTo64 == 18446744073709551616

\* Eight columns with their carries have the value of their sum, wrapped.
LEMMA WrappedSum ==
    ASSUME NEW cols, NEW bytes, NEW c, Carries(c, cols, bytes, 8)
    PROVE  /\ Value(bytes) \in 0 .. TwoTo64 - 1
           /\ c[8] \in Int
           /\ (\A k \in 1..8 : cols[k] \in Int) => Value(cols) = Value(bytes) + TwoTo64 * c[8]
<1> DEFINE b1 == bytes[1]
           b2 == bytes[2]
           b3 == bytes[3]
           b4 == bytes[4]
           b5 == bytes[5]
           b6 == bytes[6]
           b7 == bytes[7]
           b8 == bytes[8]
           k1 == cols[1]
           k2 == cols[2]
           k3 == cols[3]
           k4 == cols[4]
           k5 == cols[5]
           k6 == cols[6]
           k7 == cols[7]
           k8 == cols[8]
           c0 == c[0]
           c1 == c[1]
           c2 == c[2]
           c3 == c[3]
           c4 == c[4]
           c5 == c[5]
           c6 == c[6]
           c7 == c[7]
           c8 == c[8]
<1>1. c0 = 0 /\ c1 \in Int /\ c2 \in Int /\ c3 \in Int /\ c4 \in Int /\ c5 \in Int /\ c6 \in Int /\ c7 \in Int /\ c8 \in Int
  BY DEF Carries
<1>2. b1 \in 0..255 /\ b2 \in 0..255 /\ b3 \in 0..255 /\ b4 \in 0..255 /\ b5 \in 0..255 /\ b6 \in 0..255 /\ b7 \in 0..255 /\ b8 \in 0..255
  BY DEF Carries
<1>3. k1 + c0 = b1 + 256 * c1 /\ k2 + c1 = b2 + 256 * c2 /\ k3 + c2 = b3 + 256 * c3 /\ k4 + c3 = b4 + 256 * c4 /\ k5 + c4 = b5 + 256 * c5 /\ k6 + c5 = b6 + 256 * c6 /\ k7 + c6 = b7 + 256 * c7 /\ k8 + c7 = b8 + 256 * c8
  BY DEF Carries
<1>4. Value(bytes) = b1 + 256 * b2 + 65536 * b3 + 16777216 * b4 + 4294967296 * b5 + 1099511627776 * b6 + 281474976710656 * b7 + 72057594037927936 * b8
  BY DEF Value
<1>5. Value(cols) = k1 + 256 * k2 + 65536 * k3 + 16777216 * k4 + 4294967296 * k5 + 1099511627776 * k6 + 281474976710656 * k7 + 72057594037927936 * k8
  BY DEF Value
<1>6. (\A k \in 1..8 : cols[k] \in Int) => k1 \in Int /\ k2 \in Int /\ k3 \in Int /\ k4 \in Int /\ k5 \in Int /\ k6 \in Int /\ k7 \in Int /\ k8 \in Int
  OBVIOUS
<1> HIDE DEF b1, b2, b3, b4, b5, b6, b7, b8, k1, k2, k3, k4, k5, k6, k7, k8, c0, c1, c2, c3, c4, c5, c6, c7
<1>7. Value(bytes) \in 0 .. TwoTo64 - 1
  BY <1>2, <1>4, SMT DEF TwoTo64
<1>8. ASSUME \A k \in 1..8 : cols[k] \in Int
      PROVE  Value(cols) = Value(bytes) + TwoTo64 * c8
  <2> HIDE DEF c8
  <2>1. k1 \in Int /\ k2 \in Int /\ k3 \in Int /\ k4 \in Int /\ k5 \in Int /\ k6 \in Int /\ k7 \in Int /\ k8 \in Int
    BY <1>6, <1>8
  <2> QED
    BY <2>1, <1>1, <1>2, <1>3, <1>4, <1>5, SMT DEF TwoTo64
<1> QED
  BY <1>1, <1>7, <1>8

\* Eight bytes.
IsWord(w) == \A i \in 1..8 : w[i] \in 0..255

\* The bytes of a word are integers.
LEMMA WordBytes == ASSUME NEW w, IsWord(w) PROVE \A k \in 1..8 : w[k] \in Int /\ w[k] \in 0..255
<1> TAKE k \in 1..8
<1>1. w[k] \in 0..255
  BY DEF IsWord
<1> QED
  BY <1>1

\* A word is a number below 2^64.
LEMMA WordValue == ASSUME NEW w, IsWord(w) PROVE Value(w) \in 0 .. TwoTo64 - 1
<1> DEFINE b1 == w[1]
           b2 == w[2]
           b3 == w[3]
           b4 == w[4]
           b5 == w[5]
           b6 == w[6]
           b7 == w[7]
           b8 == w[8]
<1>1. b1 \in 0..255 /\ b2 \in 0..255 /\ b3 \in 0..255 /\ b4 \in 0..255 /\ b5 \in 0..255 /\ b6 \in 0..255 /\ b7 \in 0..255 /\ b8 \in 0..255
  BY DEF IsWord
<1>2. Value(w) = b1 + 256 * b2 + 65536 * b3 + 16777216 * b4 + 4294967296 * b5 + 1099511627776 * b6 + 281474976710656 * b7 + 72057594037927936 * b8
  BY DEF Value
<1> HIDE DEF b1, b2, b3, b4, b5, b6, b7, b8
<1> QED
  BY <1>1, <1>2, SMT DEF TwoTo64

\* Bytes carried out of eight columns are the sum of the columns, wrapped.
LEMMA CarriedValue ==
    ASSUME NEW cols, Len(cols) = 8, \A k \in 1..8 : cols[k] \in Int
    PROVE  /\ IsWord(Carried(cols))
           /\ \E k \in Int : Value(cols) = Value(Carried(cols)) + TwoTo64 * k
<1>1. PICK c : Carries(c, cols, Carried(cols), 8)
  BY CarriedColumns
<1>2. IsWord(Carried(cols))
  BY <1>1 DEF Carries, IsWord
<1>3. c[8] \in Int /\ Value(cols) = Value(Carried(cols)) + TwoTo64 * c[8]
  BY <1>1, WrappedSum
<1> QED
  BY <1>2, <1>3

\* A number as a word.
LEMMA ToWordValue ==
    ASSUME NEW n \in Int
    PROVE  IsWord(ToWord(n)) /\ \E k \in Int : n = Value(ToWord(n)) + TwoTo64 * k
<1> DEFINE cols == [i \in Bytes |-> IF i = 1 THEN n ELSE 0]
<1>1. Len(cols) = 8 /\ \A k \in 1..8 : cols[k] \in Int
  BY DEF Bytes
<1>2. Value(cols) = n
  BY DEF Value, Bytes
<1>3. ToWord(n) = Carried(cols)
  BY DEF ToWord
<1> HIDE DEF cols
<1> QED
  BY <1>1, <1>2, <1>3, CarriedValue

\* uint64_t addition.
LEMMA PlusValue ==
    ASSUME NEW a, NEW b, IsWord(a), IsWord(b)
    PROVE  IsWord(Plus(a, b)) /\ \E k \in Int : Value(a) + Value(b) = Value(Plus(a, b)) + TwoTo64 * k
<1> DEFINE cols == [i \in Bytes |-> a[i] + b[i]]
<1>0. \A k \in 1..8 : a[k] \in Int /\ b[k] \in Int /\ cols[k] = a[k] + b[k]
  <2>1. \A k \in 1..8 : a[k] \in Int /\ b[k] \in Int
    BY WordBytes
  <2>2. \A k \in 1..8 : cols[k] = a[k] + b[k]
    BY DEF Bytes
  <2> QED
    BY <2>1, <2>2
<1>1. Len(cols) = 8 /\ \A k \in 1..8 : cols[k] \in Int
  <2>1. Len(cols) = 8
    BY DEF Bytes
  <2> HIDE DEF cols
  <2> QED
    BY <1>0, <2>1
<1>3. Plus(a, b) = Carried(cols)
  BY DEF Plus
<1> HIDE DEF cols
<1>2. Value(cols) = Value(a) + Value(b)
  <2> DEFINE a1 == a[1]
             a2 == a[2]
             a3 == a[3]
             a4 == a[4]
             a5 == a[5]
             a6 == a[6]
             a7 == a[7]
             a8 == a[8]
             b1 == b[1]
             b2 == b[2]
             b3 == b[3]
             b4 == b[4]
             b5 == b[5]
             b6 == b[6]
             b7 == b[7]
             b8 == b[8]
  <2>1. a1 \in Int /\ a2 \in Int /\ a3 \in Int /\ a4 \in Int /\ a5 \in Int /\ a6 \in Int /\ a7 \in Int /\ a8 \in Int /\ b1 \in Int /\ b2 \in Int /\ b3 \in Int /\ b4 \in Int /\ b5 \in Int /\ b6 \in Int /\ b7 \in Int /\ b8 \in Int /\ Value(cols) = (a1 + b1) + 256 * (a2 + b2) + 65536 * (a3 + b3) + 16777216 * (a4 + b4) + 4294967296 * (a5 + b5) + 1099511627776 * (a6 + b6) + 281474976710656 * (a7 + b7) + 72057594037927936 * (a8 + b8)
    BY <1>0 DEF Value
  <2>2. Value(a) = a1 + 256 * a2 + 65536 * a3 + 16777216 * a4 + 4294967296 * a5 + 1099511627776 * a6 + 281474976710656 * a7 + 72057594037927936 * a8
    BY DEF Value
  <2>3. Value(b) = b1 + 256 * b2 + 65536 * b3 + 16777216 * b4 + 4294967296 * b5 + 1099511627776 * b6 + 281474976710656 * b7 + 72057594037927936 * b8
    BY DEF Value
  <2> HIDE DEF a1, a2, a3, a4, a5, a6, a7, a8, b1, b2, b3, b4, b5, b6, b7, b8
  <2> QED
    BY <2>1, <2>2, <2>3, SMT
<1> QED
  BY <1>1, <1>2, <1>3, CarriedValue

\* uint64_t subtraction.
LEMMA MinusValue ==
    ASSUME NEW a, NEW b, IsWord(a), IsWord(b)
    PROVE  IsWord(Minus(a, b)) /\ \E k \in Int : Value(a) - Value(b) = Value(Minus(a, b)) + TwoTo64 * k
<1> DEFINE cols == [i \in Bytes |-> a[i] - b[i]]
<1>0. \A k \in 1..8 : a[k] \in Int /\ b[k] \in Int /\ cols[k] = a[k] - b[k]
  <2>1. \A k \in 1..8 : a[k] \in Int /\ b[k] \in Int
    BY WordBytes
  <2>2. \A k \in 1..8 : cols[k] = a[k] - b[k]
    BY DEF Bytes
  <2> QED
    BY <2>1, <2>2
<1>1. Len(cols) = 8 /\ \A k \in 1..8 : cols[k] \in Int
  <2>1. Len(cols) = 8
    BY DEF Bytes
  <2> HIDE DEF cols
  <2> QED
    BY <1>0, <2>1
<1>3. Minus(a, b) = Carried(cols)
  BY DEF Minus
<1> HIDE DEF cols
<1>2. Value(cols) = Value(a) - Value(b)
  <2> DEFINE a1 == a[1]
             a2 == a[2]
             a3 == a[3]
             a4 == a[4]
             a5 == a[5]
             a6 == a[6]
             a7 == a[7]
             a8 == a[8]
             b1 == b[1]
             b2 == b[2]
             b3 == b[3]
             b4 == b[4]
             b5 == b[5]
             b6 == b[6]
             b7 == b[7]
             b8 == b[8]
  <2>1. a1 \in Int /\ a2 \in Int /\ a3 \in Int /\ a4 \in Int /\ a5 \in Int /\ a6 \in Int /\ a7 \in Int /\ a8 \in Int /\ b1 \in Int /\ b2 \in Int /\ b3 \in Int /\ b4 \in Int /\ b5 \in Int /\ b6 \in Int /\ b7 \in Int /\ b8 \in Int /\ Value(cols) = (a1 - b1) + 256 * (a2 - b2) + 65536 * (a3 - b3) + 16777216 * (a4 - b4) + 4294967296 * (a5 - b5) + 1099511627776 * (a6 - b6) + 281474976710656 * (a7 - b7) + 72057594037927936 * (a8 - b8)
    BY <1>0 DEF Value
  <2>2. Value(a) = a1 + 256 * a2 + 65536 * a3 + 16777216 * a4 + 4294967296 * a5 + 1099511627776 * a6 + 281474976710656 * a7 + 72057594037927936 * a8
    BY DEF Value
  <2>3. Value(b) = b1 + 256 * b2 + 65536 * b3 + 16777216 * b4 + 4294967296 * b5 + 1099511627776 * b6 + 281474976710656 * b7 + 72057594037927936 * b8
    BY DEF Value
  <2> HIDE DEF a1, a2, a3, a4, a5, a6, a7, a8, b1, b2, b3, b4, b5, b6, b7, b8
  <2> QED
    BY <2>1, <2>2, <2>3, SMT
<1> QED
  BY <1>1, <1>2, <1>3, CarriedValue

High(num) == SubSeq(num, 9, 16)
Low(num)  == SubSeq(num, 1, 8)

\* The two halves of sixteen bytes.
LEMMA Halves ==
    ASSUME NEW num, \A i \in 1..16 : num[i] \in 0..255
    PROVE  /\ IsWord(High(num)) /\ IsWord(Low(num))
           /\ \A i \in 1..8 : High(num)[i] = num[i + 8] /\ Low(num)[i] = num[i]
<1>1. \A i \in 1..8 : High(num)[i] = num[i + 8]
  BY SubSeqProperties DEF High
<1>2. \A i \in 1..8 : Low(num)[i] = num[i]
  BY SubSeqProperties DEF Low
<1> QED
  BY <1>1, <1>2, SMTT(30) DEF IsWord

\* The columns of a product.
Columns(cols, a, b) ==
    /\ \A k \in 1..16 : cols[k] \in Int
    /\ cols[1] = a[1] * b[1]
    /\ cols[2] = a[1] * b[2] + a[2] * b[1]
    /\ cols[3] = a[1] * b[3] + a[2] * b[2] + a[3] * b[1]
    /\ cols[4] = a[1] * b[4] + a[2] * b[3] + a[3] * b[2] + a[4] * b[1]
    /\ cols[5] = a[1] * b[5] + a[2] * b[4] + a[3] * b[3] + a[4] * b[2] + a[5] * b[1]
    /\ cols[6] = a[1] * b[6] + a[2] * b[5] + a[3] * b[4] + a[4] * b[3] + a[5] * b[2] + a[6] * b[1]
    /\ cols[7] = a[1] * b[7] + a[2] * b[6] + a[3] * b[5] + a[4] * b[4] + a[5] * b[3] + a[6] * b[2] + a[7] * b[1]
    /\ cols[8] = a[1] * b[8] + a[2] * b[7] + a[3] * b[6] + a[4] * b[5] + a[5] * b[4] + a[6] * b[3] + a[7] * b[2] + a[8] * b[1]
    /\ cols[9] = a[2] * b[8] + a[3] * b[7] + a[4] * b[6] + a[5] * b[5] + a[6] * b[4] + a[7] * b[3] + a[8] * b[2]
    /\ cols[10] = a[3] * b[8] + a[4] * b[7] + a[5] * b[6] + a[6] * b[5] + a[7] * b[4] + a[8] * b[3]
    /\ cols[11] = a[4] * b[8] + a[5] * b[7] + a[6] * b[6] + a[7] * b[5] + a[8] * b[4]
    /\ cols[12] = a[5] * b[8] + a[6] * b[7] + a[7] * b[6] + a[8] * b[5]
    /\ cols[13] = a[6] * b[8] + a[7] * b[7] + a[8] * b[6]
    /\ cols[14] = a[7] * b[8] + a[8] * b[7]
    /\ cols[15] = a[8] * b[8]
    /\ cols[16] = 0

\* Products are carried column by column.
LEMMA ProductColumns ==
    ASSUME NEW a, NEW b, IsWord(a), IsWord(b)
    PROVE  \E cols : Columns(cols, a, b) /\ Len(cols) = 16 /\ Product(a, b) = Carried(cols)
<1> DEFINE Term(i, k) == IF k - i \in 0..7 THEN a[i] * b[k - i + 1] ELSE 0
           Steps(f, k) == f = [i \in 0..8 |-> IF i = 0 THEN 0 ELSE f[i - 1] + Term(i, k)]
           column(k) == (CHOOSE f : Steps(f, k))[8]
           cols == [k \in 1..16 |-> column(k)]
<1>1. \A i \in 1..8, k \in 1..16 : Term(i, k) \in Int
  <2> TAKE i \in 1..8, k \in 1..16
  <2>1. CASE k - i \in 0..7
    <3>1. k - i + 1 \in 1..8
      BY <2>1
    <3>2. a[i] \in Int /\ b[k - i + 1] \in Int
      BY <3>1, WordBytes
    <3> QED
      BY <2>1, <3>2
  <2> QED
    BY <2>1
<1>2. \A k \in 1..16 : column(k) = Term(1, k) + Term(2, k) + Term(3, k) + Term(4, k)
                                     + Term(5, k) + Term(6, k) + Term(7, k) + Term(8, k)
  <2> TAKE k \in 1..16
  <2> DEFINE sum == CHOOSE f : Steps(f, k)
  <2>1. \A i \in 1..8 : Term(i, k) \in Int
    BY <1>1
  <2> HIDE DEF Term
  <2>2. Steps(sum, k)
    <3> DEFINE t1 == Term(1, k)
               t2 == t1 + Term(2, k)
               t3 == t2 + Term(3, k)
               t4 == t3 + Term(4, k)
               t5 == t4 + Term(5, k)
               t6 == t5 + Term(6, k)
               t7 == t6 + Term(7, k)
               t8 == t7 + Term(8, k)
               w  == <<t1, t2, t3, t4, t5, t6, t7, t8>>
               f  == [i \in 0..8 |-> IF i = 0 THEN 0 ELSE w[i]]
    <3>1. /\ t1 = 0 + Term(1, k) /\ t2 = t1 + Term(2, k) /\ t3 = t2 + Term(3, k) /\ t4 = t3 + Term(4, k)
          /\ t5 = t4 + Term(5, k) /\ t6 = t5 + Term(6, k) /\ t7 = t6 + Term(7, k) /\ t8 = t7 + Term(8, k)
      BY <2>1
    <3> HIDE DEF t1, t2, t3, t4, t5, t6, t7, t8
    <3>2. /\ f[0] = 0 /\ f[1] = t1 /\ f[2] = t2 /\ f[3] = t3 /\ f[4] = t4
          /\ f[5] = t5 /\ f[6] = t6 /\ f[7] = t7 /\ f[8] = t8
      OBVIOUS
    <3>3. f = [i \in 0..8 |-> f[i]]
      OBVIOUS
    <3> HIDE DEF f
    <3>4. \A i \in 0..8 : f[i] = IF i = 0 THEN 0 ELSE f[i - 1] + Term(i, k)
      <4> TAKE i \in 0..8
      <4>1. i = 0 \/ i = 1 \/ i = 2 \/ i = 3 \/ i = 4 \/ i = 5 \/ i = 6 \/ i = 7 \/ i = 8
        OBVIOUS
      <4>2. /\ f[1] = f[1 - 1] + Term(1, k) /\ f[2] = f[2 - 1] + Term(2, k) /\ f[3] = f[3 - 1] + Term(3, k)
            /\ f[4] = f[4 - 1] + Term(4, k) /\ f[5] = f[5 - 1] + Term(5, k) /\ f[6] = f[6 - 1] + Term(6, k)
            /\ f[7] = f[7 - 1] + Term(7, k) /\ f[8] = f[8 - 1] + Term(8, k)
        BY <3>1, <3>2
      <4> QED
        BY <3>2, <4>1, <4>2
    <3>5. Steps(f, k)
      BY <3>3, <3>4
    <3> HIDE DEF Steps
    <3> QED
      BY <3>5
  <2> HIDE DEF sum
  <2>3. \A i \in 0..8 : sum[i] = IF i = 0 THEN 0 ELSE sum[i - 1] + Term(i, k)
    BY <2>2
  <2>4. /\ sum[0] = 0
        /\ sum[1] = sum[0] + Term(1, k)
        /\ sum[2] = sum[1] + Term(2, k)
        /\ sum[3] = sum[2] + Term(3, k)
        /\ sum[4] = sum[3] + Term(4, k)
        /\ sum[5] = sum[4] + Term(5, k)
        /\ sum[6] = sum[5] + Term(6, k)
        /\ sum[7] = sum[6] + Term(7, k)
        /\ sum[8] = sum[7] + Term(8, k)
    BY <2>3
  <2>5. sum[8] = Term(1, k) + Term(2, k) + Term(3, k) + Term(4, k)
                   + Term(5, k) + Term(6, k) + Term(7, k) + Term(8, k)
    BY <2>1, <2>4
  <2> QED
    BY <2>5 DEF sum
<1>3. Len(cols) = 16
  <2> HIDE DEF column
  <2> QED
    OBVIOUS
<1>4. Product(a, b) = Carried(cols)
  BY DEF Product
<1>5. \A i \in 1..8, k \in 1..16 : Term(i, k) = IF k - i \in 0..7 THEN a[i] * b[k - i + 1] ELSE 0
  OBVIOUS
<1> HIDE DEF Term, Steps
<1>6. \A k \in 1..16 : /\ cols[k] = Term(1, k) + Term(2, k) + Term(3, k) + Term(4, k)
                                      + Term(5, k) + Term(6, k) + Term(7, k) + Term(8, k)
                       /\ cols[k] \in Int
  <2> TAKE k \in 1..16
  <2>1. Term(1, k) \in Int /\ Term(2, k) \in Int /\ Term(3, k) \in Int /\ Term(4, k) \in Int
        /\ Term(5, k) \in Int /\ Term(6, k) \in Int /\ Term(7, k) \in Int /\ Term(8, k) \in Int
    BY <1>1
  <2>2. cols[k] = column(k)
    <3> HIDE DEF column
    <3> QED
      OBVIOUS
  <2> HIDE DEF cols, column
  <2> QED
    BY <1>2, <2>1, <2>2
<1> HIDE DEF Term, column, cols
<1>11. cols[1] = a[1] * b[1]
  BY <1>1, <1>5, <1>6
<1>12. cols[2] = a[1] * b[2] + a[2] * b[1]
  BY <1>1, <1>5, <1>6
<1>13. cols[3] = a[1] * b[3] + a[2] * b[2] + a[3] * b[1]
  BY <1>1, <1>5, <1>6
<1>14. cols[4] = a[1] * b[4] + a[2] * b[3] + a[3] * b[2] + a[4] * b[1]
  BY <1>1, <1>5, <1>6
<1>15. cols[5] = a[1] * b[5] + a[2] * b[4] + a[3] * b[3] + a[4] * b[2] + a[5] * b[1]
  BY <1>1, <1>5, <1>6
<1>16. cols[6] = a[1] * b[6] + a[2] * b[5] + a[3] * b[4] + a[4] * b[3] + a[5] * b[2] + a[6] * b[1]
  BY <1>1, <1>5, <1>6
<1>17. cols[7] = a[1] * b[7] + a[2] * b[6] + a[3] * b[5] + a[4] * b[4] + a[5] * b[3] + a[6] * b[2] + a[7] * b[1]
  BY <1>1, <1>5, <1>6
<1>18. cols[8] = a[1] * b[8] + a[2] * b[7] + a[3] * b[6] + a[4] * b[5] + a[5] * b[4] + a[6] * b[3] + a[7] * b[2] + a[8] * b[1]
  BY <1>1, <1>5, <1>6
<1>19. cols[9] = a[2] * b[8] + a[3] * b[7] + a[4] * b[6] + a[5] * b[5] + a[6] * b[4] + a[7] * b[3] + a[8] * b[2]
  BY <1>1, <1>5, <1>6
<1>20. cols[10] = a[3] * b[8] + a[4] * b[7] + a[5] * b[6] + a[6] * b[5] + a[7] * b[4] + a[8] * b[3]
  BY <1>1, <1>5, <1>6
<1>21. cols[11] = a[4] * b[8] + a[5] * b[7] + a[6] * b[6] + a[7] * b[5] + a[8] * b[4]
  BY <1>1, <1>5, <1>6
<1>22. cols[12] = a[5] * b[8] + a[6] * b[7] + a[7] * b[6] + a[8] * b[5]
  BY <1>1, <1>5, <1>6
<1>23. cols[13] = a[6] * b[8] + a[7] * b[7] + a[8] * b[6]
  BY <1>1, <1>5, <1>6
<1>24. cols[14] = a[7] * b[8] + a[8] * b[7]
  BY <1>1, <1>5, <1>6
<1>25. cols[15] = a[8] * b[8]
  BY <1>1, <1>5, <1>6
<1>26. cols[16] = 0
  BY <1>1, <1>5, <1>6
<1>30. Columns(cols, a, b)
  BY <1>6, <1>11, <1>12, <1>13, <1>14, <1>15, <1>16, <1>17, <1>18, <1>19, <1>20, <1>21, <1>22, <1>23, <1>24, <1>25, <1>26 DEF Columns
<1> QED
  BY <1>30, <1>3, <1>4

\* The columns of a product have its value.
LEMMA ColumnsValue ==
    ASSUME NEW cols, NEW a, NEW b, IsWord(a), IsWord(b), Columns(cols, a, b)
    PROVE  Value(a) * Value(b)
             = Value(cols) + TwoTo64 * (cols[9] + 256 * cols[10] + 65536 * cols[11] + 16777216 * cols[12] + 4294967296 * cols[13] + 1099511627776 * cols[14] + 281474976710656 * cols[15] + 72057594037927936 * cols[16])
<1> DEFINE a1 == a[1]
           a2 == a[2]
           a3 == a[3]
           a4 == a[4]
           a5 == a[5]
           a6 == a[6]
           a7 == a[7]
           a8 == a[8]
           b1 == b[1]
           b2 == b[2]
           b3 == b[3]
           b4 == b[4]
           b5 == b[5]
           b6 == b[6]
           b7 == b[7]
           b8 == b[8]
<1>1. a1 \in Int /\ a2 \in Int /\ a3 \in Int /\ a4 \in Int /\ a5 \in Int /\ a6 \in Int /\ a7 \in Int /\ a8 \in Int /\ b1 \in Int /\ b2 \in Int /\ b3 \in Int /\ b4 \in Int /\ b5 \in Int /\ b6 \in Int /\ b7 \in Int /\ b8 \in Int
  BY WordBytes
<1>2. Value(a) = a1 + 256 * a2 + 65536 * a3 + 16777216 * a4 + 4294967296 * a5 + 1099511627776 * a6 + 281474976710656 * a7 + 72057594037927936 * a8
  BY DEF Value
<1>3. Value(b) = b1 + 256 * b2 + 65536 * b3 + 16777216 * b4 + 4294967296 * b5 + 1099511627776 * b6 + 281474976710656 * b7 + 72057594037927936 * b8
  BY DEF Value
<1>11. cols[1] = a1 * b1
  BY DEF Columns
<1>12. cols[2] = a1 * b2 + a2 * b1
  BY DEF Columns
<1>13. cols[3] = a1 * b3 + a2 * b2 + a3 * b1
  BY DEF Columns
<1>14. cols[4] = a1 * b4 + a2 * b3 + a3 * b2 + a4 * b1
  BY DEF Columns
<1>15. cols[5] = a1 * b5 + a2 * b4 + a3 * b3 + a4 * b2 + a5 * b1
  BY DEF Columns
<1>16. cols[6] = a1 * b6 + a2 * b5 + a3 * b4 + a4 * b3 + a5 * b2 + a6 * b1
  BY DEF Columns
<1>17. cols[7] = a1 * b7 + a2 * b6 + a3 * b5 + a4 * b4 + a5 * b3 + a6 * b2 + a7 * b1
  BY DEF Columns
<1>18. cols[8] = a1 * b8 + a2 * b7 + a3 * b6 + a4 * b5 + a5 * b4 + a6 * b3 + a7 * b2 + a8 * b1
  BY DEF Columns
<1>19. cols[9] = a2 * b8 + a3 * b7 + a4 * b6 + a5 * b5 + a6 * b4 + a7 * b3 + a8 * b2
  BY DEF Columns
<1>20. cols[10] = a3 * b8 + a4 * b7 + a5 * b6 + a6 * b5 + a7 * b4 + a8 * b3
  BY DEF Columns
<1>21. cols[11] = a4 * b8 + a5 * b7 + a6 * b6 + a7 * b5 + a8 * b4
  BY DEF Columns
<1>22. cols[12] = a5 * b8 + a6 * b7 + a7 * b6 + a8 * b5
  BY DEF Columns
<1>23. cols[13] = a6 * b8 + a7 * b7 + a8 * b6
  BY DEF Columns
<1>24. cols[14] = a7 * b8 + a8 * b7
  BY DEF Columns
<1>25. cols[15] = a8 * b8
  BY DEF Columns
<1>26. cols[16] = 0
  BY DEF Columns
<1> HIDE DEF a1, a2, a3, a4, a5, a6, a7, a8, b1, b2, b3, b4, b5, b6, b7, b8
<1>4. Value(a) * Value(b) = (a1 + 256 * a2 + 65536 * a3 + 16777216 * a4 + 4294967296 * a5 + 1099511627776 * a6 + 281474976710656 * a7 + 72057594037927936 * a8) * (b1 + 256 * b2 + 65536 * b3 + 16777216 * b4 + 4294967296 * b5 + 1099511627776 * b6 + 281474976710656 * b7 + 72057594037927936 * b8)
  BY <1>2, <1>3
<1>5. Value(cols) + TwoTo64 * (cols[9] + 256 * cols[10] + 65536 * cols[11] + 16777216 * cols[12] + 4294967296 * cols[13] + 1099511627776 * cols[14] + 281474976710656 * cols[15] + 72057594037927936 * cols[16]) = (a1 * b1) + 256 * (a1 * b2 + a2 * b1) + 65536 * (a1 * b3 + a2 * b2 + a3 * b1) + 16777216 * (a1 * b4 + a2 * b3 + a3 * b2 + a4 * b1) + 4294967296 * (a1 * b5 + a2 * b4 + a3 * b3 + a4 * b2 + a5 * b1) + 1099511627776 * (a1 * b6 + a2 * b5 + a3 * b4 + a4 * b3 + a5 * b2 + a6 * b1) + 281474976710656 * (a1 * b7 + a2 * b6 + a3 * b5 + a4 * b4 + a5 * b3 + a6 * b2 + a7 * b1) + 72057594037927936 * (a1 * b8 + a2 * b7 + a3 * b6 + a4 * b5 + a5 * b4 + a6 * b3 + a7 * b2 + a8 * b1) + 18446744073709551616 * (a2 * b8 + a3 * b7 + a4 * b6 + a5 * b5 + a6 * b4 + a7 * b3 + a8 * b2) + 4722366482869645213696 * (a3 * b8 + a4 * b7 + a5 * b6 + a6 * b5 + a7 * b4 + a8 * b3) + 1208925819614629174706176 * (a4 * b8 + a5 * b7 + a6 * b6 + a7 * b5 + a8 * b4) + 309485009821345068724781056 * (a5 * b8 + a6 * b7 + a7 * b6 + a8 * b5) + 79228162514264337593543950336 * (a6 * b8 + a7 * b7 + a8 * b6) + 20282409603651670423947251286016 * (a7 * b8 + a8 * b7) + 5192296858534827628530496329220096 * (a8 * b8) + 1329227995784915872903807060280344576 * (0)
  BY <1>1, <1>11, <1>12, <1>13, <1>14, <1>15, <1>16, <1>17, <1>18, <1>19, <1>20, <1>21, <1>22, <1>23, <1>24, <1>25, <1>26, SMT DEF Value, TwoTo64
<1> QED
  BY <1>1, <1>4, <1>5, SMT

\* A product is its two halves.
LEMMA ProductValue ==
    ASSUME NEW a, NEW b, IsWord(a), IsWord(b)
    PROVE  /\ IsWord(High(Product(a, b))) /\ IsWord(Low(Product(a, b)))
           /\ Value(a) * Value(b) = Value(Low(Product(a, b))) + TwoTo64 * Value(High(Product(a, b)))
<1> DEFINE num == Product(a, b)
           va  == Value(a)
           vb  == Value(b)
           lo  == Value(Low(num))
           hi  == Value(High(num))
<1>1. PICK cols : Columns(cols, a, b) /\ Len(cols) = 16 /\ num = Carried(cols)
  BY ProductColumns
<1>2. \A k \in 1..16 : cols[k] \in Int
  BY <1>1 DEF Columns
<1>3. PICK c : Carries(c, cols, num, 16)
  BY <1>1, <1>2, CarriedColumns
<1>4. \A i \in 1..16 : num[i] \in 0..255
  BY <1>3 DEF Carries
<1>5. IsWord(High(num)) /\ IsWord(Low(num)) /\ \A i \in 1..8 : High(num)[i] = num[i + 8] /\ Low(num)[i] = num[i]
  BY <1>4, Halves
<1>6. va \in 0 .. TwoTo64 - 1 /\ vb \in 0 .. TwoTo64 - 1 /\ lo \in 0 .. TwoTo64 - 1 /\ hi \in 0 .. TwoTo64 - 1
  BY <1>5, WordValue
<1> DEFINE top == cols[9] + 256 * cols[10] + 65536 * cols[11] + 16777216 * cols[12] + 4294967296 * cols[13] + 1099511627776 * cols[14] + 281474976710656 * cols[15] + 72057594037927936 * cols[16]
<1>7. va * vb = Value(cols) + TwoTo64 * top
  BY <1>1, ColumnsValue
<1>8. c[8] \in Int /\ Value(cols) = lo + TwoTo64 * c[8]
  <2> DEFINE low == Low(num)
  <2>0. \A i \in 1..8 : low[i] = num[i]
    BY <1>5
  <2> HIDE DEF low, num, top, va, vb, lo, hi
  <2>1. Carries(c, cols, low, 8)
    BY <1>3, <2>0, SMTT(30) DEF Carries
  <2> QED
    BY <2>1, <1>2, WrappedSum DEF low, lo
<1>9. c[16] \in Int /\ top + c[8] = hi + TwoTo64 * c[16]
  <2> DEFINE t1 == cols[9]
             t2 == cols[10]
             t3 == cols[11]
             t4 == cols[12]
             t5 == cols[13]
             t6 == cols[14]
             t7 == cols[15]
             t8 == cols[16]
             c0 == c[8]
             c1 == c[9]
             c2 == c[10]
             c3 == c[11]
             c4 == c[12]
             c5 == c[13]
             c6 == c[14]
             c7 == c[15]
             c8 == c[16]
             b1 == High(num)[1]
             b2 == High(num)[2]
             b3 == High(num)[3]
             b4 == High(num)[4]
             b5 == High(num)[5]
             b6 == High(num)[6]
             b7 == High(num)[7]
             b8 == High(num)[8]
  <2>1. t1 \in Int /\ t2 \in Int /\ t3 \in Int /\ t4 \in Int /\ t5 \in Int /\ t6 \in Int /\ t7 \in Int /\ t8 \in Int
    BY <1>2
  <2>2. c0 \in Int /\ c1 \in Int /\ c2 \in Int /\ c3 \in Int /\ c4 \in Int /\ c5 \in Int /\ c6 \in Int /\ c7 \in Int /\ c8 \in Int
    BY <1>3 DEF Carries
  <2>3. b1 \in Int /\ b2 \in Int /\ b3 \in Int /\ b4 \in Int /\ b5 \in Int /\ b6 \in Int /\ b7 \in Int /\ b8 \in Int
    BY <1>5, WordBytes
  <2>4. t1 + c0 = b1 + 256 * c1 /\ t2 + c1 = b2 + 256 * c2 /\ t3 + c2 = b3 + 256 * c3 /\ t4 + c3 = b4 + 256 * c4 /\ t5 + c4 = b5 + 256 * c5 /\ t6 + c5 = b6 + 256 * c6 /\ t7 + c6 = b7 + 256 * c7 /\ t8 + c7 = b8 + 256 * c8
    <3> HIDE DEF num
    <3>1. \A k \in 1..8 : cols[k + 8] + c[k + 7] = High(num)[k] + 256 * c[k + 8]
      <4> TAKE k \in 1..8
      <4>1. k + 8 \in 1..16 /\ (k + 8) - 1 = k + 7
        OBVIOUS
      <4>2. cols[k + 8] + c[(k + 8) - 1] = num[k + 8] + 256 * c[k + 8]
        BY <1>3, <4>1 DEF Carries
      <4> QED
        BY <4>1, <4>2, <1>5
    <3> QED
      BY <3>1
  <2>5. hi = b1 + 256 * b2 + 65536 * b3 + 16777216 * b4 + 4294967296 * b5 + 1099511627776 * b6 + 281474976710656 * b7 + 72057594037927936 * b8
    BY DEF Value
  <2>6. top = t1 + 256 * t2 + 65536 * t3 + 16777216 * t4 + 4294967296 * t5 + 1099511627776 * t6 + 281474976710656 * t7 + 72057594037927936 * t8
    OBVIOUS
  <2>7. c0 = c[8] /\ c8 = c[16]
    OBVIOUS
  <2> HIDE DEF hi, top, t1, t2, t3, t4, t5, t6, t7, t8, c0, c1, c2, c3, c4, c5, c6, c7, c8, b1, b2, b3, b4, b5, b6, b7, b8
  <2> QED
    BY <2>1, <2>2, <2>3, <2>4, <2>5, <2>6, <2>7, SMT DEF TwoTo64
<1>10. top \in Int
  BY <1>2
<1> DEFINE k == c[16]
           c8 == c[8]
           prod == va * vb
<1>14. c8 \in Int /\ k \in Int /\ Value(cols) = lo + TwoTo64 * c8 /\ top + c8 = hi + TwoTo64 * k
  BY <1>8, <1>9
<1>15. prod = Value(cols) + TwoTo64 * top
  BY <1>7
<1>11. prod \in Int /\ 0 <= prod /\ prod < TwoTo64 * TwoTo64
  <2> HIDE DEF va, vb
  <2>1. va \in Nat /\ vb \in Nat /\ va < TwoTo64 /\ vb < TwoTo64 /\ TwoTo64 \in Nat
    BY <1>6 DEF TwoTo64
  <2> QED
    BY <2>1
<1>12. prod = lo + TwoTo64 * hi + TwoTo64 * TwoTo64 * k
  <2> HIDE DEF va, vb, lo, hi, top, k, c8, prod
  <2>1. prod = lo + TwoTo64 * c8 + TwoTo64 * top
    BY <1>14, <1>15
  <2>2. prod = lo + TwoTo64 * (top + c8)
    BY <2>1, <1>6, <1>10, <1>14, SMT DEF TwoTo64
  <2> QED
    BY <2>2, <1>6, <1>14, SMT DEF TwoTo64
<1>13. k = 0
  <2> HIDE DEF prod, lo, hi, k
  <2> QED
    BY <1>6, <1>14, <1>11, <1>12, SMT DEF TwoTo64
<1> QED
  <2>1. prod = lo + TwoTo64 * hi
    <3> HIDE DEF prod, lo, hi, k
    <3> QED
      BY <1>6, <1>12, <1>13, SMT DEF TwoTo64
  <2> QED
    BY <2>1, <1>5

\* A small number is got back from its word.
LEMMA ToIntValue ==
    ASSUME NEW w, IsWord(w), NEW x \in Int, -2147483648 <= x, x <= 2147483647, NEW k \in Int, x = Value(w) + TwoTo64 * k
    PROVE  ToInt(w) = x
<1> DEFINE b1 == w[1]
           b2 == w[2]
           b3 == w[3]
           b4 == w[4]
           b5 == w[5]
           b6 == w[6]
           b7 == w[7]
           b8 == w[8]
           v == Value(w)
<1>1. b1 \in 0..255 /\ b2 \in 0..255 /\ b3 \in 0..255 /\ b4 \in 0..255 /\ b5 \in 0..255 /\ b6 \in 0..255 /\ b7 \in 0..255 /\ b8 \in 0..255
  BY DEF IsWord
<1>2. v = b1 + 256 * b2 + 65536 * b3 + 16777216 * b4 + 4294967296 * b5 + 1099511627776 * b6 + 281474976710656 * b7 + 72057594037927936 * b8
  BY DEF Value
<1>3. ToInt(w) = b1 + 256 * b2 + 65536 * b3 + 16777216 * (IF b8 > 127 THEN b4 - 256 ELSE b4)
  BY DEF ToInt
<1>4. x = v + TwoTo64 * k
  OBVIOUS
<1> HIDE DEF v, b1, b2, b3, b4, b5, b6, b7, b8
<1>5. CASE x >= 0
  <2>1. k = 0
    BY <1>1, <1>2, <1>4, <1>5, SMTT(30) DEF TwoTo64
  <2>2. v = x
    BY <2>1, <1>1, <1>2, <1>4, SMTT(30) DEF TwoTo64
  <2>3. b8 = 0
    BY <2>2, <1>1, <1>2, SMTT(30)
  <2>4. b7 = 0
    BY <2>2, <2>3, <1>1, <1>2, SMTT(30)
  <2>5. b6 = 0
    BY <2>2, <2>3, <2>4, <1>1, <1>2, SMTT(30)
  <2>6. b5 = 0
    BY <2>2, <2>3, <2>4, <2>5, <1>1, <1>2, SMTT(30)
  <2> QED
    BY <2>2, <2>3, <2>4, <2>5, <2>6, <1>1, <1>2, <1>3, SMTT(30)
<1>6. CASE x < 0
  <2>1. k = -1
    BY <1>1, <1>2, <1>4, <1>6, SMTT(30) DEF TwoTo64
  <2>2. v = x + TwoTo64
    BY <2>1, <1>1, <1>2, <1>4, SMTT(30) DEF TwoTo64
  <2>3. b8 = 255
    BY <2>2, <1>1, <1>2, SMTT(30) DEF TwoTo64
  <2>4. b7 = 255
    BY <2>2, <2>3, <1>1, <1>2, SMTT(30) DEF TwoTo64
  <2>5. b6 = 255
    BY <2>2, <2>3, <2>4, <1>1, <1>2, SMTT(30) DEF TwoTo64
  <2>6. b5 = 255
    BY <2>2, <2>3, <2>4, <2>5, <1>1, <1>2, SMTT(30) DEF TwoTo64
  <2> QED
    BY <2>2, <2>3, <2>4, <2>5, <2>6, <1>1, <1>2, <1>3, SMTT(30) DEF TwoTo64
<1> QED
  BY <1>5, <1>6
-----------------------------------------------------------------------------
(* Quotients of words                                                      *)

\* One place of a quotient, and the rest it leaves to the next one down.
Place(before, byte, n) ==
    [rest  |-> (before.rest * 256 + byte) % n,
     bytes |-> <<(before.rest * 256 + byte) \div n>> \o before.bytes]

QuotientSteps(f, a, n) ==
    f = [i \in 0..8 |-> IF i = 0 THEN [rest |-> 0, bytes |-> <<>>] ELSE Place(f[i - 1], a[9 - i], n)]

\* The places are divided one after the other.
LEMMA QuotientsExist == ASSUME NEW a, NEW n PROVE \E f : QuotientSteps(f, a, n)
<1> DEFINE r0 == [rest |-> 0, bytes |-> <<>>]
           r1 == Place(r0, a[8], n)
           r2 == Place(r1, a[7], n)
           r3 == Place(r2, a[6], n)
           r4 == Place(r3, a[5], n)
           r5 == Place(r4, a[4], n)
           r6 == Place(r5, a[3], n)
           r7 == Place(r6, a[2], n)
           r8 == Place(r7, a[1], n)
           row(i) == CASE i = 0 -> r0 [] i = 1 -> r1 [] i = 2 -> r2 [] i = 3 -> r3 [] i = 4 -> r4
                       [] i = 5 -> r5 [] i = 6 -> r6 [] i = 7 -> r7 [] i = 8 -> r8
           f == [i \in 0..8 |-> row(i)]
<1>1. /\ row(0) = r0 /\ row(1) = r1 /\ row(2) = r2 /\ row(3) = r3 /\ row(4) = r4 /\ row(5) = r5
      /\ row(6) = r6 /\ row(7) = r7 /\ row(8) = r8
  <2> HIDE DEF r0, r1, r2, r3, r4, r5, r6, r7, r8
  <2> QED
    OBVIOUS
<1> HIDE DEF row, r0
<1>2. \A i \in 1..8 : row(i) = Place(row(i - 1), a[9 - i], n)
  BY <1>1
<1>3. row(0) = [rest |-> 0, bytes |-> <<>>]
  BY <1>1 DEF r0
<1>4. \A i \in 0..8 : f[i] = IF i = 0 THEN [rest |-> 0, bytes |-> <<>>] ELSE Place(f[i - 1], a[9 - i], n)
  <2> TAKE i \in 0..8
  <2>1. CASE i = 0
    BY <2>1, <1>3
  <2>2. CASE i # 0
    <3>1. i \in 1..8 /\ i - 1 \in 0..8
      BY <2>2
    <3> QED
      BY <3>1, <2>2, <1>2
  <2> QED
    BY <2>1, <2>2
<1>5. QuotientSteps(f, a, n)
  BY <1>4 DEF QuotientSteps
<1> QED
  BY <1>5

\* After so many places of a quarter: the bytes from the most significant one on.
Placewise(f, a, i) ==
    /\ f[i].rest \in 0..3 /\ f[i].bytes \in Seq(0..255) /\ Len(f[i].bytes) = i
    /\ \A j \in 1..i : f[i].bytes[j] = (f[i - j].rest * 256 + a[8 - i + j]) \div 4

\* One more place of a quarter puts one byte before the others.
LEMMA PlaceAdded ==
    ASSUME NEW f, NEW a, IsWord(a), NEW i \in 0..7, QuotientSteps(f, a, 4), Placewise(f, a, i)
    PROVE  /\ Placewise(f, a, i + 1)
           /\ f[i + 1].rest = (f[i].rest * 256 + a[8 - i]) % 4
<1> DEFINE x == f[i].rest * 256 + a[8 - i]
           s == f[i].bytes
<1>1. x \in 0..1023
  <2> DEFINE r == f[i].rest
             b == a[8 - i]
  <2>1. r \in 0..3 /\ b \in 0..255
    <3>1. 8 - i \in 1..8
      OBVIOUS
    <3> QED
      BY <3>1 DEF Placewise, IsWord
  <2>2. x = r * 256 + b
    OBVIOUS
  <2> HIDE DEF r, b, x
  <2> QED
    BY <2>1, <2>2
<1>2. f[i + 1] = [rest |-> x % 4, bytes |-> <<x \div 4>> \o s]
  <2>1. i + 1 \in 0..8 /\ i + 1 # 0 /\ i + 1 - 1 = i /\ 9 - (i + 1) = 8 - i
    OBVIOUS
  <2>2. f[i + 1] = Place(f[i], a[8 - i], 4)
    BY <2>1 DEF QuotientSteps
  <2> QED
    BY <2>2 DEF Place
<1>3. s \in Seq(0..255) /\ Len(s) = i
      /\ \A j \in 1..i : s[j] = (f[i - j].rest * 256 + a[8 - i + j]) \div 4
  BY DEF Placewise
<1> HIDE DEF s, x
<1>4. x % 4 \in 0..3 /\ x \div 4 \in 0..255
  BY <1>1
<1> DEFINE y == x \div 4
           one == <<y>>
<1>5. one \in Seq(0..255) /\ Len(one) = 1 /\ one[1] = y
  BY <1>4
<1> HIDE DEF y
<1>6. /\ one \o s \in Seq(0..255) /\ Len(one \o s) = i + 1
      /\ \A j \in 1 .. i + 1 : (one \o s)[j] = IF j <= 1 THEN one[j] ELSE s[j - 1]
  <2> HIDE DEF one
  <2> DEFINE S == 0..255
  <2>0. one \in Seq(S) /\ s \in Seq(S)
    BY <1>3, <1>5
  <2> HIDE DEF S
  <2>4. /\ one \o s \in Seq(S) /\ Len(one \o s) = Len(one) + Len(s)
        /\ \A j \in 1 .. Len(one) + Len(s) : (one \o s)[j] = IF j <= Len(one) THEN one[j] ELSE s[j - Len(one)]
    BY <2>0, ConcatProperties
  <2>1. /\ one \o s \in Seq(0..255) /\ Len(one \o s) = Len(one) + Len(s)
        /\ \A j \in 1 .. Len(one) + Len(s) : (one \o s)[j] = IF j <= Len(one) THEN one[j] ELSE s[j - Len(one)]
    BY <2>4 DEF S
  <2>2. Len(one) = 1 /\ Len(s) = i /\ Len(one) + Len(s) = i + 1
    BY <1>3, <1>5
  <2> QED
    BY <2>1, <2>2
<1>7. \A j \in 1 .. i + 1 : (one \o s)[j] = (f[i + 1 - j].rest * 256 + a[8 - (i + 1) + j]) \div 4
  <2> TAKE j \in 1 .. i + 1
  <2>1. CASE j = 1
    <3>1. i + 1 - j = i /\ 8 - (i + 1) + j = 8 - i
      BY <2>1
    <3>2. (one \o s)[j] = y
      BY <2>1, <1>5, <1>6
    <3> QED
      BY <3>1, <3>2 DEF y, x
  <2>2. CASE j # 1
    <3>1. j - 1 \in 1..i /\ i + 1 - j = i - (j - 1) /\ 8 - (i + 1) + j = 8 - i + (j - 1)
      BY <2>2
    <3>2. (one \o s)[j] = s[j - 1]
      BY <2>2, <1>6
    <3> QED
      BY <3>1, <3>2, <1>3
  <2> QED
    BY <2>1, <2>2
<1>8. f[i + 1].rest = x % 4 /\ f[i + 1].bytes = one \o s
  BY <1>2 DEF y
<1>9. Placewise(f, a, i + 1)
  <2> DEFINE t == one \o s
  <2>1. t \in Seq(0..255) /\ Len(t) = i + 1
    BY <1>6
  <2>2. f[i + 1].rest \in 0..3 /\ f[i + 1].bytes = t
    BY <1>4, <1>8
  <2>3. \A j \in 1 .. i + 1 : f[i + 1].bytes[j] = (f[i + 1 - j].rest * 256 + a[8 - (i + 1) + j]) \div 4
    BY <1>7, <2>2
  <2> HIDE DEF t
  <2>4. f[i + 1].bytes \in Seq(0..255) /\ Len(f[i + 1].bytes) = i + 1
    BY <2>1, <2>2
  <2> DEFINE k == i + 1
  <2>5. /\ f[k].rest \in 0..3 /\ f[k].bytes \in Seq(0..255) /\ Len(f[k].bytes) = k
        /\ \A j \in 1 .. k : f[k].bytes[j] = (f[k - j].rest * 256 + a[8 - k + j]) \div 4
    BY <2>2, <2>3, <2>4
  <2> HIDE DEF k
  <2>6. Placewise(f, a, k)
    BY <2>5 DEF Placewise
  <2> QED
    BY <2>6 DEF k
<1> QED
  BY <1>8, <1>9 DEF x

\* Quotient and rest make the number.
LEMMA OneQuarter ==
    ASSUME NEW r \in 0..3, NEW b \in 0..255
    PROVE  /\ 4 * ((r * 256 + b) \div 4) + ((r * 256 + b) % 4) = r * 256 + b
           /\ (r * 256 + b) \div 4 \in Int
<1> DEFINE x == r * 256 + b
<1>1. x \in Int
  OBVIOUS
<1> HIDE DEF x
<1>2. 4 * (x \div 4) + (x % 4) = x /\ x \div 4 \in Int
  BY <1>1
<1> QED
  BY <1>2 DEF x

\* Division by four, from the most significant byte down.
LEMMA QuarterValue ==
    ASSUME NEW a, IsWord(a)
    PROVE  /\ IsWord(Quotient(a, 4))
           /\ Value(Quotient(a, 4)) = Value(a) \div 4
<1> DEFINE f == CHOOSE g : QuotientSteps(g, a, 4)
           w == Quotient(a, 4)
<1>1. QuotientSteps(f, a, 4)
  BY QuotientsExist
<1>2. w = f[8].bytes
  BY DEF Quotient, QuotientSteps, Place
<1> HIDE DEF f
<1>3. f[0] = [rest |-> 0, bytes |-> <<>>]
  BY <1>1 DEF QuotientSteps
<1>4. Placewise(f, a, 0)
  BY <1>3, EmptySeq DEF Placewise
<1>5. \A i \in 0..7 : Placewise(f, a, i) => /\ Placewise(f, a, i + 1)
                                            /\ f[i + 1].rest = (f[i].rest * 256 + a[8 - i]) % 4
  BY <1>1, PlaceAdded
<1>11. Placewise(f, a, 1) /\ f[1].rest = (f[0].rest * 256 + a[8]) % 4
  BY <1>4, <1>5
<1>12. Placewise(f, a, 2) /\ f[2].rest = (f[1].rest * 256 + a[7]) % 4
  BY <1>11, <1>5
<1>13. Placewise(f, a, 3) /\ f[3].rest = (f[2].rest * 256 + a[6]) % 4
  BY <1>12, <1>5
<1>14. Placewise(f, a, 4) /\ f[4].rest = (f[3].rest * 256 + a[5]) % 4
  BY <1>13, <1>5
<1>15. Placewise(f, a, 5) /\ f[5].rest = (f[4].rest * 256 + a[4]) % 4
  BY <1>14, <1>5
<1>16. Placewise(f, a, 6) /\ f[6].rest = (f[5].rest * 256 + a[3]) % 4
  BY <1>15, <1>5
<1>17. Placewise(f, a, 7) /\ f[7].rest = (f[6].rest * 256 + a[2]) % 4
  BY <1>16, <1>5
<1>18. Placewise(f, a, 8) /\ f[8].rest = (f[7].rest * 256 + a[1]) % 4
  BY <1>17, <1>5
<1>19. \A k \in 0..8 : f[k].rest \in 0..3
  <2> HIDE DEF w
  <2>1. \A k \in 0..8 : Placewise(f, a, k) => f[k].rest \in 0..3
    BY DEF Placewise
  <2>3. /\ Placewise(f, a, 0) /\ Placewise(f, a, 1) /\ Placewise(f, a, 2) /\ Placewise(f, a, 3) /\ Placewise(f, a, 4)
        /\ Placewise(f, a, 5) /\ Placewise(f, a, 6) /\ Placewise(f, a, 7) /\ Placewise(f, a, 8)
    BY <1>4, <1>11, <1>12, <1>13, <1>14, <1>15, <1>16, <1>17, <1>18, Zenon
  <2>2. \A k \in 0..8 : Placewise(f, a, k)
    BY <2>3
  <2> QED
    BY <2>1, <2>2
<1> DEFINE b1 == a[1]
           b2 == a[2]
           b3 == a[3]
           b4 == a[4]
           b5 == a[5]
           b6 == a[6]
           b7 == a[7]
           b8 == a[8]
           q1 == w[1]
           q2 == w[2]
           q3 == w[3]
           q4 == w[4]
           q5 == w[5]
           q6 == w[6]
           q7 == w[7]
           q8 == w[8]
           r0 == f[0].rest
           r1 == f[1].rest
           r2 == f[2].rest
           r3 == f[3].rest
           r4 == f[4].rest
           r5 == f[5].rest
           r6 == f[6].rest
           r7 == f[7].rest
           r8 == f[8].rest
<1>20. r0 = 0 /\ r0 \in 0..3 /\ r1 \in 0..3 /\ r2 \in 0..3 /\ r3 \in 0..3 /\ r4 \in 0..3 /\ r5 \in 0..3 /\ r6 \in 0..3 /\ r7 \in 0..3 /\ r8 \in 0..3
  <2>2. f[0].rest = 0
    BY <1>3
  <2> QED
    BY <2>2, <1>19
<1>21. b1 \in 0..255 /\ b2 \in 0..255 /\ b3 \in 0..255 /\ b4 \in 0..255 /\ b5 \in 0..255 /\ b6 \in 0..255 /\ b7 \in 0..255 /\ b8 \in 0..255
  BY DEF IsWord
<1>22. r1 = (r0 * 256 + b8) % 4 /\ r2 = (r1 * 256 + b7) % 4 /\ r3 = (r2 * 256 + b6) % 4 /\ r4 = (r3 * 256 + b5) % 4 /\ r5 = (r4 * 256 + b4) % 4 /\ r6 = (r5 * 256 + b3) % 4 /\ r7 = (r6 * 256 + b2) % 4 /\ r8 = (r7 * 256 + b1) % 4
  BY <1>11, <1>12, <1>13, <1>14, <1>15, <1>16, <1>17, <1>18
<1>23. \A j \in 1..8 : w[j] = (f[8 - j].rest * 256 + a[j]) \div 4 /\ w[j] \in 0..255
  <2>1. \A j \in 1..8 : f[8].bytes[j] = (f[8 - j].rest * 256 + a[8 - 8 + j]) \div 4
    BY <1>18 DEF Placewise
  <2>2. \A j \in 1..8 : f[8].bytes[j] \in 0..255
    <3> DEFINE bytes == f[8].bytes
    <3>1. bytes \in Seq(0..255) /\ Len(bytes) = 8
      BY <1>18 DEF Placewise
    <3> HIDE DEF bytes
    <3>2. \A j \in 1..8 : bytes[j] \in 0..255
      BY <3>1, ElementOfSeq
    <3> QED
      BY <3>2 DEF bytes
  <2>3. \A j \in 1..8 : 8 - 8 + j = j
    OBVIOUS
  <2>4. \A j \in 1..8 : f[8].bytes[j] = (f[8 - j].rest * 256 + a[j]) \div 4
    BY <2>1, <2>3
  <2> HIDE DEF w
  <2> QED
    BY <2>2, <2>4, <1>2
<1>24. q1 = (r7 * 256 + b1) \div 4 /\ q2 = (r6 * 256 + b2) \div 4 /\ q3 = (r5 * 256 + b3) \div 4 /\ q4 = (r4 * 256 + b4) \div 4 /\ q5 = (r3 * 256 + b5) \div 4 /\ q6 = (r2 * 256 + b6) \div 4 /\ q7 = (r1 * 256 + b7) \div 4 /\ q8 = (r0 * 256 + b8) \div 4
  BY <1>23
<1>25. IsWord(w)
  BY <1>23 DEF IsWord
<1>26. Value(w) = q1 + 256 * q2 + 65536 * q3 + 16777216 * q4 + 4294967296 * q5 + 1099511627776 * q6 + 281474976710656 * q7 + 72057594037927936 * q8
  BY DEF Value
<1>27. Value(a) = b1 + 256 * b2 + 65536 * b3 + 16777216 * b4 + 4294967296 * b5 + 1099511627776 * b6 + 281474976710656 * b7 + 72057594037927936 * b8
  BY DEF Value
<1> HIDE DEF w, b1, b2, b3, b4, b5, b6, b7, b8, q1, q2, q3, q4, q5, q6, q7, q8, r0, r1, r2, r3, r4, r5, r6, r7, r8
<1>28. 4 * q1 + r8 = r7 * 256 + b1 /\ q1 \in Int /\ 4 * q2 + r7 = r6 * 256 + b2 /\ q2 \in Int /\ 4 * q3 + r6 = r5 * 256 + b3 /\ q3 \in Int /\ 4 * q4 + r5 = r4 * 256 + b4 /\ q4 \in Int /\ 4 * q5 + r4 = r3 * 256 + b5 /\ q5 \in Int /\ 4 * q6 + r3 = r2 * 256 + b6 /\ q6 \in Int /\ 4 * q7 + r2 = r1 * 256 + b7 /\ q7 \in Int /\ 4 * q8 + r1 = r0 * 256 + b8 /\ q8 \in Int
  <2>1. 4 * q1 + r8 = r7 * 256 + b1 /\ q1 \in Int
    <3>1. r7 \in 0..3 /\ b1 \in 0..255
      BY <1>20, <1>21
    <3>2. q1 = (r7 * 256 + b1) \div 4 /\ r8 = (r7 * 256 + b1) % 4
      BY <1>22, <1>24
    <3> QED
      BY <3>1, <3>2, OneQuarter
  <2>2. 4 * q2 + r7 = r6 * 256 + b2 /\ q2 \in Int
    <3>1. r6 \in 0..3 /\ b2 \in 0..255
      BY <1>20, <1>21
    <3>2. q2 = (r6 * 256 + b2) \div 4 /\ r7 = (r6 * 256 + b2) % 4
      BY <1>22, <1>24
    <3> QED
      BY <3>1, <3>2, OneQuarter
  <2>3. 4 * q3 + r6 = r5 * 256 + b3 /\ q3 \in Int
    <3>1. r5 \in 0..3 /\ b3 \in 0..255
      BY <1>20, <1>21
    <3>2. q3 = (r5 * 256 + b3) \div 4 /\ r6 = (r5 * 256 + b3) % 4
      BY <1>22, <1>24
    <3> QED
      BY <3>1, <3>2, OneQuarter
  <2>4. 4 * q4 + r5 = r4 * 256 + b4 /\ q4 \in Int
    <3>1. r4 \in 0..3 /\ b4 \in 0..255
      BY <1>20, <1>21
    <3>2. q4 = (r4 * 256 + b4) \div 4 /\ r5 = (r4 * 256 + b4) % 4
      BY <1>22, <1>24
    <3> QED
      BY <3>1, <3>2, OneQuarter
  <2>5. 4 * q5 + r4 = r3 * 256 + b5 /\ q5 \in Int
    <3>1. r3 \in 0..3 /\ b5 \in 0..255
      BY <1>20, <1>21
    <3>2. q5 = (r3 * 256 + b5) \div 4 /\ r4 = (r3 * 256 + b5) % 4
      BY <1>22, <1>24
    <3> QED
      BY <3>1, <3>2, OneQuarter
  <2>6. 4 * q6 + r3 = r2 * 256 + b6 /\ q6 \in Int
    <3>1. r2 \in 0..3 /\ b6 \in 0..255
      BY <1>20, <1>21
    <3>2. q6 = (r2 * 256 + b6) \div 4 /\ r3 = (r2 * 256 + b6) % 4
      BY <1>22, <1>24
    <3> QED
      BY <3>1, <3>2, OneQuarter
  <2>7. 4 * q7 + r2 = r1 * 256 + b7 /\ q7 \in Int
    <3>1. r1 \in 0..3 /\ b7 \in 0..255
      BY <1>20, <1>21
    <3>2. q7 = (r1 * 256 + b7) \div 4 /\ r2 = (r1 * 256 + b7) % 4
      BY <1>22, <1>24
    <3> QED
      BY <3>1, <3>2, OneQuarter
  <2>8. 4 * q8 + r1 = r0 * 256 + b8 /\ q8 \in Int
    <3>1. r0 \in 0..3 /\ b8 \in 0..255
      BY <1>20, <1>21
    <3>2. q8 = (r0 * 256 + b8) \div 4 /\ r1 = (r0 * 256 + b8) % 4
      BY <1>22, <1>24
    <3> QED
      BY <3>1, <3>2, OneQuarter
  <2> QED
    BY <2>1, <2>2, <2>3, <2>4, <2>5, <2>6, <2>7, <2>8
<1>29. Value(w) = Value(a) \div 4
  <2>1. Value(a) = 4 * Value(w) + r8 /\ Value(w) \in Int
    BY <1>20, <1>21, <1>26, <1>27, <1>28, SMT
  <2> QED
    BY <2>1, <1>20, SMT
<1> QED
  BY <1>25, <1>29 DEF w
-----------------------------------------------------------------------------
(* Words below 2^64 are their numbers                                      *)

\* The numbers that words are.
Number64(x) == x \in Int /\ 0 <= x /\ x < TwoTo64

\* The constants of the code, as numbers.
DayShift      == 690527217032721
YearShift     == 1890599307999
CenturyFactor == 505054698555331
YearFactor    == 50504432782230121
DayFactor     == 8619973866219416
YearParts     == 782432

\* A number below 2^64 is the word it wraps to.
LEMMA Unwrapped ==
    ASSUME NEW v, Number64(v), NEW x, Number64(x), NEW k \in Int, x = v + TwoTo64 * k
    PROVE  v = x
<1>1. k = 0
  BY SMT DEF TwoTo64, Number64
<1> QED
  BY <1>1, SMT DEF TwoTo64, Number64

\* A word is a number below 2^64.
LEMMA WordRange ==
    ASSUME NEW w, IsWord(w)
    PROVE  Number64(Value(w))
<1> DEFINE v == Value(w)
<1>1. v \in 0 .. TwoTo64 - 1
  BY WordValue
<1> HIDE DEF v
<1>2. Number64(v)
  BY <1>1, SMT DEF TwoTo64, Number64
<1> QED
  BY <1>2 DEF v

\* A word that differs from a number by a multiple of 2^64 is that number.
LEMMA WordOfNumber ==
    ASSUME NEW w, IsWord(w), NEW x, Number64(x), \E k \in Int : x = Value(w) + TwoTo64 * k
    PROVE  Value(w) = x
BY WordRange, Unwrapped

\* The words of the code are these numbers.
LEMMA ConstantWords ==
    /\ IsWord(D_SHIFT) /\ Value(D_SHIFT) = DayShift
    /\ IsWord(Y_SHIFT) /\ Value(Y_SHIFT) = YearShift
    /\ IsWord(C1) /\ Value(C1) = CenturyFactor
    /\ IsWord(C2) /\ Value(C2) = YearFactor
    /\ IsWord(C3) /\ Value(C3) = DayFactor
<1>1. IsWord(D_SHIFT) /\ IsWord(Y_SHIFT) /\ IsWord(C1) /\ IsWord(C2) /\ IsWord(C3)
  BY SMT DEF IsWord, D_SHIFT, Y_SHIFT, C1, C2, C3
<1>2. Value(D_SHIFT) = DayShift
  BY SMT DEF Value, D_SHIFT, DayShift
<1>3. Value(Y_SHIFT) = YearShift
  BY SMT DEF Value, Y_SHIFT, YearShift
<1>4. Value(C1) = CenturyFactor
  BY SMT DEF Value, C1, CenturyFactor
<1>5. Value(C2) = YearFactor
  BY SMT DEF Value, C2, YearFactor
<1>6. Value(C3) = DayFactor
  BY SMT DEF Value, C3, DayFactor
<1> QED
  BY <1>1, <1>2, <1>3, <1>4, <1>5, <1>6

\* The constants are numbers.
LEMMA ConstantNumbers ==
    /\ Number64(DayShift) /\ Number64(YearShift) /\ Number64(CenturyFactor)
    /\ Number64(YearFactor) /\ Number64(DayFactor) /\ Number64(YearParts)
BY SMT DEF Number64, TwoTo64, DayShift, YearShift, CenturyFactor, YearFactor, DayFactor, YearParts

\* A sum, a difference and a conversion that do not wrap.
LEMMA MinusNumber ==
    ASSUME NEW a, NEW b, IsWord(a), IsWord(b), NEW x, Number64(x), x = Value(a) - Value(b)
    PROVE  IsWord(Minus(a, b)) /\ Value(Minus(a, b)) = x
<1>1. IsWord(Minus(a, b)) /\ \E k \in Int : x = Value(Minus(a, b)) + TwoTo64 * k
  BY MinusValue
<1> QED
  BY <1>1, WordOfNumber

\* The same for sums.
LEMMA PlusNumber ==
    ASSUME NEW a, NEW b, IsWord(a), IsWord(b), NEW x, Number64(x), x = Value(a) + Value(b)
    PROVE  IsWord(Plus(a, b)) /\ Value(Plus(a, b)) = x
<1>1. IsWord(Plus(a, b)) /\ \E k \in Int : x = Value(Plus(a, b)) + TwoTo64 * k
  BY PlusValue
<1> QED
  BY <1>1, WordOfNumber

\* The same for the conversion of a number.
LEMMA ToWordNumber ==
    ASSUME NEW x, Number64(x)
    PROVE  IsWord(ToWord(x)) /\ Value(ToWord(x)) = x
<1>1. IsWord(ToWord(x)) /\ \E k \in Int : x = Value(ToWord(x)) + TwoTo64 * k
  BY ToWordValue DEF Number64
<1> QED
  BY <1>1, WordOfNumber

\* The halves of a product of two numbers, as numbers.
LEMMA ProductHalves ==
    ASSUME NEW a, NEW b, IsWord(a), IsWord(b)
    PROVE  /\ IsWord(High(Product(a, b))) /\ IsWord(Low(Product(a, b)))
           /\ Number64(Value(High(Product(a, b)))) /\ Number64(Value(Low(Product(a, b))))
           /\ Value(a) * Value(b)
                = Value(Low(Product(a, b))) + TwoTo64 * Value(High(Product(a, b)))
BY ProductValue, WordRange

\* The days counted backwards are a positive number.
LEMMA DaysBackwards ==
    ASSUME NEW x \in Int, NEW R, Number64(R), R = DayShift - x
    PROVE  /\ IsWord(Minus(D_SHIFT, ToWord(x)))
           /\ Value(Minus(D_SHIFT, ToWord(x))) = R
<1>1. IsWord(ToWord(x)) /\ IsWord(Minus(D_SHIFT, ToWord(x))) /\ IsWord(D_SHIFT)
  BY ToWordValue, MinusValue, ConstantWords
<1> DEFINE v == Value(ToWord(x))
           u == Value(Minus(D_SHIFT, ToWord(x)))
<1>2. v \in Int /\ u \in Int /\ DayShift \in Int
  BY <1>1, WordRange, ConstantNumbers DEF Number64
<1>3. PICK k \in Int : x = v + TwoTo64 * k
  BY ToWordValue
<1>4. PICK j \in Int : DayShift - v = u + TwoTo64 * j
  BY <1>1, MinusValue, ConstantWords
<1>5. \E n \in Int : DayShift - x = u + TwoTo64 * n
  <2> DEFINE n == j - k
  <2> HIDE DEF u, v
  <2>1. n \in Int
    OBVIOUS
  <2>2. DayShift - x = u + TwoTo64 * n
    BY <1>2, <1>3, <1>4, SMT DEF TwoTo64, DayShift
  <2> HIDE DEF n
  <2> QED
    BY <2>1, <2>2
<1> QED
  BY <1>1, <1>5, WordOfNumber
-----------------------------------------------------------------------------
(* Products that stand for divisions                                       *)

\* A day of an era: a year of it, counted from March, and a day of the year.
DaysOfEra(yoe, doy) == yoe * 365 + yoe \div 4 - yoe \div 100 + doy

\* An era as far away as the code counts backwards from, the days from its end,
\* the days of the Julian calendar, and the centuries left.
FarEra(E) == E \in Int /\ 4700000000 <= E /\ E <= 4790000000
LaterDays(E, rd) == 146097 * E + rd
JulianLater(E, rd, cc) == 146100 * E + rd + cc
CenturyLeft(rd, cc) ==
    /\ rd \in Int /\ 0 <= rd /\ rd <= 146096
    /\ cc \in Int /\ 0 <= cc /\ cc <= 3
    /\ rd > 0 => 146097 * cc <= 4 * rd - 1 /\ 4 * rd - 1 < 146097 * (cc + 1)
    /\ rd = 0 => cc = 0

\* What is left of an era after a day: days, centuries, years and quarter days.
DaysToGo(yoe, doy) == 146096 - DaysOfEra(yoe, doy)
CenturiesOf(yoe)   == 3 - yoe \div 100
YearsOf(E, yoe)    == 400 * E + 399 - yoe
QuartersOf(yoe, doy) == 1457 + (yoe % 4) - 4 * doy

\* The last day of February is there in leap years only.
LeapAtEnd(yoe) == yoe % 4 = 3 /\ (yoe % 100 # 99 \/ yoe = 399)

\* How many days and centuries are left of the era.
LEMMA CenturiesLeft ==
    ASSUME NEW yoe \in 0..399, NEW doy \in 0..365, doy = 365 => LeapAtEnd(yoe)
    PROVE  CenturyLeft(DaysToGo(yoe, doy), CenturiesOf(yoe))
<1> DEFINE c == yoe \div 100
           x == yoe % 100
           q == x \div 4
<1>1. c \in 0..3 /\ x \in 0..99 /\ yoe = 100 * c + x
  OBVIOUS
<1>2. q \in 0..24 /\ 4 * q <= x /\ x <= 4 * q + 3
  <2> HIDE DEF x
  <2> QED
    BY <1>1
<1>3. yoe \div 4 = 25 * c + q
  <2> HIDE DEF c
  <2>1. 100 * c + x = 4 * (25 * c) + x
    BY <1>1
  <2> QED
    BY <1>1, <1>2, <2>1
<1>4. DaysOfEra(yoe, doy) = 36524 * c + 365 * x + q + doy
  <2> HIDE DEF x, q
  <2> QED
    BY <1>1, <1>2, <1>3 DEF DaysOfEra
<1>5. doy = 365 => x # 99 \/ c = 3
  BY <1>1 DEF LeapAtEnd
<1> HIDE DEF c, x, q
<1>6. 365 * x + q + doy <= 36524 /\ 0 <= 365 * x + q + doy
  BY <1>1, <1>2
<1>7. 365 * x + q + doy = 36524 => c = 3
  BY <1>1, <1>2, <1>5
<1> DEFINE rd == 146096 - DaysOfEra(yoe, doy)
           cc == 3 - c
<1>8. /\ rd \in Int /\ cc \in Int /\ 0 <= rd /\ rd <= 146096 /\ 0 <= cc /\ cc <= 3
      /\ rd > 0 => 146097 * cc <= 4 * rd - 1 /\ 4 * rd - 1 < 146097 * (cc + 1)
      /\ rd = 0 => cc = 0
  BY <1>1, <1>2, <1>4, <1>6, <1>7
<1>9. rd = DaysToGo(yoe, doy) /\ cc = CenturiesOf(yoe)
  BY DEF c, DaysToGo, CenturiesOf
<1>10. CenturyLeft(rd, cc)
  BY <1>8 DEF CenturyLeft
<1> QED
  BY <1>9, <1>10

\* These numbers are far from 2^64.
LEMMA FarDays ==
    ASSUME NEW E, FarEra(E), NEW rd, NEW cc, CenturyLeft(rd, cc)
    PROVE  Number64(LaterDays(E, rd)) /\ Number64(JulianLater(E, rd, cc))
<1>1. Number64(LaterDays(E, rd))
  BY SMT DEF Number64, TwoTo64, FarEra, LaterDays, CenturyLeft
<1>2. Number64(JulianLater(E, rd, cc))
  BY SMT DEF Number64, TwoTo64, FarEra, JulianLater, CenturyLeft
<1> QED
  BY <1>1, <1>2

\* Multiplication with C1 divides by 36524.25, up to the very last day.
LEMMA CenturiesByProduct ==
    ASSUME NEW E, FarEra(E), NEW rd, NEW cc, CenturyLeft(rd, cc), NEW lo, Number64(lo),
           NEW hi, Number64(hi), LaterDays(E, rd) * CenturyFactor = lo + TwoTo64 * hi
    PROVE  /\ Number64(LaterDays(E, rd) + hi)
           /\ (LaterDays(E, rd) + hi) - (hi \div 4) = JulianLater(E, rd, cc)
<1>1. CASE rd = 0
  <2>1. hi = 4 * E - 1
    BY <1>1, SMT DEF TwoTo64, Number64, FarEra, CenturyLeft, LaterDays, CenturyFactor
  <2>2. hi \div 4 = E - 1
    BY <2>1, SMT DEF FarEra
  <2>3. (LaterDays(E, rd) + hi) - (hi \div 4) = JulianLater(E, rd, cc)
    BY <1>1, <2>1, <2>2, SMT DEF FarEra, CenturyLeft, LaterDays, JulianLater
  <2>4. Number64(LaterDays(E, rd) + hi)
    BY <1>1, <2>1, SMT DEF TwoTo64, Number64, FarEra, LaterDays
  <2> QED
    BY <2>3, <2>4
<1>2. CASE rd > 0
  <2>1. hi = 4 * E + cc
    BY <1>2, SMT DEF TwoTo64, Number64, FarEra, CenturyLeft, LaterDays, CenturyFactor
  <2>2. hi \div 4 = E
    BY <2>1, SMT DEF FarEra, CenturyLeft
  <2>3. (LaterDays(E, rd) + hi) - (hi \div 4) = JulianLater(E, rd, cc)
    BY <2>1, <2>2, SMT DEF FarEra, CenturyLeft, LaterDays, JulianLater
  <2>4. Number64(LaterDays(E, rd) + hi)
    BY <2>1, SMT DEF TwoTo64, Number64, FarEra, CenturyLeft, LaterDays
  <2> QED
    BY <2>3, <2>4
<1>3. rd = 0 \/ rd > 0
  BY SMT DEF CenturyLeft
<1> QED
  BY <1>1, <1>2, <1>3

\* The days of the Julian calendar: a day is added for every century left, and
\* taken away again for every four of them.
LEMMA JulianDaysOf ==
    ASSUME NEW rev, IsWord(rev), NEW E, FarEra(E), NEW rd, NEW cc, CenturyLeft(rd, cc),
           Value(rev) = LaterDays(E, rd)
    PROVE  /\ IsWord(CenturiesAdded(rev))
           /\ Value(CenturiesAdded(rev)) = JulianLater(E, rd, cc)
<1> DEFINE cen == High(Product(rev, C1))
           sum == Plus(rev, cen)
           four == Quotient(cen, 4)
           lo == Value(Low(Product(rev, C1)))
           hi == Value(cen)
<1>1. CenturiesAdded(rev) = Minus(sum, four)
  BY DEF CenturiesAdded, JulianDays, mul_shift_u64, High
<1>2. /\ IsWord(cen) /\ Number64(lo) /\ Number64(hi)
      /\ LaterDays(E, rd) * CenturyFactor = lo + TwoTo64 * hi
  BY ProductHalves, ConstantWords
<1> HIDE DEF cen, lo
<1>3. IsWord(four) /\ Value(four) = hi \div 4
  BY <1>2, QuarterValue
<1> HIDE DEF four, hi
<1>4. /\ Number64(LaterDays(E, rd) + hi)
      /\ (LaterDays(E, rd) + hi) - (hi \div 4) = JulianLater(E, rd, cc)
  BY <1>2, CenturiesByProduct
<1>5. IsWord(sum) /\ Value(sum) = LaterDays(E, rd) + hi
  BY <1>2, <1>4, PlusNumber DEF hi
<1> HIDE DEF sum
<1>6. Number64(JulianLater(E, rd, cc))
  BY FarDays
<1>7. JulianLater(E, rd, cc) = Value(sum) - Value(four)
  BY <1>3, <1>4, <1>5
<1>8. IsWord(Minus(sum, four)) /\ Value(Minus(sum, four)) = JulianLater(E, rd, cc)
  BY <1>3, <1>5, <1>6, <1>7, MinusNumber
<1> QED
  BY <1>1, <1>8

\* Julian days that are q years of 1461 quarter days, and t more of them; and the
\* part of a year that t is, counted as the code does.
YearPart(J, q, t) ==
    /\ J \in Int /\ 680000000000000 <= J /\ J <= 700000000000000
    /\ q \in Int /\ t \in Int /\ 0 <= t /\ t <= 1460 /\ 4 * J = 1461 * q + t
LeftOver(lo, t, J) == 1461 * lo = TwoTo64 * t + 317 * J
PartBounds(t, p) ==
    /\ p \in Int /\ 0 <= p /\ p <= 800000
    /\ 782432 * t < 1461 * (p + 1) /\ 1461 * p <= 782432 * t + 10000

\* The year of an era that is left, and its part.
LEMMA YearsLeft ==
    ASSUME NEW E, FarEra(E), NEW yoe \in 0..399, NEW doy \in 0..365, doy = 365 => LeapAtEnd(yoe)
    PROVE  YearPart(JulianLater(E, DaysToGo(yoe, doy), CenturiesOf(yoe)), YearsOf(E, yoe), QuartersOf(yoe, doy))
<1> DEFINE a == yoe \div 4
           b == yoe % 4
           c == yoe \div 100
           rd == DaysToGo(yoe, doy)
           cc == CenturiesOf(yoe)
           t == 1457 + b - 4 * doy
<1>1. a \in 0..99 /\ b \in 0..3 /\ c \in 0..3 /\ yoe = 4 * a + b
  OBVIOUS
<1>2. DaysOfEra(yoe, doy) = yoe * 365 + a - c + doy
  BY DEF DaysOfEra
<1>3. rd = 146096 - DaysOfEra(yoe, doy) /\ cc = 3 - c
  BY DEF DaysToGo, CenturiesOf
<1>4. doy = 365 => b = 3
  BY DEF LeapAtEnd
<1>5. QuartersOf(yoe, doy) = t /\ YearsOf(E, yoe) = 400 * E + 399 - yoe
  BY DEF QuartersOf, YearsOf
<1> HIDE DEF a, b, c, rd, cc
<1>6. t \in Int /\ 0 <= t /\ t <= 1460
  BY <1>1, <1>4
<1>7. rd + cc = 146099 - 365 * yoe - a - doy
  BY <1>1, <1>2, <1>3
<1>8. rd \in Int /\ cc \in Int
  BY <1>1, <1>2, <1>3
<1>9. E \in Int
  BY SMT DEF FarEra
<1>10. 4 * (146100 * E + rd + cc) = 1461 * (400 * E + 399 - yoe) + t
  BY <1>1, <1>7, <1>8, <1>9
<1>11. CenturyLeft(rd, cc)
  BY CenturiesLeft DEF rd, cc
<1> DEFINE J == JulianLater(E, rd, cc)
<1>12. 680000000000000 <= J /\ J <= 700000000000000 /\ J \in Int
  BY <1>11, SMT DEF JulianLater, FarEra, CenturyLeft
<1>13. YearPart(J, 400 * E + 399 - yoe, t)
  <2>1. J = 146100 * E + rd + cc
    BY DEF JulianLater
  <2> HIDE DEF J, t
  <2> QED
    BY <1>6, <1>9, <1>10, <1>12, <2>1, SMT DEF YearPart
<1> QED
  BY <1>5, <1>13 DEF rd, cc

\* The parts of January and February are the smallest.
IsBump(p) == p < 126464

\* Multiplication with C2 divides by 365.25.
LEMMA YearsByProduct ==
    ASSUME NEW J, NEW q, NEW t, YearPart(J, q, t), NEW lo, Number64(lo), NEW hi, Number64(hi),
           J * YearFactor = lo + TwoTo64 * hi
    PROVE  hi = q /\ LeftOver(lo, t, J)
<1>1. hi = q
  BY SMT DEF TwoTo64, Number64, YearPart, YearFactor
<1>2. LeftOver(lo, t, J)
  BY <1>1, SMT DEF TwoTo64, Number64, YearPart, YearFactor, LeftOver
<1> QED
  BY <1>1, <1>2

\* What is left of the division is the part of the year, in 782432 parts.
LEMMA PartOfYear ==
    ASSUME NEW J, NEW q, NEW t, YearPart(J, q, t), NEW lo, Number64(lo), LeftOver(lo, t, J),
           NEW rest, Number64(rest), NEW p, Number64(p), YearParts * lo = rest + TwoTo64 * p
    PROVE  PartBounds(t, p)
<1>1. 782432 * t < 1461 * (p + 1)
  BY SMT DEF TwoTo64, Number64, YearPart, YearParts, LeftOver
<1>2. 1461 * p <= 782432 * t + 10000
  BY SMT DEF TwoTo64, Number64, YearPart, YearParts, LeftOver
<1>3. p \in Int /\ 0 <= p /\ t \in Int /\ t <= 1460
  BY SMT DEF Number64, YearPart
<1>4. p <= 800000
  BY <1>2, <1>3, SMT
<1> QED
  BY <1>1, <1>2, <1>3, <1>4, SMT DEF PartBounds

\* A word below 2^31 is that number.
LEMMA ToIntSmall ==
    ASSUME NEW w, IsWord(w), NEW t, PartBounds(t, Value(w))
    PROVE  ToInt(w) = Value(w)
<1> DEFINE x == Value(w)
<1>1. PartBounds(t, x)
  OBVIOUS
<1>2. x = Value(w) + TwoTo64 * 0
  <2>1. x \in Int
    BY <1>1 DEF PartBounds
  <2> HIDE DEF x
  <2>2. x = x + TwoTo64 * 0
    BY <2>1, SMT DEF TwoTo64
  <2> QED
    BY <2>2 DEF x
<1> HIDE DEF x
<1>3. x \in Int /\ -2147483648 <= x /\ x <= 2147483647
  BY <1>1, SMT DEF PartBounds
<1>4. ToInt(w) = x
  BY <1>2, <1>3, ToIntValue, SMT
<1> QED
  BY <1>4 DEF x

\* The part that the two conversions from days share: the year, up to 2^64, and
\* its part.
LEMMA SplitOfYears ==
    ASSUME NEW jul, IsWord(jul), NEW q, NEW t, YearPart(Value(jul), q, t)
    PROVE  LET split == SplitOf(Product(jul, C2))
           IN  /\ IsWord(split.yrs)
               /\ \E k \in Int : YearShift - q = Value(split.yrs) + TwoTo64 * k
               /\ PartBounds(t, split.ypt)
               /\ split.bump = IsBump(split.ypt)
<1> DEFINE num == Product(jul, C2)
           split == SplitOf(num)
           lo == Value(Low(num))
           hi == Value(High(num))
           part == Product(YPT_SCALE, Low(num))
<1>1. /\ IsWord(High(num)) /\ IsWord(Low(num)) /\ Number64(lo) /\ Number64(hi)
      /\ Value(jul) * YearFactor = lo + TwoTo64 * hi
  BY ProductHalves, ConstantWords
<1>2. hi = q /\ LeftOver(lo, t, Value(jul))
  BY <1>1, YearsByProduct
<1>3. /\ split.yrs = Minus(Y_SHIFT, High(num))
      /\ split.ypt = ToInt(High(part))
      /\ split.bump = IsBump(split.ypt)
  BY DEF SplitOf, SplitAt, mul_shift_u64, High, Low, YPT_BUMP_THRESHOLD, IsBump
<1>4. IsWord(YPT_SCALE) /\ Value(YPT_SCALE) = YearParts
  <2>1. YPT_SCALE = ToWord(YearParts)
    BY SMT DEF YPT_SCALE, YearParts
  <2> QED
    BY <2>1, ToWordNumber, ConstantNumbers
<1> HIDE DEF num, split
<1>5. /\ IsWord(High(part)) /\ Number64(Value(High(part))) /\ Number64(Value(Low(part)))
      /\ YearParts * lo = Value(Low(part)) + TwoTo64 * Value(High(part))
  BY <1>1, <1>4, ProductHalves
<1>6. PartBounds(t, Value(High(part)))
  BY <1>1, <1>2, <1>5, PartOfYear
<1>7. split.ypt = Value(High(part))
  BY <1>3, <1>5, <1>6, ToIntSmall
<1>8. IsWord(split.yrs) /\ \E k \in Int : YearShift - q = Value(split.yrs) + TwoTo64 * k
  BY <1>1, <1>2, <1>3, MinusValue, ConstantWords
<1> QED
  BY <1>3, <1>6, <1>7, <1>8 DEF num, split

\* The day number of a day of an era.
EraDay(era, doe) == era * 146097 + doe - 719468
Era(era) == era \in Int /\ -6000000 <= era /\ era <= 6000000
Backwards(era) == 4726498269 - era

\* The same day, counted backwards.
LEMMA EraBackwards ==
    ASSUME NEW era, Era(era), NEW doe \in Int, NEW yoe \in Int
    PROVE  /\ FarEra(Backwards(era)) /\ EraDay(era, doe) \in Int
           /\ LaterDays(Backwards(era), 146096 - doe) = DayShift - EraDay(era, doe)
           /\ YearShift - YearsOf(Backwards(era), yoe) = 400 * era + yoe
           /\ YearsOf(Backwards(era), yoe) \in Int
<1>1. FarEra(Backwards(era)) /\ EraDay(era, doe) \in Int /\ YearsOf(Backwards(era), yoe) \in Int
  BY SMT DEF Era, FarEra, Backwards, EraDay, YearsOf
<1>2. LaterDays(Backwards(era), 146096 - doe) = DayShift - EraDay(era, doe)
  BY SMT DEF Era, LaterDays, Backwards, EraDay, DayShift
<1>3. YearShift - YearsOf(Backwards(era), yoe) = 400 * era + yoe
  BY SMT DEF Era, YearsOf, Backwards, YearShift
<1> QED
  BY <1>1, <1>2, <1>3

\* A number and a word that differ by a multiple of 2^64.
Wraps(y, w) == \E k \in Int : y = Value(w) + TwoTo64 * k

\* What the conversions make of a day of an era: the year up to a multiple of 2^64,
\* and the part of the year.
YearsTold(split, y, t) ==
    /\ IsWord(split.yrs)
    /\ Wraps(y, split.yrs)
    /\ PartBounds(t, split.ypt)
    /\ split.bump <=> IsBump(split.ypt)

\* They do so for every day of the eras.
LEMMA YearsOfEraDay ==
    ASSUME NEW era, Era(era), NEW yoe \in 0..399, NEW doy \in 0..365, doy = 365 => LeapAtEnd(yoe)
    PROVE  YearsTold(YearSplit(EraDay(era, DaysOfEra(yoe, doy))), 400 * era + yoe, QuartersOf(yoe, doy))
<1> DEFINE doe == DaysOfEra(yoe, doy)
           days == EraDay(era, doe)
           E == Backwards(era)
           rd == DaysToGo(yoe, doy)
           cc == CenturiesOf(yoe)
           rev == Minus(D_SHIFT, ToWord(days))
           jul == CenturiesAdded(rev)
           J == JulianLater(E, rd, cc)
           t == QuartersOf(yoe, doy)
           q == YearsOf(E, yoe)
           split == YearSplit(days)
<1>1. CenturyLeft(rd, cc)
  BY CenturiesLeft
<1>2. doe \in Int /\ yoe \in Int /\ rd = 146096 - doe
  BY DEF DaysOfEra, DaysToGo
<1> HIDE DEF doe
<1>3. /\ FarEra(E) /\ days \in Int /\ LaterDays(E, rd) = DayShift - days
      /\ YearShift - q = 400 * era + yoe /\ q \in Int
  BY <1>2, EraBackwards
<1> HIDE DEF E, days
<1>4. YearPart(J, q, t)
  BY <1>3, YearsLeft
<1> HIDE DEF rd, cc, t, q
<1>5. IsWord(rev) /\ Value(rev) = LaterDays(E, rd)
  BY <1>1, <1>3, FarDays, DaysBackwards
<1> HIDE DEF rev
<1>6. IsWord(jul) /\ Value(jul) = J
  BY <1>1, <1>3, <1>5, JulianDaysOf
<1>7. split = SplitOf(Product(jul, C2))
  BY DEF YearSplit, rev
<1> HIDE DEF jul, split, J
<1>8. /\ IsWord(split.yrs)
       /\ \E k \in Int : YearShift - q = Value(split.yrs) + TwoTo64 * k
       /\ PartBounds(t, split.ypt)
       /\ split.bump = IsBump(split.ypt)
  BY <1>4, <1>6, <1>7, SplitOfYears
<1>9. split.bump <=> IsBump(split.ypt)
  BY <1>8, Zenon
<1>10. Wraps(400 * era + yoe, split.yrs)
  BY <1>3, <1>8 DEF Wraps
<1>11. YearsTold(split, 400 * era + yoe, t)
  BY <1>8, <1>9, <1>10 DEF YearsTold
<1> QED
  BY <1>11 DEF split, t, days, doe

\* The year is in the low bytes of its word, and the remainder of it in the first.
LEMMA YearInWord ==
    ASSUME NEW w, IsWord(w), NEW era \in Int, NEW yoe \in 0..399, NEW y, y = 400 * era + yoe, Wraps(y, w)
    PROVE  w[1] % 4 = yoe % 4
<1>1. PICK k \in Int : 400 * era + yoe = Value(w) + TwoTo64 * k
  BY DEF Wraps
<1> DEFINE b1 == w[1]
           b2 == w[2]
           b3 == w[3]
           b4 == w[4]
           b5 == w[5]
           b6 == w[6]
           b7 == w[7]
           b8 == w[8]
           z == 64 * b2 + 16384 * b3 + 4194304 * b4 + 1073741824 * b5 + 274877906944 * b6
                  + 70368744177664 * b7 + 18014398509481984 * b8
           r == yoe % 4
           a == yoe \div 4
           n == 100 * era + a - z - 4611686018427387904 * k
<1>2. b1 \in Int /\ b2 \in Int /\ b3 \in Int /\ b4 \in Int /\ b5 \in Int /\ b6 \in Int /\ b7 \in Int /\ b8 \in Int
  BY WordBytes
<1>3. Value(w) = b1 + 256 * b2 + 65536 * b3 + 16777216 * b4 + 4294967296 * b5
                   + 1099511627776 * b6 + 281474976710656 * b7 + 72057594037927936 * b8
  BY SMT DEF Value
<1>4. yoe = 4 * a + r /\ a \in Int /\ r \in 0..3
  OBVIOUS
<1> HIDE DEF b1, b2, b3, b4, b5, b6, b7, b8, a, r
<1>5. z \in Int /\ Value(w) = b1 + 4 * z
  BY <1>2, <1>3, SMT
<1> HIDE DEF z
<1>6. n \in Int
  BY <1>4, <1>5, SMT
<1>7. b1 = 4 * n + r
  BY <1>1, <1>2, <1>4, <1>5, SMT DEF TwoTo64
<1> HIDE DEF n
<1>8. b1 % 4 = r
  BY <1>4, <1>6, <1>7, SMT
<1> QED
  BY <1>8, SMT DEF b1, r

\* How many days the months have, counted from March, in a leap year.
DaysOfMonth == <<31, 30, 31, 30, 31, 31, 30, 31, 30, 31, 31, 29>>

\* The sums of the parts of a month and of k days: a day is 2140 of them, a month
\* 65536.
MonthParts(N, month, k) ==
    /\ N \in Int /\ N < 65536 * (month + 1)
    /\ 65536 * month + 2140 * k + 10 <= N /\ N <= 65536 * month + 2140 * k + 2000

\* The month m of the year from March, as a month from January; its parts.
FromJanuary(m) == IF m >= 10 THEN m - 9 ELSE m + 3
PartsOf(b, bump, p) == b * 512 + (IF bump THEN SHIFT_JAN_FEB ELSE SHIFT_OTHER) - p
MarchDay(m, d) == k_doy_from_march[m + 1] + (d - 1)
QuartersAt(b, m, d) == 1457 + b - 4 * MarchDay(m, d)

\* The part of the year that the division leaves tells January and February from the
\* other months, and the month and the day.
LEMMA MonthOfPart ==
    ASSUME NEW m \in 0..11, NEW d \in 1..31, d <= DaysOfMonth[m + 1], NEW b \in 0..3,
           NEW p, PartBounds(QuartersAt(b, m, d), p)
    PROVE  /\ IsBump(p) <=> m >= 10
           /\ MonthParts(PartsOf(b, m >= 10, p), FromJanuary(m), d - 1)
<1> DEFINE N == PartsOf(b, m >= 10, p)
           t == QuartersAt(b, m, d)
           Bounds == /\ IsBump(p) <=> m >= 10
                     /\ MonthParts(N, FromJanuary(m), d - 1)
<1>0. p \in Int /\ 782432 * t < 1461 * (p + 1) /\ 1461 * p <= 782432 * t + 10000
  BY DEF PartBounds
<1>1. ASSUME m = 0 PROVE Bounds
  <2>1. d <= 31 /\ t = 1457 + b - 4 * (0 + (d - 1))
    BY <1>1 DEF DaysOfMonth, k_doy_from_march, QuartersAt, MarchDay
  <2>2. N = b * 512 + 977792 - p /\ FromJanuary(m) = 3
    BY <1>1 DEF PartsOf, FromJanuary, SHIFT_JAN_FEB, SHIFT_OTHER
  <2> HIDE DEF N, t
  <2>3. p >= 126464
    BY <1>0, <2>1
  <2>4. N \in Int /\ N < 65536 * (3 + 1)
    BY <1>0, <2>1, <2>2
  <2>5. 65536 * 3 + 2140 * (d - 1) + 10 <= N
    BY <1>0, <2>1, <2>2
  <2>6. N <= 65536 * 3 + 2140 * (d - 1) + 2000
    BY <1>0, <2>1, <2>2
  <2>7. MonthParts(N, 3, d - 1)
    BY <2>4, <2>5, <2>6 DEF MonthParts
  <2>8. IsBump(p) <=> m >= 10
    BY <1>1, <1>0, <2>3 DEF IsBump
  <2> QED
    BY <2>2, <2>7, <2>8
<1>2. ASSUME m = 1 PROVE Bounds
  <2>1. d <= 30 /\ t = 1457 + b - 4 * (31 + (d - 1))
    BY <1>2 DEF DaysOfMonth, k_doy_from_march, QuartersAt, MarchDay
  <2>2. N = b * 512 + 977792 - p /\ FromJanuary(m) = 4
    BY <1>2 DEF PartsOf, FromJanuary, SHIFT_JAN_FEB, SHIFT_OTHER
  <2> HIDE DEF N, t
  <2>3. p >= 126464
    BY <1>0, <2>1
  <2>4. N \in Int /\ N < 65536 * (4 + 1)
    BY <1>0, <2>1, <2>2
  <2>5. 65536 * 4 + 2140 * (d - 1) + 10 <= N
    BY <1>0, <2>1, <2>2
  <2>6. N <= 65536 * 4 + 2140 * (d - 1) + 2000
    BY <1>0, <2>1, <2>2
  <2>7. MonthParts(N, 4, d - 1)
    BY <2>4, <2>5, <2>6 DEF MonthParts
  <2>8. IsBump(p) <=> m >= 10
    BY <1>2, <1>0, <2>3 DEF IsBump
  <2> QED
    BY <2>2, <2>7, <2>8
<1>3. ASSUME m = 2 PROVE Bounds
  <2>1. d <= 31 /\ t = 1457 + b - 4 * (61 + (d - 1))
    BY <1>3 DEF DaysOfMonth, k_doy_from_march, QuartersAt, MarchDay
  <2>2. N = b * 512 + 977792 - p /\ FromJanuary(m) = 5
    BY <1>3 DEF PartsOf, FromJanuary, SHIFT_JAN_FEB, SHIFT_OTHER
  <2> HIDE DEF N, t
  <2>3. p >= 126464
    BY <1>0, <2>1
  <2>4. N \in Int /\ N < 65536 * (5 + 1)
    BY <1>0, <2>1, <2>2
  <2>5. 65536 * 5 + 2140 * (d - 1) + 10 <= N
    BY <1>0, <2>1, <2>2
  <2>6. N <= 65536 * 5 + 2140 * (d - 1) + 2000
    BY <1>0, <2>1, <2>2
  <2>7. MonthParts(N, 5, d - 1)
    BY <2>4, <2>5, <2>6 DEF MonthParts
  <2>8. IsBump(p) <=> m >= 10
    BY <1>3, <1>0, <2>3 DEF IsBump
  <2> QED
    BY <2>2, <2>7, <2>8
<1>4. ASSUME m = 3 PROVE Bounds
  <2>1. d <= 30 /\ t = 1457 + b - 4 * (92 + (d - 1))
    BY <1>4 DEF DaysOfMonth, k_doy_from_march, QuartersAt, MarchDay
  <2>2. N = b * 512 + 977792 - p /\ FromJanuary(m) = 6
    BY <1>4 DEF PartsOf, FromJanuary, SHIFT_JAN_FEB, SHIFT_OTHER
  <2> HIDE DEF N, t
  <2>3. p >= 126464
    BY <1>0, <2>1
  <2>4. N \in Int /\ N < 65536 * (6 + 1)
    BY <1>0, <2>1, <2>2
  <2>5. 65536 * 6 + 2140 * (d - 1) + 10 <= N
    BY <1>0, <2>1, <2>2
  <2>6. N <= 65536 * 6 + 2140 * (d - 1) + 2000
    BY <1>0, <2>1, <2>2
  <2>7. MonthParts(N, 6, d - 1)
    BY <2>4, <2>5, <2>6 DEF MonthParts
  <2>8. IsBump(p) <=> m >= 10
    BY <1>4, <1>0, <2>3 DEF IsBump
  <2> QED
    BY <2>2, <2>7, <2>8
<1>5. ASSUME m = 4 PROVE Bounds
  <2>1. d <= 31 /\ t = 1457 + b - 4 * (122 + (d - 1))
    BY <1>5 DEF DaysOfMonth, k_doy_from_march, QuartersAt, MarchDay
  <2>2. N = b * 512 + 977792 - p /\ FromJanuary(m) = 7
    BY <1>5 DEF PartsOf, FromJanuary, SHIFT_JAN_FEB, SHIFT_OTHER
  <2> HIDE DEF N, t
  <2>3. p >= 126464
    BY <1>0, <2>1
  <2>4. N \in Int /\ N < 65536 * (7 + 1)
    BY <1>0, <2>1, <2>2
  <2>5. 65536 * 7 + 2140 * (d - 1) + 10 <= N
    BY <1>0, <2>1, <2>2
  <2>6. N <= 65536 * 7 + 2140 * (d - 1) + 2000
    BY <1>0, <2>1, <2>2
  <2>7. MonthParts(N, 7, d - 1)
    BY <2>4, <2>5, <2>6 DEF MonthParts
  <2>8. IsBump(p) <=> m >= 10
    BY <1>5, <1>0, <2>3 DEF IsBump
  <2> QED
    BY <2>2, <2>7, <2>8
<1>6. ASSUME m = 5 PROVE Bounds
  <2>1. d <= 31 /\ t = 1457 + b - 4 * (153 + (d - 1))
    BY <1>6 DEF DaysOfMonth, k_doy_from_march, QuartersAt, MarchDay
  <2>2. N = b * 512 + 977792 - p /\ FromJanuary(m) = 8
    BY <1>6 DEF PartsOf, FromJanuary, SHIFT_JAN_FEB, SHIFT_OTHER
  <2> HIDE DEF N, t
  <2>3. p >= 126464
    BY <1>0, <2>1
  <2>4. N \in Int /\ N < 65536 * (8 + 1)
    BY <1>0, <2>1, <2>2
  <2>5. 65536 * 8 + 2140 * (d - 1) + 10 <= N
    BY <1>0, <2>1, <2>2
  <2>6. N <= 65536 * 8 + 2140 * (d - 1) + 2000
    BY <1>0, <2>1, <2>2
  <2>7. MonthParts(N, 8, d - 1)
    BY <2>4, <2>5, <2>6 DEF MonthParts
  <2>8. IsBump(p) <=> m >= 10
    BY <1>6, <1>0, <2>3 DEF IsBump
  <2> QED
    BY <2>2, <2>7, <2>8
<1>7. ASSUME m = 6 PROVE Bounds
  <2>1. d <= 30 /\ t = 1457 + b - 4 * (184 + (d - 1))
    BY <1>7 DEF DaysOfMonth, k_doy_from_march, QuartersAt, MarchDay
  <2>2. N = b * 512 + 977792 - p /\ FromJanuary(m) = 9
    BY <1>7 DEF PartsOf, FromJanuary, SHIFT_JAN_FEB, SHIFT_OTHER
  <2> HIDE DEF N, t
  <2>3. p >= 126464
    BY <1>0, <2>1
  <2>4. N \in Int /\ N < 65536 * (9 + 1)
    BY <1>0, <2>1, <2>2
  <2>5. 65536 * 9 + 2140 * (d - 1) + 10 <= N
    BY <1>0, <2>1, <2>2
  <2>6. N <= 65536 * 9 + 2140 * (d - 1) + 2000
    BY <1>0, <2>1, <2>2
  <2>7. MonthParts(N, 9, d - 1)
    BY <2>4, <2>5, <2>6 DEF MonthParts
  <2>8. IsBump(p) <=> m >= 10
    BY <1>7, <1>0, <2>3 DEF IsBump
  <2> QED
    BY <2>2, <2>7, <2>8
<1>8. ASSUME m = 7 PROVE Bounds
  <2>1. d <= 31 /\ t = 1457 + b - 4 * (214 + (d - 1))
    BY <1>8 DEF DaysOfMonth, k_doy_from_march, QuartersAt, MarchDay
  <2>2. N = b * 512 + 977792 - p /\ FromJanuary(m) = 10
    BY <1>8 DEF PartsOf, FromJanuary, SHIFT_JAN_FEB, SHIFT_OTHER
  <2> HIDE DEF N, t
  <2>3. p >= 126464
    BY <1>0, <2>1
  <2>4. N \in Int /\ N < 65536 * (10 + 1)
    BY <1>0, <2>1, <2>2
  <2>5. 65536 * 10 + 2140 * (d - 1) + 10 <= N
    BY <1>0, <2>1, <2>2
  <2>6. N <= 65536 * 10 + 2140 * (d - 1) + 2000
    BY <1>0, <2>1, <2>2
  <2>7. MonthParts(N, 10, d - 1)
    BY <2>4, <2>5, <2>6 DEF MonthParts
  <2>8. IsBump(p) <=> m >= 10
    BY <1>8, <1>0, <2>3 DEF IsBump
  <2> QED
    BY <2>2, <2>7, <2>8
<1>9. ASSUME m = 8 PROVE Bounds
  <2>1. d <= 30 /\ t = 1457 + b - 4 * (245 + (d - 1))
    BY <1>9 DEF DaysOfMonth, k_doy_from_march, QuartersAt, MarchDay
  <2>2. N = b * 512 + 977792 - p /\ FromJanuary(m) = 11
    BY <1>9 DEF PartsOf, FromJanuary, SHIFT_JAN_FEB, SHIFT_OTHER
  <2> HIDE DEF N, t
  <2>3. p >= 126464
    BY <1>0, <2>1
  <2>4. N \in Int /\ N < 65536 * (11 + 1)
    BY <1>0, <2>1, <2>2
  <2>5. 65536 * 11 + 2140 * (d - 1) + 10 <= N
    BY <1>0, <2>1, <2>2
  <2>6. N <= 65536 * 11 + 2140 * (d - 1) + 2000
    BY <1>0, <2>1, <2>2
  <2>7. MonthParts(N, 11, d - 1)
    BY <2>4, <2>5, <2>6 DEF MonthParts
  <2>8. IsBump(p) <=> m >= 10
    BY <1>9, <1>0, <2>3 DEF IsBump
  <2> QED
    BY <2>2, <2>7, <2>8
<1>10. ASSUME m = 9 PROVE Bounds
  <2>1. d <= 31 /\ t = 1457 + b - 4 * (275 + (d - 1))
    BY <1>10 DEF DaysOfMonth, k_doy_from_march, QuartersAt, MarchDay
  <2>2. N = b * 512 + 977792 - p /\ FromJanuary(m) = 12
    BY <1>10 DEF PartsOf, FromJanuary, SHIFT_JAN_FEB, SHIFT_OTHER
  <2> HIDE DEF N, t
  <2>3. p >= 126464
    BY <1>0, <2>1
  <2>4. N \in Int /\ N < 65536 * (12 + 1)
    BY <1>0, <2>1, <2>2
  <2>5. 65536 * 12 + 2140 * (d - 1) + 10 <= N
    BY <1>0, <2>1, <2>2
  <2>6. N <= 65536 * 12 + 2140 * (d - 1) + 2000
    BY <1>0, <2>1, <2>2
  <2>7. MonthParts(N, 12, d - 1)
    BY <2>4, <2>5, <2>6 DEF MonthParts
  <2>8. IsBump(p) <=> m >= 10
    BY <1>10, <1>0, <2>3 DEF IsBump
  <2> QED
    BY <2>2, <2>7, <2>8
<1>11. ASSUME m = 10 PROVE Bounds
  <2>1. d <= 31 /\ t = 1457 + b - 4 * (306 + (d - 1))
    BY <1>11 DEF DaysOfMonth, k_doy_from_march, QuartersAt, MarchDay
  <2>2. N = b * 512 + 191360 - p /\ FromJanuary(m) = 1
    BY <1>11 DEF PartsOf, FromJanuary, SHIFT_JAN_FEB, SHIFT_OTHER
  <2> HIDE DEF N, t
  <2>3. p < 126464
    BY <1>0, <2>1
  <2>4. N \in Int /\ N < 65536 * (1 + 1)
    BY <1>0, <2>1, <2>2
  <2>5. 65536 * 1 + 2140 * (d - 1) + 10 <= N
    BY <1>0, <2>1, <2>2
  <2>6. N <= 65536 * 1 + 2140 * (d - 1) + 2000
    BY <1>0, <2>1, <2>2
  <2>7. MonthParts(N, 1, d - 1)
    BY <2>4, <2>5, <2>6 DEF MonthParts
  <2>8. IsBump(p) <=> m >= 10
    BY <1>11, <1>0, <2>3 DEF IsBump
  <2> QED
    BY <2>2, <2>7, <2>8
<1>12. ASSUME m = 11 PROVE Bounds
  <2>1. d <= 29 /\ t = 1457 + b - 4 * (337 + (d - 1))
    BY <1>12 DEF DaysOfMonth, k_doy_from_march, QuartersAt, MarchDay
  <2>2. N = b * 512 + 191360 - p /\ FromJanuary(m) = 2
    BY <1>12 DEF PartsOf, FromJanuary, SHIFT_JAN_FEB, SHIFT_OTHER
  <2> HIDE DEF N, t
  <2>3. p < 126464
    BY <1>0, <2>1
  <2>4. N \in Int /\ N < 65536 * (2 + 1)
    BY <1>0, <2>1, <2>2
  <2>5. 65536 * 2 + 2140 * (d - 1) + 10 <= N
    BY <1>0, <2>1, <2>2
  <2>6. N <= 65536 * 2 + 2140 * (d - 1) + 2000
    BY <1>0, <2>1, <2>2
  <2>7. MonthParts(N, 2, d - 1)
    BY <2>4, <2>5, <2>6 DEF MonthParts
  <2>8. IsBump(p) <=> m >= 10
    BY <1>12, <1>0, <2>3 DEF IsBump
  <2> QED
    BY <2>2, <2>7, <2>8
<1> HIDE DEF Bounds
<1>13. m = 0 \/ m = 1 \/ m = 2 \/ m = 3 \/ m = 4 \/ m = 5 \/ m = 6 \/ m = 7 \/ m = 8 \/ m = 9
         \/ m = 10 \/ m = 11
  OBVIOUS
<1>14. Bounds
  BY <1>13, <1>1, <1>2, <1>3, <1>4, <1>5, <1>6, <1>7, <1>8, <1>9, <1>10, <1>11, <1>12
<1> QED
  BY <1>14 DEF Bounds

\* Multiplication with C3 divides by 2140, as far from a multiple as the parts
\* of the days are.
LEMMA DayByProduct ==
    ASSUME NEW k \in 0..30, NEW x \in Int, 2140 * k + 10 <= x, x <= 2140 * k + 2000,
           NEW lo, Number64(lo), NEW hi, Number64(hi), x * DayFactor = lo + TwoTo64 * hi
    PROVE  hi = k
BY SMT DEF TwoTo64, Number64, DayFactor

\* The month and the day in a sum of parts.
LEMMA DateOfParts ==
    ASSUME NEW y, NEW month \in 1..12, NEW k \in 0..30, NEW N, MonthParts(N, month, k)
    PROVE  DateFrom(y, N) = Date(y, month, k + 1)
<1> DEFINE x == N % 65536
           hi == Value(High(Product(ToWord(x), C3)))
           lo == Value(Low(Product(ToWord(x), C3)))
<1>1. N \in Int /\ 65536 * month <= N /\ N < 65536 * (month + 1)
  BY DEF MonthParts
<1>2. N \div 65536 = month
  BY <1>1
<1>3. x = N - 65536 * month
  BY <1>1
<1> HIDE DEF x
<1>4. x \in Int /\ 2140 * k + 10 <= x /\ x <= 2140 * k + 2000
  BY <1>1, <1>3 DEF MonthParts
<1>5. Number64(x)
  BY <1>4, SMT DEF Number64, TwoTo64
<1>6. IsWord(ToWord(x)) /\ Value(ToWord(x)) = x
  BY <1>5, ToWordNumber
<1>7. /\ IsWord(High(Product(ToWord(x), C3))) /\ Number64(lo) /\ Number64(hi)
      /\ x * DayFactor = lo + TwoTo64 * hi
  BY <1>6, ProductHalves, ConstantWords
<1>8. hi = k
  <2> HIDE DEF hi, lo
  <2> QED
    BY <1>4, <1>7, DayByProduct, SMT
<1>9. ToInt(High(Product(ToWord(x), C3))) = k
  <2> DEFINE w == High(Product(ToWord(x), C3))
  <2>1. IsWord(w) /\ Value(w) = k
    BY <1>7, <1>8
  <2> HIDE DEF w
  <2>2. k \in Int /\ -2147483648 <= k /\ k <= 2147483647 /\ k = Value(w) + TwoTo64 * 0
    BY <2>1, SMT DEF TwoTo64
  <2>3. ToInt(w) = k
    BY <2>1, <2>2, ToIntValue, SMT
  <2> QED
    BY <2>3 DEF w
<1> QED
  BY <1>2, <1>9 DEF DateFrom, mul_shift_u64, High, x

\* The days of a year from March; the last one is a leap day.
InYear(doy, m, d) == doy \in 0..365 /\ (doy = 365 => m = 11 /\ d = 29)

\* The days of the months are days of a year.
LEMMA MarchDays ==
    ASSUME NEW m \in 0..11, NEW d \in 1..31, d <= DaysOfMonth[m + 1]
    PROVE  InYear(MarchDay(m, d), m, d) /\ k_doy_from_march[m + 1] \in Int
<1>1. CASE m = 0
  <2>1. d <= 31 /\ k_doy_from_march[m + 1] = 0
    BY <1>1 DEF DaysOfMonth, k_doy_from_march
  <2> QED
    BY <1>1, <2>1 DEF MarchDay, InYear
<1>2. CASE m = 1
  <2>1. d <= 30 /\ k_doy_from_march[m + 1] = 31
    BY <1>2 DEF DaysOfMonth, k_doy_from_march
  <2> QED
    BY <1>2, <2>1 DEF MarchDay, InYear
<1>3. CASE m = 2
  <2>1. d <= 31 /\ k_doy_from_march[m + 1] = 61
    BY <1>3 DEF DaysOfMonth, k_doy_from_march
  <2> QED
    BY <1>3, <2>1 DEF MarchDay, InYear
<1>4. CASE m = 3
  <2>1. d <= 30 /\ k_doy_from_march[m + 1] = 92
    BY <1>4 DEF DaysOfMonth, k_doy_from_march
  <2> QED
    BY <1>4, <2>1 DEF MarchDay, InYear
<1>5. CASE m = 4
  <2>1. d <= 31 /\ k_doy_from_march[m + 1] = 122
    BY <1>5 DEF DaysOfMonth, k_doy_from_march
  <2> QED
    BY <1>5, <2>1 DEF MarchDay, InYear
<1>6. CASE m = 5
  <2>1. d <= 31 /\ k_doy_from_march[m + 1] = 153
    BY <1>6 DEF DaysOfMonth, k_doy_from_march
  <2> QED
    BY <1>6, <2>1 DEF MarchDay, InYear
<1>7. CASE m = 6
  <2>1. d <= 30 /\ k_doy_from_march[m + 1] = 184
    BY <1>7 DEF DaysOfMonth, k_doy_from_march
  <2> QED
    BY <1>7, <2>1 DEF MarchDay, InYear
<1>8. CASE m = 7
  <2>1. d <= 31 /\ k_doy_from_march[m + 1] = 214
    BY <1>8 DEF DaysOfMonth, k_doy_from_march
  <2> QED
    BY <1>8, <2>1 DEF MarchDay, InYear
<1>9. CASE m = 8
  <2>1. d <= 30 /\ k_doy_from_march[m + 1] = 245
    BY <1>9 DEF DaysOfMonth, k_doy_from_march
  <2> QED
    BY <1>9, <2>1 DEF MarchDay, InYear
<1>10. CASE m = 9
  <2>1. d <= 31 /\ k_doy_from_march[m + 1] = 275
    BY <1>10 DEF DaysOfMonth, k_doy_from_march
  <2> QED
    BY <1>10, <2>1 DEF MarchDay, InYear
<1>11. CASE m = 10
  <2>1. d <= 31 /\ k_doy_from_march[m + 1] = 306
    BY <1>11 DEF DaysOfMonth, k_doy_from_march
  <2> QED
    BY <1>11, <2>1 DEF MarchDay, InYear
<1>12. CASE m = 11
  <2>1. d <= 29 /\ k_doy_from_march[m + 1] = 337
    BY <1>12 DEF DaysOfMonth, k_doy_from_march
  <2> QED
    BY <1>12, <2>1 DEF MarchDay, InYear
<1>13. m = 0 \/ m = 1 \/ m = 2 \/ m = 3 \/ m = 4 \/ m = 5 \/ m = 6 \/ m = 7 \/ m = 8 \/ m = 9
         \/ m = 10 \/ m = 11
  OBVIOUS
<1> QED
  BY <1>13, <1>1, <1>2, <1>3, <1>4, <1>5, <1>6, <1>7, <1>8, <1>9, <1>10, <1>11, <1>12
-----------------------------------------------------------------------------
(* Dates                                                                   *)

\* The years that ToInt() can tell.
InWordRange(y) == y \in Int /\ -2147483648 <= y /\ y <= 2147483647

\* The conversions of days to the date and to its year, for a date from March.
DateTold(days, y, m, d) ==
    /\ fast_year_from_days(days) = (IF m >= 10 THEN y + 1 ELSE y)
    /\ fast_date_from_days(days) = Date(IF m >= 10 THEN y + 1 ELSE y, FromJanuary(m), d)

\* They tell every date that is given by era, year and day of the year.
LEMMA DateOfEraDay ==
    ASSUME NEW era, Era(era), NEW yoe \in 0..399, NEW m \in 0..11, NEW d \in 1..31, d <= DaysOfMonth[m + 1],
           m = 11 /\ d = 29 => LeapAtEnd(yoe), NEW y, InWordRange(y), y = 400 * era + yoe,
           NEW days, days = EraDay(era, DaysOfEra(yoe, MarchDay(m, d)))
    PROVE  DateTold(days, y, m, d)
<1> DEFINE doy == MarchDay(m, d)
           split == YearSplit(days)
           b == yoe % 4
           year == IF m >= 10 THEN y + 1 ELSE y
<1>0. y \in Int /\ era \in Int
  BY SMT DEF InWordRange, Era
<1>1. doy \in 0..365 /\ (doy = 365 => m = 11 /\ d = 29)
  <2>1. InYear(MarchDay(m, d), m, d)
    BY MarchDays, Zenon
  <2> QED
    BY <2>1 DEF InYear
<1>2. QuartersOf(yoe, doy) = QuartersAt(b, m, d)
  BY DEF QuartersOf, QuartersAt
<1> HIDE DEF doy
<1>3. YearsTold(split, y, QuartersOf(yoe, doy))
  <2>1. doy = 365 => LeapAtEnd(yoe)
    BY <1>1
  <2> QED
    BY <1>1, <2>1, YearsOfEraDay, ZenonT(60) DEF doy
<1>4. /\ IsWord(split.yrs) /\ PartBounds(QuartersAt(b, m, d), split.ypt)
      /\ split.bump <=> IsBump(split.ypt)
      /\ Wraps(y, split.yrs)
  BY <1>2, <1>3 DEF YearsTold
<1>5. b \in 0..3
  OBVIOUS
<1>6. split.yrs[1] % 4 = b
  <2> DEFINE w == split.yrs
  <2>1. IsWord(w) /\ Wraps(y, w)
    BY <1>4
  <2> HIDE DEF split, w, b
  <2>2. w[1] % 4 = yoe % 4
    BY <2>1, <1>0, YearInWord, ZenonT(60)
  <2> QED
    BY <2>2 DEF w, b
<1> HIDE DEF b, split
<1>7. (IsBump(split.ypt) <=> m >= 10) /\ MonthParts(PartsOf(b, m >= 10, split.ypt), FromJanuary(m), d - 1)
  BY <1>4, <1>5, MonthOfPart
<1>8. split.bump <=> m >= 10
  BY <1>4, <1>7
<1>9. ToInt(split.yrs) = y
  <2>1. PICK k \in Int : y = Value(split.yrs) + TwoTo64 * k
    BY <1>4 DEF Wraps
  <2> QED
    BY <1>4, <2>1, ToIntValue, SMT DEF InWordRange
<1>10. YearOf(split) = year
  <2>1. CASE m >= 10
    BY <1>8, <1>9, <2>1 DEF YearOf
  <2>2. CASE ~(m >= 10)
    <3>1. YearOf(split) = y + 0
      BY <1>8, <1>9, <2>2 DEF YearOf
    <3> QED
      BY <1>0, <2>2, <3>1
  <2> QED
    BY <2>1, <2>2
<1> DEFINE N == PartsOf(b, m >= 10, split.ypt)
<1>11. DateOf(split) = DateFrom(year, N)
  <2>1. CASE m >= 10
    BY <1>6, <1>8, <1>10, <2>1 DEF DateOf, PartsOf
  <2>2. CASE ~(m >= 10)
    BY <1>6, <1>8, <1>10, <2>2 DEF DateOf, PartsOf
  <2> QED
    BY <2>1, <2>2
<1>12. FromJanuary(m) \in 1..12 /\ d - 1 \in 0..30 /\ (d - 1) + 1 = d
  BY DEF FromJanuary
<1> HIDE DEF N, year
<1>13. DateFrom(year, N) = Date(year, FromJanuary(m), d)
  <2> DEFINE k == d - 1
             month == FromJanuary(m)
  <2>1. month \in 1..12 /\ k \in 0..30 /\ MonthParts(N, month, k) /\ k + 1 = d
    BY <1>7, <1>12 DEF N
  <2> HIDE DEF k, month
  <2>2. DateFrom(year, N) = Date(year, month, k + 1)
    BY <2>1, DateOfParts
  <2> QED
    BY <2>1, <2>2 DEF month
<1>14. fast_year_from_days(days) = YearOf(split) /\ fast_date_from_days(days) = DateOf(split)
  BY DEF fast_year_from_days, fast_date_from_days, split
<1> QED
  BY <1>10, <1>11, <1>13, <1>14 DEF DateTold, year

\* A year from March, in its era.
MarchYear(year, month) == year - (IF month <= 2 THEN 1 ELSE 0)
MarchMonth(month) == IF month < 3 THEN month + 9 ELSE month - 3
EraOf(y) == IF y >= 0 THEN y \div 400 ELSE TruncDiv(y - 399, 400)

\* The era is rounded down, for years of both signs.
LEMMA EraRoundedDown ==
    ASSUME NEW y \in Int
    PROVE  EraOf(y) \in Int /\ y - EraOf(y) * 400 \in 0..399
<1>1. CASE y >= 0
  BY <1>1 DEF EraOf
<1>2. CASE y < 0
  <2>1. EraOf(y) = -((399 - y) \div 400)
    BY <1>2 DEF EraOf, TruncDiv
  <2> DEFINE q == (399 - y) \div 400
  <2>2. q \in Int /\ 400 * q <= 399 - y /\ 399 - y <= 400 * q + 399
    BY <1>2
  <2> HIDE DEF q
  <2> QED
    BY <2>1, <2>2 DEF q
<1> QED
  BY <1>1, <1>2

\* A day that exists in the calendar: 29 February in leap years only.
IsCalendarDay(year, month, day) ==
    /\ month \in 1..12 /\ day \in 1..31 /\ day <= DaysOfMonth[MarchMonth(month) + 1]
    /\ month = 2 /\ day = 29 => year % 4 = 0 /\ (year % 100 # 0 \/ year % 400 = 0)

\* A leap day is the last of a year of the era that ends with it.
LEMMA LeapDayAtEnd ==
    ASSUME NEW era \in Int, NEW yoe \in 0..399, NEW year \in Int, year = 400 * era + yoe + 1,
           year % 4 = 0, year % 100 # 0 \/ year % 400 = 0
    PROVE  LeapAtEnd(yoe)
<1>1. yoe % 4 = 3
  OBVIOUS
<1>2. yoe % 100 # 99 \/ yoe = 399
  <2>1. CASE year % 100 # 0
    <3>1. yoe % 100 # 99
      BY <2>1
    <3> QED
      BY <3>1
  <2>2. CASE year % 400 = 0
    <3>1. yoe = 399
      BY <2>2
    <3> QED
      BY <3>1
  <2> QED
    BY <2>1, <2>2
<1> QED
  BY <1>1, <1>2 DEF LeapAtEnd

\* The years of which ToInt() can tell the number, with those they begin in by the count from March.
YearInRange(year) == year \in Int /\ -2147483647 <= year /\ year <= 2147483647

\* The date of the days of a date is that date, and its year is that year: the
\* multiplications that stand for the divisions are exact, in every year that an
\* int32_t can hold.
THEOREM DatesComeBack ==
    ASSUME NEW year, YearInRange(year), NEW month, NEW day, IsCalendarDay(year, month, day)
    PROVE  /\ fast_date_from_days(fast_days_from_date(year, month, day)) = Date(year, month, day)
           /\ fast_year_from_days(fast_days_from_date(year, month, day)) = year
<1> DEFINE y == MarchYear(year, month)
           m == MarchMonth(month)
           era == EraOf(y)
           yoe == y - era * 400
           days == fast_days_from_date(year, month, day)
<1>1. m \in 0..11 /\ month \in 1..12 /\ day \in 1..31 /\ day <= DaysOfMonth[m + 1]
  BY DEF IsCalendarDay, MarchMonth
<1>2. y \in Int /\ year \in Int
  BY <1>1, SMT DEF MarchYear, YearInRange
<1>12. InWordRange(y)
  BY <1>1, SMT DEF MarchYear, YearInRange, InWordRange
<1>3. FromJanuary(m) = month /\ (IF m >= 10 THEN y + 1 ELSE y) = year
  BY <1>1, <1>2 DEF FromJanuary, MarchMonth, MarchYear
<1>4. m = 11 <=> month = 2
  BY <1>1 DEF MarchMonth
<1>5. month = 2 => year = y + 1
  BY <1>2 DEF MarchYear
<1>6. days = EraDay(era, DaysOfEra(yoe, MarchDay(m, day)))
  <2> DEFINE e == EraOf(MarchYear(year, month))
             n == MarchYear(year, month) - e * 400
             k == MarchMonth(month)
  <2>1. days = e * 146097 + DayOfEra(n, k, day) - 719468
    BY SMT DEF fast_days_from_date, MarchYear, MarchMonth, EraOf
  <2>2. DayOfEra(n, k, day) = DaysOfEra(n, MarchDay(k, day))
    <3> DEFINE b == k_doy_from_march[k + 1]
    <3>1. b \in Int
      BY <1>1, MarchDays
    <3>2. n \in Int
      BY <1>2, EraRoundedDown
    <3> HIDE DEF n, b
    <3>3. n * 365 + n \div 4 - n \div 100 + b + (day - 1) = n * 365 + n \div 4 - n \div 100 + (b + (day - 1))
      BY <1>1, <3>1, <3>2
    <3> QED
      BY <3>3 DEF DayOfEra, DaysOfEra, MarchDay, b
  <2> HIDE DEF e, n, k, days
  <2>3. days = EraDay(e, DaysOfEra(n, MarchDay(k, day)))
    BY <2>1, <2>2, SMT DEF EraDay
  <2> QED
    BY <2>3 DEF e, n, k
<1> HIDE DEF y, m, days
<1>7. era \in Int /\ yoe \in 0..399
  BY <1>2, EraRoundedDown
<1> HIDE DEF era
<1>8. y = 400 * era + yoe
  BY <1>2, <1>7
<1> HIDE DEF yoe
<1>9. Era(era)
  BY <1>12, <1>7, <1>8, SMT DEF Era, InWordRange
<1>10. m = 11 /\ day = 29 => LeapAtEnd(yoe)
  <2> SUFFICES ASSUME m = 11, day = 29 PROVE LeapAtEnd(yoe)
    OBVIOUS
  <2>1. year % 4 = 0 /\ (year % 100 # 0 \/ year % 400 = 0)
    BY <1>4 DEF IsCalendarDay
  <2>2. year = 400 * era + yoe + 1
    BY <1>4, <1>5, <1>8, <1>7
  <2> QED
    BY <1>2, <1>7, <2>1, <2>2, LeapDayAtEnd
<1>11. DateTold(days, y, m, day)
  <2> HIDE DEF y, m, days
  <2> QED
    BY <1>1, <1>6, <1>7, <1>8, <1>9, <1>10, <1>12, DateOfEraDay, ZenonT(60)
<1> QED
  BY <1>3, <1>11 DEF DateTold, days
=============================================================================
