----------------------------- MODULE CodecProofs -----------------------------
(***************************************************************************)
(* Proofs that what the packets carry is understood, for bytes of any      *)
(* base, fields of any length, any words, topics, ids and contents that    *)
(* fit, and either order of the bytes of a number.                         *)
(***************************************************************************)
EXTENDS Codec, DigitProofs, SequenceTheorems, TLAPS

-----------------------------------------------------------------------------
(***************************************************************************)
(* Strings in memory.                                                      *)
(***************************************************************************)

\* Characters are bytes, and none of them ends a string.
LEMMA CharsType ==
  /\ \A c \in Chars : c \in Nat /\ c # 0
  /\ Seq(Chars) \subseteq Seq(Int)
<1>1. \A c \in Chars : c \in Nat /\ c # 0
  BY SizesAssumption DEF Chars, TYPE_INVALID
<1>2. Chars \subseteq Int
  BY <1>1
<1>3. QED
  BY <1>1, <1>2, SeqMonotonic

\* A sequence of numbers is made of its numbers.
LEMMA SequenceOf ==
  ASSUME NEW n \in Nat, NEW S, NEW s \in [1..n -> S]
  PROVE  s \in Seq(S) /\ Len(s) = n
<1>1. s \in Seq(S)
  BY SeqDef
<1>2. QED
  BY <1>1, LenProperties

\* The place of the first 0.
LEMMA FirstZero ==
  ASSUME NEW s \in Seq(Int), NEW n \in 1..Len(s), s[n] = 0, \A i \in 1..(n - 1) : s[i] # 0
  PROVE  SelectInSeq(s, LAMBDA byte : byte = 0) = n
BY DEF SelectInSeq, Min

\* The string in memory is w when the bytes begin with its characters and 0, or hold nothing else.
LEMMA CStringIs ==
  ASSUME NEW s \in Seq(Int), NEW w \in Seq(Chars), Len(w) <= Len(s),
         \A i \in 1..Len(w) : s[i] = w[i],
         Len(w) < Len(s) => s[Len(w) + 1] = 0
  PROVE  CString(s) = w
<1>1. Len(w) \in Nat /\ Len(s) \in Nat /\ \A i \in 1..Len(w) : w[i] \in Chars
  BY LenProperties, ElementOfSeq
<1>2. \A i \in 1..Len(w) : s[i] # 0 /\ s[i] \in Int
  BY <1>1, CharsType
<1>3. SubSeq(s, 1, Len(w)) = w
  <2>1. /\ SubSeq(s, 1, Len(w)) \in Seq(Int) /\ Len(SubSeq(s, 1, Len(w))) = Len(w)
        /\ \A i \in 1..Len(w) : SubSeq(s, 1, Len(w))[i] = s[i]
    BY <1>1, <1>2, SubSeqProperties
  <2>2. w \in Seq(Int)
    BY CharsType
  <2>3. QED
    BY <2>1, <2>2, SeqEqual
<1>4. CASE Len(w) < Len(s)
  <2>1. Len(w) + 1 \in 1..Len(s) /\ s[Len(w) + 1] = 0
    BY <1>1, <1>4
  <2>2. SelectInSeq(s, LAMBDA byte : byte = 0) = Len(w) + 1
    <3>1. \A i \in 1..((Len(w) + 1) - 1) : s[i] # 0
      BY <1>1, <1>2
    <3>2. QED
      BY <2>1, <3>1, FirstZero
  <2>3. CString(s) = SubSeq(s, 1, (Len(w) + 1) - 1)
    BY <1>1, <2>2 DEF CString
  <2>4. (Len(w) + 1) - 1 = Len(w)
    BY <1>1
  <2>5. QED
    BY <1>3, <2>3, <2>4
<1>5. CASE Len(w) = Len(s)
  <2>1. SelectInSeq(s, LAMBDA byte : byte = 0) = 0
    BY <1>2, <1>5 DEF SelectInSeq
  <2>2. CString(s) = s
    BY <2>1 DEF CString
  <2>3. s = SubSeq(s, 1, Len(w))
    BY <1>5, SubSeqFull
  <2>4. QED
    BY <1>3, <2>2, <2>3
<1>6. QED
  BY <1>1, <1>4, <1>5

\* A string and its end, whatever follows.
LEMMA CStringOfString ==
  ASSUME NEW w \in Seq(Chars), NEW t \in Seq(Int), t # <<>>, t[1] = 0
  PROVE  CString(w \o t) = w
<1>1. w \in Seq(Int) /\ Len(w) \in Nat /\ Len(t) \in Nat \ {0}
  BY CharsType, LenProperties, EmptySeq
<1>2. /\ w \o t \in Seq(Int) /\ Len(w \o t) = Len(w) + Len(t)
      /\ \A i \in 1..(Len(w) + Len(t)) :
           (w \o t)[i] = IF i <= Len(w) THEN w[i] ELSE t[i - Len(w)]
  BY <1>1, ConcatProperties
<1> DEFINE s == w \o t
<1> HIDE DEF s
<1>3. s \in Seq(Int) /\ Len(w) <= Len(s) /\ \A i \in 1..Len(w) : s[i] = w[i]
  BY <1>1, <1>2 DEF s
<1>4. s[Len(w) + 1] = 0
  <2>1. Len(w) + 1 \in 1..(Len(w) + Len(t)) /\ (Len(w) + 1) - Len(w) = 1
    BY <1>1
  <2>2. QED
    BY <1>1, <1>2, <2>1 DEF s
<1>5. CString(s) = w
  BY <1>3, <1>4, CStringIs
<1>6. QED
  BY <1>5 DEF s

\* The first characters of a word, as many as a field holds.
First(w, n) == SubSeq(w, 1, IF Len(w) < n THEN Len(w) ELSE n)

LEMMA FirstType ==
  ASSUME NEW w \in Seq(Chars), NEW n \in Nat
  PROVE  /\ First(w, n) \in Seq(Chars)
         /\ Len(First(w, n)) = IF Len(w) < n THEN Len(w) ELSE n
         /\ \A i \in 1..Len(First(w, n)) : First(w, n)[i] = w[i]
         /\ Len(w) <= n => First(w, n) = w
<1> DEFINE k == IF Len(w) < n THEN Len(w) ELSE n
<1>1. Len(w) \in Nat /\ k \in 0..Len(w) /\ \A i \in 1..k : w[i] \in Chars
  BY LenProperties, ElementOfSeq
<1>2. /\ SubSeq(w, 1, k) \in Seq(Chars) /\ Len(SubSeq(w, 1, k)) = k
      /\ \A i \in 1..k : SubSeq(w, 1, k)[i] = w[i]
  BY <1>1, SubSeqProperties
<1>3. Len(w) <= n => k = Len(w)
  BY <1>1
<1>4. SubSeq(w, 1, Len(w)) = w
  BY SubSeqFull
<1>5. QED
  BY <1>1, <1>2, <1>3, <1>4 DEF First

\* strncpy(): a field that holds the first characters, and 0 up to its end.
LEMMA StrncpyType ==
  ASSUME NEW w \in Seq(Chars), NEW n \in Nat
  PROVE  /\ Strncpy(w, n) \in [1..n -> Chars \cup {0}]
         /\ Strncpy(w, n) \in Seq(Int) /\ Len(Strncpy(w, n)) = n
         /\ \A i, j \in 1..n : i < j /\ Strncpy(w, n)[i] = 0 => Strncpy(w, n)[j] = 0
         /\ \A i \in 1..Len(First(w, n)) : Strncpy(w, n)[i] = First(w, n)[i]
         /\ Len(w) < n => Strncpy(w, n)[Len(w) + 1] = 0
<1>1. Len(w) \in Nat /\ \A i \in 1..Len(w) : w[i] \in Chars /\ w[i] # 0
  BY LenProperties, ElementOfSeq, CharsType
<1>2. Strncpy(w, n) \in [1..n -> Chars \cup {0}]
  BY <1>1 DEF Strncpy
<1>3. Chars \cup {0} \subseteq Int
  BY CharsType
<1>4. Strncpy(w, n) \in Seq(Int) /\ Len(Strncpy(w, n)) = n
  <2>1. Strncpy(w, n) \in [1..n -> Int]
    BY <1>2, <1>3
  <2>2. QED
    BY <2>1, SequenceOf
<1>5. \A i, j \in 1..n : i < j /\ Strncpy(w, n)[i] = 0 => Strncpy(w, n)[j] = 0
  BY <1>1 DEF Strncpy
<1>6. \A i \in 1..Len(First(w, n)) : Strncpy(w, n)[i] = First(w, n)[i]
  BY <1>1, FirstType DEF Strncpy
<1>7. Len(w) < n => Strncpy(w, n)[Len(w) + 1] = 0
  BY <1>1 DEF Strncpy
<1>8. QED
  BY <1>2, <1>4, <1>5, <1>6, <1>7

\* So the field is read back as those characters, with a 0 behind it or nothing.
LEMMA CStringOfField ==
  ASSUME NEW w \in Seq(Chars), NEW n \in Nat
  PROVE  /\ CString(Strncpy(w, n)) = First(w, n)
         /\ CString(Strncpy(w, n) \o <<0>>) = First(w, n)
<1> DEFINE f == Strncpy(w, n)
           c == First(w, n)
<1>1. /\ f \in Seq(Int) /\ Len(f) = n
      /\ \A i \in 1..Len(c) : f[i] = c[i]
      /\ Len(w) < n => f[Len(w) + 1] = 0
  BY StrncpyType
<1>2. /\ c \in Seq(Chars) /\ Len(c) = (IF Len(w) < n THEN Len(w) ELSE n) /\ Len(w) \in Nat
  BY FirstType, LenProperties
<1> HIDE DEF f, c
<1>3. Len(c) <= n /\ (Len(c) < n => f[Len(c) + 1] = 0) /\ Len(c) \in Nat
  BY <1>1, <1>2
<1>4. CString(f) = c
  BY <1>1, <1>2, <1>3, CStringIs
<1>5. /\ f \o <<0>> \in Seq(Int) /\ Len(f \o <<0>>) = n + 1
      /\ \A i \in 1..(n + 1) : (f \o <<0>>)[i] = IF i <= n THEN f[i] ELSE <<0>>[i - n]
  <2>1. <<0>> \in Seq(Int) /\ Len(<<0>>) = 1
    OBVIOUS
  <2>2. QED
    BY <1>1, <2>1, ConcatProperties
<1>6. (f \o <<0>>)[Len(c) + 1] = 0
  <2>1. CASE Len(c) < n
    BY <1>3, <1>5, <2>1
  <2>2. CASE Len(c) = n
    BY <1>3, <1>5, <2>2
  <2>3. Len(c) < n \/ Len(c) = n
    BY <1>3
  <2>4. QED
    BY <2>1, <2>2, <2>3
<1>7. \A i \in 1..Len(c) : (f \o <<0>>)[i] = c[i]
  BY <1>1, <1>3, <1>5
<1>8. CString(f \o <<0>>) = c
  <2> DEFINE s == f \o <<0>>
  <2>1. s \in Seq(Int) /\ Len(c) <= Len(s) /\ \A i \in 1..Len(c) : s[i] = c[i]
    BY <1>3, <1>5, <1>7
  <2>2. s[Len(c) + 1] = 0
    BY <1>6
  <2>3. c \in Seq(Chars)
    BY <1>2
  <2> HIDE DEF s
  <2>4. CString(s) = c
    BY <2>1, <2>2, <2>3, CStringIs
  <2>5. QED
    BY <2>4 DEF s
<1>9. QED
  BY <1>4, <1>8 DEF f, c

\* The string in a packet of one byte of type and a string of bytes.
LEMMA TailOfPacket ==
  ASSUME NEW type \in Int, NEW s \in Seq(Int)
  PROVE  /\ Tail(<<type>> \o s) = s /\ TypeOf(<<type>> \o s) = type
<1> DEFINE p == <<type>> \o s
<1>1. <<type>> \in Seq(Int) /\ Len(<<type>>) = 1 /\ Len(s) \in Nat
  BY LenProperties
<1>2. /\ p \in Seq(Int) /\ Len(p) = 1 + Len(s)
      /\ \A i \in 1..(1 + Len(s)) : p[i] = IF i <= 1 THEN <<type>>[i] ELSE s[i - 1]
  BY <1>1, ConcatProperties
<1> HIDE DEF p
<1>3. p # <<>> /\ p[1] = type
  BY <1>1, <1>2
<1>4. /\ Tail(p) \in Seq(Int) /\ Len(Tail(p)) = Len(s)
      /\ \A i \in 1..Len(s) : Tail(p)[i] = p[i + 1]
  BY <1>1, <1>2, <1>3, HeadTailProperties
<1>5. \A i \in 1..Len(s) : Tail(p)[i] = s[i]
  <2> SUFFICES ASSUME NEW i \in 1..Len(s)
               PROVE  Tail(p)[i] = s[i]
    OBVIOUS
  <2>1. i + 1 \in 1..(1 + Len(s)) /\ ~(i + 1 <= 1) /\ (i + 1) - 1 = i
    BY <1>1
  <2>2. p[i + 1] = s[i]
    BY <1>2, <2>1
  <2>3. QED
    BY <1>4, <2>2
<1>6. Tail(p) = s
  BY <1>4, <1>5, SeqEqual
<1>7. TypeOf(p) = type
  BY <1>1, <1>2, <1>3 DEF TypeOf
<1>8. QED
  BY <1>6, <1>7 DEF p

-----------------------------------------------------------------------------
(***************************************************************************)
(* Numbers in memory.                                                      *)
(***************************************************************************)

LEMMA BaseType == Base \in Nat /\ Base > 1 /\ TopicLen \in Nat /\ TopicLen > 0 /\ IdLen \in Nat
BY SizesAssumption DEF TYPE_INVALID

\* Two or four bytes in the other order.
LEMMA ReverseTwo ==
  ASSUME NEW a \in Int, NEW b \in Int
  PROVE  Reverse(<<a, b>>) = <<b, a>>
<1>1. /\ Reverse(<<a, b>>) = [i \in 1..2 |-> <<a, b>>[(2 - i) + 1]]
  BY DEF Reverse
<1>2. <<b, a>> = [i \in 1..2 |-> <<a, b>>[(2 - i) + 1]]
  OBVIOUS
<1>3. QED
  BY <1>1, <1>2

LEMMA ReverseFour ==
  ASSUME NEW a \in Int, NEW b \in Int, NEW c \in Int, NEW d \in Int
  PROVE  Reverse(<<a, b, c, d>>) = <<d, c, b, a>>
<1>1. /\ Reverse(<<a, b, c, d>>) = [i \in 1..4 |-> <<a, b, c, d>>[(4 - i) + 1]]
  BY DEF Reverse
<1>2. <<d, c, b, a>> = [i \in 1..4 |-> <<a, b, c, d>>[(4 - i) + 1]]
  OBVIOUS
<1>3. QED
  BY <1>1, <1>2

\* What is swapped once is read as it was sent.
LEMMA NativeSwapTwo ==
  ASSUME NEW a \in Int, NEW b \in Int
  PROVE  Native(Swap(<<a, b>>)) = a * Base + b
<1>1. Number(<<a, b>>) = a * Base + b
  BY DEF Number
<1>2. Native(Swap(<<a, b>>)) = Number(<<a, b>>)
  BY ReverseTwo DEF Native, Swap
<1>3. QED
  BY <1>1, <1>2

LEMMA NativeSwapFour ==
  ASSUME NEW a \in Int, NEW b \in Int, NEW c \in Int, NEW d \in Int
  PROVE  Native(Swap(<<a, b, c, d>>)) = ((a * Base + b) * Base + c) * Base + d
<1>1. Number(<<a, b, c, d>>) = ((a * Base + b) * Base + c) * Base + d
  BY DEF Number
<1>2. Native(Swap(<<a, b, c, d>>)) = Number(<<a, b, c, d>>)
  BY ReverseFour DEF Native, Swap
<1>3. QED
  BY <1>1, <1>2

\* htons() and ntohs() of a number that two bytes hold.
LEMMA ShortIsRead ==
  ASSUME NEW n \in 0..(Base * Base - 1)
  PROVE  /\ Short(n) \in Seq(Int) /\ Len(Short(n)) = 2
         /\ Swap(Short(n)) \in Seq(Int) /\ Len(Swap(Short(n))) = 2
         /\ Native(Swap(Short(n))) = n
<1> DEFINE a == (n \div Base) % Base
           b == n % Base
<1>1. a \in 0..(Base - 1) /\ b \in 0..(Base - 1) /\ n = a * Base + b
  BY BaseType, TwoDigits
<1>2. Short(n) = <<a, b>>
  BY DEF Short
<1>3. a \in Int /\ b \in Int
  BY <1>1, BaseType
<1> HIDE DEF a, b
<1>4. Native(Swap(<<a, b>>)) = n
  BY <1>1, <1>3, NativeSwapTwo
<1>5. Swap(<<a, b>>) \in Seq(Int) /\ Len(Swap(<<a, b>>)) = 2
  <2>1. <<a, b>> \in Seq(Int) /\ Len(<<a, b>>) = 2 /\ <<b, a>> \in Seq(Int) /\ Len(<<b, a>>) = 2
    BY <1>3
  <2>2. Swap(<<a, b>>) = <<b, a>> \/ Swap(<<a, b>>) = <<a, b>>
    BY <1>3, ReverseTwo DEF Swap
  <2>3. QED
    BY <2>1, <2>2
<1>6. QED
  BY <1>2, <1>3, <1>4, <1>5

\* The same for four bytes.
LEMMA LongIsRead ==
  ASSUME NEW n \in 0..(Base * Base * Base * Base - 1)
  PROVE  Long(n) \in Seq(Int) /\ Len(Long(n)) = 4 /\ Native(Swap(Long(n))) = n
<1> DEFINE a == (n \div (Base * Base * Base)) % Base
           b == (n \div (Base * Base)) % Base
           c == (n \div Base) % Base
           d == n % Base
<1>1. /\ a \in 0..(Base - 1) /\ b \in 0..(Base - 1) /\ c \in 0..(Base - 1) /\ d \in 0..(Base - 1)
      /\ n = ((a * Base + b) * Base + c) * Base + d
  BY BaseType, FourDigits
<1>2. Long(n) = <<a, b>> \o <<c, d>>
  BY DEF Long, Short
<1>3. a \in Int /\ b \in Int /\ c \in Int /\ d \in Int
  BY <1>1, BaseType
<1> HIDE DEF a, b, c, d
<1>4. <<a, b>> \o <<c, d>> = <<a, b, c, d>>
  <2>1. /\ <<a, b>> \in Seq(Int) /\ Len(<<a, b>>) = 2 /\ <<c, d>> \in Seq(Int) /\ Len(<<c, d>>) = 2
        /\ <<a, b, c, d>> \in Seq(Int) /\ Len(<<a, b, c, d>>) = 4
    BY <1>3
  <2>2. /\ <<a, b>> \o <<c, d>> \in Seq(Int) /\ Len(<<a, b>> \o <<c, d>>) = 4
        /\ \A i \in 1..4 :
             (<<a, b>> \o <<c, d>>)[i] = IF i <= 2 THEN <<a, b>>[i] ELSE <<c, d>>[i - 2]
    BY <2>1, ConcatProperties
  <2>3. \A i \in 1..4 : (IF i <= 2 THEN <<a, b>>[i] ELSE <<c, d>>[i - 2]) = <<a, b, c, d>>[i]
    OBVIOUS
  <2> DEFINE s == <<a, b>> \o <<c, d>>
             t == <<a, b, c, d>>
  <2>4. s \in Seq(Int) /\ t \in Seq(Int) /\ Len(s) = Len(t) /\ \A i \in 1..Len(s) : s[i] = t[i]
    BY <2>1, <2>2, <2>3
  <2> HIDE DEF s, t
  <2>5. s = t
    BY <2>4, SeqEqual
  <2>6. QED
    BY <2>5 DEF s, t
<1>5. Native(Swap(<<a, b, c, d>>)) = n
  BY <1>1, <1>3, NativeSwapFour
<1>6. <<a, b, c, d>> \in Seq(Int) /\ Len(<<a, b, c, d>>) = 4
  BY <1>3
<1>7. QED
  BY <1>2, <1>4, <1>5, <1>6

-----------------------------------------------------------------------------
(***************************************************************************)
(* The fields of a packet.                                                 *)
(***************************************************************************)

\* The part of s that holds t.
LEMMA Slice ==
  ASSUME NEW s \in Seq(Int), NEW t \in Seq(Int), NEW m \in Nat,
         \A i \in 1..Len(t) : s[m + i] = t[i]
  PROVE  SubSeq(s, m + 1, m + Len(t)) = t
<1>1. Len(t) \in Nat /\ \A i \in 1..Len(t) : t[i] \in Int
  BY LenProperties, ElementOfSeq
<1> DEFINE u == SubSeq(s, m + 1, m + Len(t))
<1>2. \A i \in (m + 1)..(m + Len(t)) : s[i] \in Int
  <2> SUFFICES ASSUME NEW i \in (m + 1)..(m + Len(t))
               PROVE  s[i] \in Int
    OBVIOUS
  <2>1. i - m \in 1..Len(t) /\ m + (i - m) = i
    BY <1>1
  <2>2. QED
    BY <1>1, <2>1
<1>3. /\ u \in Seq(Int)
      /\ Len(u) = IF m + 1 <= m + Len(t) THEN (m + Len(t)) - (m + 1) + 1 ELSE 0
      /\ \A i \in 1..((m + Len(t)) - (m + 1) + 1) : u[i] = s[(m + 1) + i - 1]
  BY <1>1, <1>2, SubSeqProperties
<1> HIDE DEF u
<1>4. Len(u) = Len(t)
  BY <1>1, <1>3
<1>5. \A i \in 1..Len(t) : u[i] = t[i]
  <2> SUFFICES ASSUME NEW i \in 1..Len(t)
               PROVE  u[i] = t[i]
    OBVIOUS
  <2>1. i \in 1..((m + Len(t)) - (m + 1) + 1) /\ (m + 1) + i - 1 = m + i
    BY <1>1
  <2>2. QED
    BY <1>3, <2>1
<1>6. u = t
  BY <1>3, <1>4, <1>5, SeqEqual
<1>7. QED
  BY <1>6 DEF u

\* A concatenation holds its two parts.
LEMMA SlicesOfConcat ==
  ASSUME NEW s \in Seq(Int), NEW t \in Seq(Int)
  PROVE  /\ s \o t \in Seq(Int) /\ Len(s \o t) = Len(s) + Len(t)
         /\ \A i \in 1..Len(s) : (s \o t)[i] = s[i]
         /\ \A i \in 1..Len(t) : (s \o t)[Len(s) + i] = t[i]
<1>1. Len(s) \in Nat /\ Len(t) \in Nat
  BY LenProperties
<1>2. /\ s \o t \in Seq(Int) /\ Len(s \o t) = Len(s) + Len(t)
      /\ \A i \in 1..(Len(s) + Len(t)) :
           (s \o t)[i] = IF i <= Len(s) THEN s[i] ELSE t[i - Len(s)]
  BY <1>1, ConcatProperties
<1>3. \A i \in 1..Len(s) : (s \o t)[i] = s[i]
  BY <1>1, <1>2
<1>4. \A i \in 1..Len(t) : (s \o t)[Len(s) + i] = t[i]
  <2> SUFFICES ASSUME NEW i \in 1..Len(t)
               PROVE  (s \o t)[Len(s) + i] = t[i]
    OBVIOUS
  <2>1. /\ Len(s) + i \in 1..(Len(s) + Len(t)) /\ ~(Len(s) + i <= Len(s))
        /\ (Len(s) + i) - Len(s) = i
    BY <1>1
  <2>2. QED
    BY <1>2, <2>1
<1>5. QED
  BY <1>2, <1>3, <1>4

\* So does a sequence with one more byte.
LEMMA AppendSlices ==
  ASSUME NEW s \in Seq(Int), NEW e \in Int
  PROVE  /\ Append(s, e) \in Seq(Int) /\ Append(s, e)[Len(s) + 1] = e
         /\ \A i \in 1..Len(s) : Append(s, e)[i] = s[i]
BY AppendProperties

\* Port, topic, data type and value, one behind the other.
Laid(h, f, type, buf) == h \o ((f \o <<type>>) \o buf)

\* Where parse_subscriber_news() and get_news_topic() find them.
FieldsOf(packet, h, f, type, buf) ==
  /\ packet \in Seq(Int) /\ Len(packet) = TopicLen + 3 + Len(buf)
  /\ SubSeq(packet, 1, 2) = h
  /\ SubSeq(packet, 3, TopicLen + 2) = f
  /\ packet[TopicLen + 3] = type
  /\ SubSeq(packet, TopicLen + 4, Len(packet)) = buf
  /\ SubSeq(packet, 3, Len(packet)) = (f \o <<type>>) \o buf

LEMMA PacketFields ==
  ASSUME NEW h \in Seq(Int), Len(h) = 2, NEW f \in Seq(Int), Len(f) = TopicLen,
         NEW type \in Int, NEW buf \in Seq(Int)
  PROVE  FieldsOf(Laid(h, f, type, buf), h, f, type, buf)
<1> DEFINE g == f \o <<type>>
           d == g \o buf
           packet == Laid(h, f, type, buf)
<1>1. <<type>> \in Seq(Int) /\ Len(<<type>>) = 1 /\ <<type>>[1] = type
  OBVIOUS
<1>6. TopicLen \in Nat /\ Len(buf) \in Nat
  BY BaseType, LenProperties
<1>2. /\ g \in Seq(Int) /\ Len(g) = TopicLen + 1
      /\ \A i \in 1..TopicLen : g[i] = f[i]
      /\ g[TopicLen + 1] = type
  <2>1. /\ g \in Seq(Int) /\ Len(g) = TopicLen + 1
        /\ \A i \in 1..TopicLen : g[i] = f[i]
        /\ \A i \in 1..1 : g[TopicLen + i] = <<type>>[i]
    BY <1>1, SlicesOfConcat
  <2>2. QED
    BY <1>1, <2>1
<1> HIDE DEF g
<1>3. /\ d \in Seq(Int) /\ Len(d) = (TopicLen + 1) + Len(buf)
      /\ \A i \in 1..(TopicLen + 1) : d[i] = g[i]
      /\ \A i \in 1..Len(buf) : d[(TopicLen + 1) + i] = buf[i]
  <2>1. /\ d \in Seq(Int) /\ Len(d) = Len(g) + Len(buf)
        /\ \A i \in 1..Len(g) : d[i] = g[i]
        /\ \A i \in 1..Len(buf) : d[Len(g) + i] = buf[i]
    BY <1>2, SlicesOfConcat
  <2> HIDE DEF d
  <2>2. QED
    BY <1>2, <1>6, <2>1
<1>4. packet = h \o d
  BY DEF g, Laid
<1> HIDE DEF d, packet
<1>5. /\ packet \in Seq(Int) /\ Len(packet) = 2 + Len(d)
      /\ \A i \in 1..2 : packet[i] = h[i]
      /\ \A i \in 1..Len(d) : packet[2 + i] = d[i]
  <2>1. /\ packet \in Seq(Int) /\ Len(packet) = Len(h) + Len(d)
        /\ \A i \in 1..Len(h) : packet[i] = h[i]
        /\ \A i \in 1..Len(d) : packet[Len(h) + i] = d[i]
    <3>1. /\ h \o d \in Seq(Int) /\ Len(h \o d) = Len(h) + Len(d)
          /\ \A i \in 1..Len(h) : (h \o d)[i] = h[i]
          /\ \A i \in 1..Len(d) : (h \o d)[Len(h) + i] = d[i]
      BY <1>3, SlicesOfConcat
    <3>2. QED
      BY <1>4, <3>1, Zenon
  <2>2. QED
    BY <1>3, <2>1
<1>7. Len(packet) = TopicLen + 3 + Len(buf)
  BY <1>3, <1>5, <1>6
<1>8. SubSeq(packet, 1, 2) = h
  <2>1. \A i \in 1..Len(h) : packet[0 + i] = h[i]
    BY <1>5
  <2>2. SubSeq(packet, 0 + 1, 0 + Len(h)) = h
    BY <1>5, <2>1, Slice
  <2>3. QED
    BY <2>2
<1>9. SubSeq(packet, 3, TopicLen + 2) = f
  <2>1. \A i \in 1..Len(f) : packet[2 + i] = f[i]
    <3> SUFFICES ASSUME NEW i \in 1..TopicLen
                 PROVE  packet[2 + i] = f[i]
      OBVIOUS
    <3>1. i \in 1..(TopicLen + 1) /\ i \in 1..Len(d)
      BY <1>3, <1>6
    <3>2. QED
      BY <1>2, <1>3, <1>5, <3>1
  <2>2. SubSeq(packet, 2 + 1, 2 + Len(f)) = f
    <3>1. packet \in Seq(Int) /\ 2 \in Nat
      BY <1>5
    <3>2. QED
      BY <2>1, <3>1, Slice
  <2>3. 2 + 1 = 3 /\ 2 + Len(f) = TopicLen + 2
    BY <1>6
  <2>4. QED
    BY <2>2, <2>3
<1>10. packet[TopicLen + 3] = type
  <2>1. TopicLen + 1 \in 1..Len(d) /\ 2 + (TopicLen + 1) = TopicLen + 3
    BY <1>3, <1>6
  <2>2. packet[TopicLen + 3] = d[TopicLen + 1]
    BY <1>5, <2>1
  <2>3. d[TopicLen + 1] = type
    BY <1>2, <1>3, <1>6
  <2>4. QED
    BY <2>2, <2>3
<1>11. SubSeq(packet, TopicLen + 4, Len(packet)) = buf
  <2>1. \A i \in 1..Len(buf) : packet[(TopicLen + 3) + i] = buf[i]
    <3> SUFFICES ASSUME NEW i \in 1..Len(buf)
                 PROVE  packet[(TopicLen + 3) + i] = buf[i]
      OBVIOUS
    <3>1. /\ (TopicLen + 1) + i \in 1..Len(d)
          /\ 2 + ((TopicLen + 1) + i) = (TopicLen + 3) + i
      BY <1>3, <1>6
    <3>2. packet[(TopicLen + 3) + i] = d[(TopicLen + 1) + i]
      BY <1>5, <3>1
    <3>3. QED
      BY <1>3, <3>2
  <2>2. SubSeq(packet, (TopicLen + 3) + 1, (TopicLen + 3) + Len(buf)) = buf
    <3>1. TopicLen + 3 \in Nat
      BY <1>6
    <3>2. QED
      BY <1>5, <2>1, <3>1, Slice
  <2>3. (TopicLen + 3) + 1 = TopicLen + 4 /\ (TopicLen + 3) + Len(buf) = Len(packet)
    BY <1>6, <1>7
  <2>4. QED
    BY <2>2, <2>3
<1>12. SubSeq(packet, 3, Len(packet)) = d
  <2>1. SubSeq(packet, 2 + 1, 2 + Len(d)) = d
    <3>1. /\ packet \in Seq(Int) /\ d \in Seq(Int) /\ 2 \in Nat
          /\ \A i \in 1..Len(d) : packet[2 + i] = d[i]
      BY <1>3, <1>5
    <3>2. QED
      BY <3>1, Slice
  <2>2. QED
    BY <1>5, <2>1
<1>13. QED
  BY <1>5, <1>7, <1>8, <1>9, <1>10, <1>11, <1>12 DEF d, g, packet, FieldsOf

-----------------------------------------------------------------------------
(***************************************************************************)
(* The value in a datagram.                                                *)
(***************************************************************************)

\* What a subscriber reads: a byte for the sign, and four for the number.
SignedOf(buf) == (IF buf[1] # 0 THEN -1 ELSE 1) * Native(Swap(SubSeq(buf, 2, 5)))

\* The number without its sign.
LEMMA AbsType ==
  ASSUME NEW n \in Int, NEW m \in Nat, n < m, -n < m
  PROVE  Abs(n) \in 0..(m - 1)
BY DEF Abs

\* A number that four bytes hold is read with its sign, whatever follows.
LEMMA SignedIsRead ==
  ASSUME NEW n \in Int, n < Base * Base * Base * Base, -n < Base * Base * Base * Base,
         NEW buf \in Seq(Int), \A i \in 1..5 : buf[i] = Signed(n)[i]
  PROVE  SignedOf(buf) = n
<1>1. Abs(n) \in 0..(Base * Base * Base * Base - 1)
  <2>1. Base * Base * Base * Base \in Nat
    BY BaseType
  <2>2. QED
    BY <2>1, AbsType
<1>2. Long(Abs(n)) \in Seq(Int) /\ Len(Long(Abs(n))) = 4 /\ Native(Swap(Long(Abs(n)))) = Abs(n)
  BY <1>1, LongIsRead
<1>3. <<Sign(n)>> \in Seq(Int) /\ Len(<<Sign(n)>>) = 1 /\ <<Sign(n)>>[1] = Sign(n)
  BY DEF Sign
<1>4. /\ \A i \in 1..Len(<<Sign(n)>>) : Signed(n)[i] = <<Sign(n)>>[i]
      /\ \A i \in 1..Len(Long(Abs(n))) : Signed(n)[Len(<<Sign(n)>>) + i] = Long(Abs(n))[i]
  BY <1>2, <1>3, SlicesOfConcat DEF Signed
<1>5. buf[1] = Sign(n)
  BY <1>3, <1>4
<1> DEFINE t == Long(Abs(n))
<1>6. t \in Seq(Int) /\ Len(t) = 4 /\ \A i \in 1..4 : Signed(n)[1 + i] = t[i]
  BY <1>2, <1>3, <1>4
<1> HIDE DEF t
<1>7. SubSeq(buf, 2, 5) = t
  <2>1. \A i \in 1..4 : 1 + i \in 1..5
    OBVIOUS
  <2>2. \A i \in 1..Len(t) : buf[1 + i] = t[i]
    BY <1>6, <2>1
  <2>3. SubSeq(buf, 1 + 1, 1 + Len(t)) = t
    <3>1. 1 \in Nat
      OBVIOUS
    <3>2. QED
      BY <1>6, <2>2, <3>1, Slice
  <2>4. 1 + 1 = 2 /\ 1 + Len(t) = 5
    BY <1>6
  <2>5. QED
    BY <2>3, <2>4
<1>8. Native(Swap(SubSeq(buf, 2, 5))) = Abs(n)
  BY <1>2, <1>7 DEF t
<1>9. (IF Sign(n) # 0 THEN -1 ELSE 1) * Abs(n) = n
  BY DEF Sign, Abs
<1>10. QED
  BY <1>5, <1>8, <1>9 DEF SignedOf

\* The sequence that Signed() makes.
LEMMA SignedType ==
  ASSUME NEW n \in Int, n < Base * Base * Base * Base, -n < Base * Base * Base * Base
  PROVE  Signed(n) \in Seq(Int) /\ Len(Signed(n)) = 5
<1>1. Abs(n) \in 0..(Base * Base * Base * Base - 1)
  <2>1. Base * Base * Base * Base \in Nat
    BY BaseType
  <2>2. QED
    BY <2>1, AbsType
<1>2. Long(Abs(n)) \in Seq(Int) /\ Len(Long(Abs(n))) = 4
  BY <1>1, LongIsRead
<1>3. <<Sign(n)>> \in Seq(Int) /\ Len(<<Sign(n)>>) = 1
  BY DEF Sign
<1>4. /\ <<Sign(n)>> \o Long(Abs(n)) \in Seq(Int)
      /\ Len(<<Sign(n)>> \o Long(Abs(n))) = Len(<<Sign(n)>>) + Len(Long(Abs(n)))
  BY <1>2, <1>3, SlicesOfConcat
<1>5. QED
  BY <1>2, <1>3, <1>4 DEF Signed

\* The value that a subscriber reads behind a data type that it knows is the one published.
LEMMA ValueIsRead ==
  ASSUME NEW content \in Contents, NEW buf, buf = Payload(content)
  PROVE  /\ buf \in Seq(Int)
         /\ content.type = DATA_TYPE_INT => <<SignedOf(buf)>> = content.value
         /\ content.type = DATA_TYPE_SHORT_REAL =>
              <<Native(Swap(SubSeq(buf, 1, 2)))>> = content.value
         /\ content.type = DATA_TYPE_FLOAT => <<SignedOf(buf), buf[6]>> = content.value
         /\ content.type = DATA_TYPE_STRING => buf = content.value
<1> DEFINE value == content.value
           v == value[1]
<1>1. content.type \in 0..4 /\ value \in Seq(Int) /\ Fits(content)
  BY InputsAssumption DEF DATA_TYPE_INT, DATA_TYPE_OTHER
<1>2. CASE content.type = DATA_TYPE_INT
  <2>1. Len(value) = 1 /\ v < Base * Base * Base * Base /\ -v < Base * Base * Base * Base
    BY <1>1, <1>2 DEF Fits, DATA_TYPE_INT, DATA_TYPE_SHORT_REAL, DATA_TYPE_FLOAT
  <2>2. v \in Int
    BY <1>1, <2>1, ElementOfSeq
  <2>3. value = <<v>>
    <3>1. <<v>> \in Seq(Int) /\ Len(<<v>>) = 1 /\ \A i \in 1..1 : value[i] = <<v>>[i]
      BY <2>2
    <3>2. QED
      BY <1>1, <2>1, <3>1, SeqEqual
  <2>4. buf = Signed(v)
    BY <1>2 DEF Payload, DATA_TYPE_INT, DATA_TYPE_SHORT_REAL, DATA_TYPE_FLOAT, DATA_TYPE_STRING
  <2> HIDE DEF v
  <2>5. buf \in Seq(Int) /\ SignedOf(buf) = v
    BY <2>1, <2>2, <2>4, SignedType, SignedIsRead
  <2>6. QED
    BY <1>2, <2>3, <2>5 DEF DATA_TYPE_INT, DATA_TYPE_SHORT_REAL, DATA_TYPE_FLOAT, DATA_TYPE_STRING
<1>3. CASE content.type = DATA_TYPE_SHORT_REAL
  <2>1. Len(value) = 1 /\ v \in 0..(Base * Base - 1)
    BY <1>1, <1>3 DEF Fits, DATA_TYPE_INT, DATA_TYPE_SHORT_REAL, DATA_TYPE_FLOAT
  <2>2. v \in Int
    BY <1>1, <2>1, ElementOfSeq
  <2>3. value = <<v>>
    <3>1. <<v>> \in Seq(Int) /\ Len(<<v>>) = 1 /\ \A i \in 1..1 : value[i] = <<v>>[i]
      BY <2>2
    <3>2. QED
      BY <1>1, <2>1, <3>1, SeqEqual
  <2>4. buf = Short(v)
    BY <1>3 DEF Payload, DATA_TYPE_INT, DATA_TYPE_SHORT_REAL, DATA_TYPE_FLOAT, DATA_TYPE_STRING
  <2> HIDE DEF v
  <2>5. buf \in Seq(Int) /\ Len(buf) = 2 /\ Native(Swap(buf)) = v
    BY <2>1, <2>4, ShortIsRead
  <2>6. SubSeq(buf, 1, 2) = buf
    BY <2>5, SubSeqFull
  <2>7. Native(Swap(SubSeq(buf, 1, 2))) = v
    BY <2>5, <2>6, Zenon
  <2>8. QED
    BY <1>3, <2>3, <2>5, <2>7
       DEF DATA_TYPE_INT, DATA_TYPE_SHORT_REAL, DATA_TYPE_FLOAT, DATA_TYPE_STRING
<1>4. CASE content.type = DATA_TYPE_FLOAT
  <2> DEFINE e == value[2]
  <2>1. /\ Len(value) = 2 /\ v < Base * Base * Base * Base /\ -v < Base * Base * Base * Base
        /\ e \in 0..(Base - 1)
    BY <1>1, <1>4 DEF Fits, DATA_TYPE_INT, DATA_TYPE_SHORT_REAL, DATA_TYPE_FLOAT
  <2>2. v \in Int /\ e \in Int
    BY <1>1, <2>1, ElementOfSeq
  <2>3. value = <<v, e>>
    <3>1. <<v, e>> \in Seq(Int) /\ Len(<<v, e>>) = 2 /\ \A i \in 1..2 : value[i] = <<v, e>>[i]
      BY <2>2
    <3>2. QED
      BY <1>1, <2>1, <3>1, SeqEqual
  <2>4. buf = Append(Signed(v), e)
    BY <1>4 DEF Payload, DATA_TYPE_INT, DATA_TYPE_SHORT_REAL, DATA_TYPE_FLOAT, DATA_TYPE_STRING
  <2> HIDE DEF v, e
  <2>5. Signed(v) \in Seq(Int) /\ Len(Signed(v)) = 5
    BY <2>1, <2>2, SignedType
  <2>6. buf \in Seq(Int) /\ (\A i \in 1..5 : buf[i] = Signed(v)[i]) /\ buf[6] = e
    <3>1. /\ buf \in Seq(Int) /\ buf[Len(Signed(v)) + 1] = e
          /\ \A i \in 1..Len(Signed(v)) : buf[i] = Signed(v)[i]
      <4>1. /\ Append(Signed(v), e) \in Seq(Int) /\ Append(Signed(v), e)[Len(Signed(v)) + 1] = e
            /\ \A i \in 1..Len(Signed(v)) : Append(Signed(v), e)[i] = Signed(v)[i]
        BY <2>2, <2>5, AppendSlices
      <4>2. QED
        BY <2>4, <4>1, Zenon
    <3>2. QED
      BY <2>5, <3>1
  <2>7. SignedOf(buf) = v
    BY <2>1, <2>2, <2>6, SignedIsRead
  <2>8. QED
    BY <1>4, <2>3, <2>6, <2>7
       DEF DATA_TYPE_INT, DATA_TYPE_SHORT_REAL, DATA_TYPE_FLOAT, DATA_TYPE_STRING
<1>5. CASE content.type \in {DATA_TYPE_STRING, DATA_TYPE_OTHER}
  <2>1. buf = value
    BY <1>5 DEF Payload, DATA_TYPE_INT, DATA_TYPE_SHORT_REAL, DATA_TYPE_FLOAT, DATA_TYPE_STRING,
       DATA_TYPE_OTHER
  <2>2. QED
    BY <1>1, <1>5, <2>1 DEF DATA_TYPE_INT, DATA_TYPE_SHORT_REAL, DATA_TYPE_FLOAT, DATA_TYPE_STRING,
       DATA_TYPE_OTHER
<1>6. QED
  BY <1>1, <1>2, <1>3, <1>4, <1>5
     DEF DATA_TYPE_INT, DATA_TYPE_SHORT_REAL, DATA_TYPE_FLOAT, DATA_TYPE_STRING, DATA_TYPE_OTHER

-----------------------------------------------------------------------------
(***************************************************************************)
(* News: the packet of a datagram.                                         *)
(***************************************************************************)

\* The fields of the packet that the server makes of a datagram.
LEMMA DatagramFields ==
  ASSUME NEW d \in Datagrams
  PROVE  /\ d.name \in Seq(Chars) /\ Len(d.name) <= TopicLen /\ d.content \in Contents
         /\ d.content.type \in 0..4
         /\ Strncpy(d.name, TopicLen) \in Seq(Int) /\ Len(Strncpy(d.name, TopicLen)) = TopicLen
         /\ Payload(d.content) \in Seq(Int)
         /\ Swap(Short(Port)) \in Seq(Int) /\ Len(Swap(Short(Port))) = 2
         /\ Sendable(Datagram(d)) = Laid(Swap(Short(Port)), Strncpy(d.name, TopicLen),
                                         d.content.type, Payload(d.content))
<1>1. d.name \in Names /\ d.content \in Contents
  BY DEF Datagrams
<1>2. d.name \in Seq(Chars) /\ Len(d.name) <= TopicLen
  BY <1>1, InputsAssumption
<1>3. d.content.type \in 0..4
  BY <1>1, InputsAssumption DEF DATA_TYPE_INT, DATA_TYPE_OTHER
<1>4. Strncpy(d.name, TopicLen) \in Seq(Int) /\ Len(Strncpy(d.name, TopicLen)) = TopicLen
  BY <1>2, BaseType, StrncpyType
<1>5. Payload(d.content) \in Seq(Int)
  BY <1>1, ValueIsRead
<1>6. Swap(Short(Port)) \in Seq(Int) /\ Len(Swap(Short(Port))) = 2
  BY SizesAssumption, ShortIsRead
<1>7. Sendable(Datagram(d)) = Laid(Swap(Short(Port)), Strncpy(d.name, TopicLen),
                                   d.content.type, Payload(d.content))
  BY DEF Sendable, Datagram, Laid
<1>8. QED
  BY <1>1, <1>2, <1>3, <1>4, <1>5, <1>6, <1>7

\* The value that is shown, by the data type.
ReadValue(type, buf) ==
  CASE type = DATA_TYPE_INT        -> <<SignedOf(buf)>>
    [] type = DATA_TYPE_SHORT_REAL -> <<Native(Swap(SubSeq(buf, 1, 2)))>>
    [] type = DATA_TYPE_FLOAT      -> <<SignedOf(buf), buf[6]>>
    [] type = DATA_TYPE_STRING     -> buf
    [] OTHER                       -> shown.value

LEMMA NewsValue ==
  ASSUME NEW packet
  PROVE  ParseNews(packet).value
           = ReadValue(packet[TopicLen + 3], SubSeq(packet, TopicLen + 4, Len(packet)))
BY Zenon DEF ParseNews, ReadValue, SignedOf

\* What parse_subscriber_news() makes of it, whatever it showed before.
LEMMA NewsIsParsed ==
  ASSUME NEW d \in Datagrams, NEW r, r = ParseNews(Sendable(Datagram(d)))
  PROVE  /\ r.topic = d.name /\ r.port = Port
         /\ d.content.type # DATA_TYPE_OTHER =>
              r.data_type = d.content.type /\ r.value = d.content.value
<1> DEFINE packet == Sendable(Datagram(d))
           h == Swap(Short(Port))
           f == Strncpy(d.name, TopicLen)
           type == d.content.type
           buf == Payload(d.content)
<1>1. /\ d.name \in Seq(Chars) /\ Len(d.name) <= TopicLen /\ d.content \in Contents
      /\ type \in 0..4 /\ f \in Seq(Int) /\ Len(f) = TopicLen /\ buf \in Seq(Int)
      /\ h \in Seq(Int) /\ Len(h) = 2 /\ packet = Laid(h, f, type, buf)
  BY DatagramFields
<1>2. /\ type = DATA_TYPE_INT => <<SignedOf(buf)>> = d.content.value
      /\ type = DATA_TYPE_SHORT_REAL => <<Native(Swap(SubSeq(buf, 1, 2)))>> = d.content.value
      /\ type = DATA_TYPE_FLOAT => <<SignedOf(buf), buf[6]>> = d.content.value
      /\ type = DATA_TYPE_STRING => buf = d.content.value
  BY <1>1, ValueIsRead
<1>3. CString(f \o <<0>>) = d.name
  BY <1>1, BaseType, CStringOfField, FirstType
<1>4. Native(h) = Port
  BY SizesAssumption, ShortIsRead
<1> HIDE DEF packet, h, f, type, buf
<1>5. /\ SubSeq(packet, 1, 2) = h /\ SubSeq(packet, 3, TopicLen + 2) = f
      /\ packet[TopicLen + 3] = type /\ SubSeq(packet, TopicLen + 4, Len(packet)) = buf
  <2>1. type \in Int
    BY <1>1
  <2>2. FieldsOf(packet, h, f, type, buf)
    BY <1>1, <2>1, PacketFields
  <2>3. QED
    BY <2>2 DEF FieldsOf
<1>6. r = ParseNews(packet)
  BY DEF packet
<1>7. r.topic = d.name /\ r.port = Port
  <2>1. r.topic = CString(SubSeq(packet, 3, TopicLen + 2) \o <<0>>)
    BY <1>6 DEF ParseNews
  <2>2. r.port = Native(SubSeq(packet, 1, 2))
    BY <1>6 DEF ParseNews
  <2>3. QED
    BY <1>3, <1>4, <1>5, <2>1, <2>2
<1>8. r.value = ReadValue(type, buf)
  <2>1. r.value = ReadValue(packet[TopicLen + 3], SubSeq(packet, TopicLen + 4, Len(packet)))
    BY <1>5, <1>6, NewsValue
  <2>2. QED
    BY <1>5, <2>1
<1>9. type # DATA_TYPE_OTHER => r.data_type = type
  <2>1. r.data_type = IF packet[TopicLen + 3] \in DATA_TYPE_INT..DATA_TYPE_STRING
                      THEN packet[TopicLen + 3] ELSE shown.data_type
    BY <1>6 DEF ParseNews
  <2>2. type # DATA_TYPE_OTHER => type \in DATA_TYPE_INT..DATA_TYPE_STRING
    BY <1>1 DEF DATA_TYPE_INT, DATA_TYPE_STRING, DATA_TYPE_OTHER
  <2>3. QED
    BY <1>5, <2>1, <2>2
<1>10. type # DATA_TYPE_OTHER => ReadValue(type, buf) = d.content.value
  <2> USE DEF ReadValue, DATA_TYPE_INT, DATA_TYPE_SHORT_REAL, DATA_TYPE_FLOAT, DATA_TYPE_STRING,
              DATA_TYPE_OTHER
  <2>1. CASE type = DATA_TYPE_INT
    BY <1>2, <2>1
  <2>2. CASE type = DATA_TYPE_SHORT_REAL
    BY <1>2, <2>2
  <2>3. CASE type = DATA_TYPE_FLOAT
    BY <1>2, <2>3
  <2>4. CASE type = DATA_TYPE_STRING
    BY <1>2, <2>4
  <2>5. QED
    BY <1>1, <2>1, <2>2, <2>3, <2>4
<1>11. QED
  BY <1>7, <1>8, <1>9, <1>10 DEF type

\* get_news_topic() finds the topic when a 0 follows it, in its field or as the data type, whatever
\* lies in memory beyond the packet.
LEMMA TopicIsFound ==
  ASSUME NEW d \in Datagrams, NEW beyond \in Seq(Int),
         Len(d.name) < TopicLen \/ d.content.type = DATA_TYPE_INT
  PROVE  NewsTopic(Sendable(Datagram(d)), beyond) = d.name
<1> DEFINE packet == Sendable(Datagram(d))
           h == Swap(Short(Port))
           f == Strncpy(d.name, TopicLen)
           type == d.content.type
           buf == Payload(d.content)
           w == d.name
           g == f \o <<type>>
           all == (g \o buf) \o beyond
<1>1. /\ w \in Seq(Chars) /\ Len(w) <= TopicLen
      /\ type \in 0..4 /\ f \in Seq(Int) /\ Len(f) = TopicLen /\ buf \in Seq(Int)
      /\ h \in Seq(Int) /\ Len(h) = 2 /\ packet = Laid(h, f, type, buf)
  BY DatagramFields
<1>2. /\ \A i \in 1..Len(w) : f[i] = w[i]
      /\ Len(w) < TopicLen => f[Len(w) + 1] = 0
  <2>1. First(w, TopicLen) = w
    BY <1>1, BaseType, FirstType
  <2>2. /\ \A i \in 1..Len(First(w, TopicLen)) : f[i] = First(w, TopicLen)[i]
        /\ Len(w) < TopicLen => f[Len(w) + 1] = 0
    BY <1>1, BaseType, StrncpyType
  <2>3. QED
    BY <2>1, <2>2
<1>3. Len(w) < TopicLen \/ type = 0
  BY DEF DATA_TYPE_INT
<1>4. TopicLen \in Nat /\ Len(w) \in Nat /\ Len(buf) \in Nat /\ type \in Int
  BY <1>1, BaseType, LenProperties
<1>5. Len(beyond) \in Nat
  BY LenProperties
<1> HIDE DEF packet, h, f, type, buf, w
<1>6. SubSeq(packet, 3, Len(packet)) = g \o buf
  <2>1. FieldsOf(packet, h, f, type, buf)
    BY <1>1, <1>4, PacketFields
  <2>2. QED
    BY <2>1 DEF FieldsOf, g
<1>7. /\ g \in Seq(Int) /\ Len(g) = TopicLen + 1 /\ g[TopicLen + 1] = type
      /\ \A i \in 1..TopicLen : g[i] = f[i]
  <2>1. <<type>> \in Seq(Int) /\ Len(<<type>>) = 1 /\ <<type>>[1] = type
    BY <1>4
  <2>2. /\ g \in Seq(Int) /\ Len(g) = Len(f) + Len(<<type>>)
        /\ \A i \in 1..Len(f) : g[i] = f[i]
        /\ \A i \in 1..Len(<<type>>) : g[Len(f) + i] = <<type>>[i]
    BY <1>1, <2>1, SlicesOfConcat
  <2> HIDE DEF g
  <2>3. QED
    BY <1>1, <1>4, <2>1, <2>2
<1> HIDE DEF g
<1>8. g \o buf \in Seq(Int) /\ Len(g \o buf) = Len(g) + Len(buf)
      /\ \A i \in 1..Len(g) : (g \o buf)[i] = g[i]
  BY <1>1, <1>7, SlicesOfConcat
<1>9. all \in Seq(Int) /\ Len(all) = Len(g \o buf) + Len(beyond)
      /\ \A i \in 1..Len(g \o buf) : all[i] = (g \o buf)[i]
  BY <1>5, <1>8, SlicesOfConcat
<1>10. NewsTopic(packet, beyond) = CString(all)
  BY <1>6 DEF NewsTopic
<1> HIDE DEF all
<1>11. /\ Len(all) >= TopicLen + 1
       /\ \A i \in 1..(TopicLen + 1) : all[i] = g[i]
  <2>1. Len(all) = (TopicLen + 1) + Len(buf) + Len(beyond)
    BY <1>7, <1>8, <1>9
  <2>2. \A i \in 1..(TopicLen + 1) : i \in 1..Len(g) /\ i \in 1..Len(g \o buf)
    BY <1>4, <1>7, <1>8
  <2>3. \A i \in 1..(TopicLen + 1) : all[i] = g[i]
    BY <1>8, <1>9, <2>2
  <2>4. QED
    BY <1>4, <1>5, <2>1, <2>3
<1>12. \A i \in 1..Len(w) : all[i] = w[i]
  <2> SUFFICES ASSUME NEW i \in 1..Len(w)
               PROVE  all[i] = w[i]
    OBVIOUS
  <2>1. i \in 1..TopicLen /\ i \in 1..(TopicLen + 1)
    BY <1>1, <1>4
  <2>2. all[i] = f[i]
    BY <1>7, <1>11, <2>1
  <2>3. QED
    BY <1>2, <2>2
<1>13. all[Len(w) + 1] = 0
  <2>1. CASE Len(w) < TopicLen
    BY <1>2, <1>4, <1>7, <1>11, <2>1
  <2>2. CASE Len(w) = TopicLen
    BY <1>3, <1>4, <1>7, <1>11, <2>2
  <2>3. Len(w) < TopicLen \/ Len(w) = TopicLen
    BY <1>1, <1>4
  <2>4. QED
    BY <2>1, <2>2, <2>3
<1>14. Len(w) <= Len(all)
  <2>1. Len(all) \in Nat
    BY <1>9, LenProperties
  <2>2. QED
    BY <1>1, <1>4, <1>11, <2>1
<1>15. CString(all) = w
  BY <1>1, <1>9, <1>12, <1>13, <1>14, CStringIs
<1>16. QED
  BY <1>10, <1>15 DEF packet, w

-----------------------------------------------------------------------------
(***************************************************************************)
(* Lines and ids: the packets of the client.                               *)
(***************************************************************************)

\* The server reads the type and the string of a packet that was made of a field.
LEMMA SubPacketIsRead ==
  ASSUME NEW type \in Int, NEW w \in Seq(Chars)
  PROVE  /\ TypeOf(SubPacket(type, Strncpy(w, TopicLen))) = type
         /\ StringOf(SubPacket(type, Strncpy(w, TopicLen))) = First(w, TopicLen)
<1> DEFINE c == First(w, TopicLen)
           packet == SubPacket(type, Strncpy(w, TopicLen))
<1>1. c \in Seq(Chars) /\ c \in Seq(Int)
  BY BaseType, FirstType, CharsType
<1>2. packet = <<type>> \o c
  BY BaseType, CStringOfField DEF SubPacket
<1> HIDE DEF c, packet
<1>3. Tail(packet) = c /\ TypeOf(packet) = type
  BY <1>1, <1>2, TailOfPacket
<1>4. CString(c \o <<0>>) = c
  <2>1. <<0>> \in Seq(Int) /\ <<0>> # <<>> /\ <<0>>[1] = 0
    OBVIOUS
  <2>2. QED
    BY <1>1, <2>1, CStringOfString
<1>5. StringOf(packet) = c
  BY <1>3, <1>4 DEF StringOf, Terminator
<1>6. QED
  BY <1>3, <1>5 DEF c, packet

\* The server reads the id that the client was given.
LEMMA IdIsRead ==
  ASSUME NEW string \in Seq(Chars), Len(string) < IdLen
  PROVE  StringOf(AuthPacket(string)) = string
<1> DEFINE f == Strncpy(string, IdLen)
           packet == AuthPacket(string)
<1>1. Len(string) <= IdLen
  BY BaseType, LenProperties
<1>2. f \in Seq(Int) /\ CString(f \o <<0>>) = string
  BY <1>1, BaseType, StrncpyType, CStringOfField, FirstType
<1>3. packet = <<TYPE_AUTH>> \o f
  BY DEF AuthPacket
<1> HIDE DEF f, packet
<1>4. Tail(packet) = f
  BY <1>2, <1>3, TailOfPacket DEF TYPE_AUTH
<1>5. QED
  BY <1>2, <1>4 DEF StringOf, Terminator, packet

\* The reply says what it means: the packet itself, or only its type.
LEMMA ReplyIsRead ==
  ASSUME NEW string \in Seq(Chars)
  PROVE  /\ TypeOf(AuthPacket(string)) = TYPE_AUTH
         /\ TypeOf(Declined(AuthPacket(string))) = TYPE_AUTH_DUPLICATE
<1>1. Strncpy(string, IdLen) \in Seq(Int)
  BY BaseType, StrncpyType
<1>2. TypeOf(AuthPacket(string)) = TYPE_AUTH
  BY <1>1, TailOfPacket DEF AuthPacket, TYPE_AUTH
<1>3. TypeOf(Declined(AuthPacket(string))) = TYPE_AUTH_DUPLICATE
  BY DEF TypeOf, Declined, TYPE_AUTH_DUPLICATE
<1>4. QED
  BY <1>2, <1>3

\* The words of a command.
LEMMA CommandType ==
  ASSUME NEW line \in Lines
  PROVE  /\ line.topic = <<>> \/ line.topic \in Seq(Chars)
         /\ IsCommand(line) => line.topic \in Seq(Chars)
                             /\ TopicAfter(line) = Strncpy(line.topic, TopicLen)
<1>1. line.topic \in Words \cup {<<>>}
  BY DEF Lines
<1>2. line.topic = <<>> \/ line.topic \in Seq(Chars)
  BY <1>1, InputsAssumption
<1>3. QED
  BY <1>2 DEF IsCommand, TopicAfter

\* A command does to the server's map what the user means by it.
LEMMA CommandIsUnderstood ==
  ASSUME NEW line \in Lines, IsCommand(line), topics = wanted
  PROVE  TopicsAfter(SubPacket(TypeFor(line), TopicAfter(line))) = WantedAfter(line)
<1> DEFINE name == First(line.topic, TopicLen)
           packet == SubPacket(TypeFor(line), TopicAfter(line))
<1>1. line.topic \in Seq(Chars) /\ TopicAfter(line) = Strncpy(line.topic, TopicLen)
  BY CommandType
<1>2. TypeFor(line) \in Int
  BY DEF TypeFor, TYPE_SUB, TYPE_SUB_SF, TYPE_UNSUB
<1>3. TypeOf(packet) = TypeFor(line) /\ StringOf(packet) = name
  BY <1>1, <1>2, SubPacketIsRead
<1>4. WantedAfter(line) =
        {pair \in wanted : pair[1] # name} \cup
        {<<name, sf>> : sf \in IF line.command = "unsubscribe" THEN {}
                               ELSE IF line.sf = "1" THEN {1} ELSE {0}}
  BY DEF WantedAfter, First
<1> HIDE DEF name, packet
<1>5. TopicsAfter(packet) =
        {pair \in topics : pair[1] # name} \cup
        {<<name, SfOf(type)>> : type \in {TypeFor(line)} \cap {TYPE_SUB, TYPE_SUB_SF}}
  BY <1>3 DEF TopicsAfter
<1>6. {<<name, SfOf(type)>> : type \in {TypeFor(line)} \cap {TYPE_SUB, TYPE_SUB_SF}} =
      {<<name, sf>> : sf \in IF line.command = "unsubscribe" THEN {}
                             ELSE IF line.sf = "1" THEN {1} ELSE {0}}
  <2>1. CASE line.command = "unsubscribe"
    <3>1. {TypeFor(line)} \cap {TYPE_SUB, TYPE_SUB_SF} = {}
      BY <2>1 DEF TypeFor, TYPE_SUB, TYPE_SUB_SF, TYPE_UNSUB
    <3>2. QED
      BY <2>1, <3>1
  <2>2. CASE line.command # "unsubscribe" /\ line.sf = "1"
    <3>1. TypeFor(line) = TYPE_SUB_SF /\ SfOf(TYPE_SUB_SF) = 1
      BY <2>2 DEF TypeFor, SfSet, SfOf, TYPE_SUB, TYPE_SUB_SF
    <3>2. {TypeFor(line)} \cap {TYPE_SUB, TYPE_SUB_SF} = {TYPE_SUB_SF}
      BY <3>1
    <3>3. QED
      BY <2>2, <3>1, <3>2
  <2>3. CASE line.command # "unsubscribe" /\ line.sf # "1"
    <3>1. TypeFor(line) = TYPE_SUB /\ SfOf(TYPE_SUB) = 0
      BY <2>3 DEF TypeFor, SfSet, SfOf, TYPE_SUB, TYPE_SUB_SF
    <3>2. {TypeFor(line)} \cap {TYPE_SUB, TYPE_SUB_SF} = {TYPE_SUB}
      BY <3>1
    <3>3. QED
      BY <2>3, <3>1, <3>2
  <2>4. QED
    BY <2>1, <2>2, <2>3
<1>7. QED
  BY <1>4, <1>5, <1>6 DEF packet

-----------------------------------------------------------------------------
(***************************************************************************)
(* The theorems.                                                           *)
(***************************************************************************)

\* The inputs of the run stay what they were.
InputsOK == id \in IdWords /\ inUse \in BOOLEAN

\* With the map as it was asked for, each step understands the bytes that it reads: no part of the
\* invariant needs the others but this one and the types.
Inv ==
  /\ TypeOK /\ InputsOK /\ AuthUnderstood /\ SubscriptionsDecoded /\ ShortTopicsMatch
  /\ ShownIsPublished

LEMMA InitInv == Init => Inv
<1> SUFFICES ASSUME Init
             PROVE  Inv
  OBVIOUS
<1>1. TypeOK
  BY DEF Init, TypeOK
<1>2. InputsOK /\ AuthUnderstood /\ SubscriptionsDecoded
  BY DEF Init, InputsOK, AuthUnderstood, SubscriptionsDecoded
<1>3. ShortTopicsMatch /\ ShownIsPublished
  <2>1. published = <<>> /\ delivered = FALSE
    BY DEF Init
  <2>2. QED
    BY <2>1 DEF ShortTopicsMatch, ShownIsPublished
<1>4. QED
  BY <1>1, <1>2, <1>3 DEF Inv

\* The id and the reply.
LEMMA AuthenticateInv == Inv /\ Authenticate => Inv'
<1> SUFFICES ASSUME Inv, Authenticate
             PROVE  Inv'
  OBVIOUS
<1>1. /\ UNCHANGED <<id, inUse, topic, topics, wanted, published, delivered, shown>>
      /\ status' \in {"dead", "refused", "accepted"}
  BY DEF Authenticate
<1>2. TypeOK'
  BY <1>1 DEF Inv, TypeOK
<1>3. InputsOK' /\ SubscriptionsDecoded' /\ ShortTopicsMatch' /\ ShownIsPublished'
  BY <1>1 DEF Inv, InputsOK, SubscriptionsDecoded, ShortTopicsMatch, Subscribed, ShownIsPublished
<1>4. AuthUnderstood'
  <2>1. id \in Seq(Chars) /\ inUse \in BOOLEAN
    BY InputsAssumption DEF Inv, InputsOK
  <2>2. CASE Len(id) >= IdLen
    BY <2>2 DEF Authenticate, AuthUnderstood
  <2>3. CASE ~(Len(id) >= IdLen)
    <3>1. StringOf(AuthPacket(id)) = id
      <4>1. Len(id) < IdLen
        BY <2>1, <2>3, BaseType, LenProperties
      <4>2. QED
        BY <2>1, <4>1, IdIsRead
    <3>2. /\ known' = StringOf(AuthPacket(id))
          /\ status' = IF TypeOf(IF inUse THEN Declined(AuthPacket(id)) ELSE AuthPacket(id))
                          = TYPE_AUTH
                       THEN "accepted" ELSE "refused"
      BY <2>3 DEF Authenticate
    <3>3. /\ TypeOf(AuthPacket(id)) = TYPE_AUTH
          /\ TypeOf(Declined(AuthPacket(id))) = TYPE_AUTH_DUPLICATE
      BY <2>1, ReplyIsRead
    <3>4. status' = IF inUse THEN "refused" ELSE "accepted"
      BY <2>1, <3>2, <3>3 DEF TYPE_AUTH, TYPE_AUTH_DUPLICATE
    <3>5. QED
      BY <1>1, <2>1, <3>1, <3>2, <3>4 DEF AuthUnderstood
  <2>4. QED
    BY <2>2, <2>3
<1>5. QED
  BY <1>2, <1>3, <1>4 DEF Inv

\* A line, complete or not.
LEMMA CommandInv ==
  ASSUME NEW line \in Lines
  PROVE  Inv /\ Command(line) => Inv'
<1> SUFFICES ASSUME Inv, Command(line)
             PROVE  Inv'
  OBVIOUS
<1>1. /\ topic' = TopicAfter(line) /\ published' = <<>> /\ delivered' = FALSE
      /\ UNCHANGED <<id, inUse, known, status, shown>>
  BY DEF Command
<1>2. InputsOK' /\ AuthUnderstood' /\ ShortTopicsMatch' /\ ShownIsPublished'
  BY <1>1 DEF Inv, InputsOK, AuthUnderstood, ShortTopicsMatch, ShownIsPublished
<1>3. SubscriptionsDecoded'
  <2>1. CASE IsCommand(line)
    <3>1. /\ topics' = TopicsAfter(SubPacket(TypeFor(line), TopicAfter(line)))
          /\ wanted' = WantedAfter(line)
      BY <2>1 DEF Command
    <3>2. QED
      BY <2>1, <3>1, CommandIsUnderstood DEF Inv, SubscriptionsDecoded
  <2>2. CASE ~IsCommand(line)
    BY <2>2 DEF Command, Inv, SubscriptionsDecoded
  <2>3. QED
    BY <2>1, <2>2
<1>4. /\ topic' \in [1..TopicLen -> 0..(Base - 1)]
      /\ topics' # {} => /\ topic' \in [1..TopicLen -> Chars \cup {0}]
                         /\ \A i, j \in 1..TopicLen : i < j /\ topic'[i] = 0 => topic'[j] = 0
  <2>1. CASE topic' = topic /\ topics' = topics
    BY <2>1 DEF Inv, TypeOK
  <2>2. CASE topic' = Strncpy(line.topic, TopicLen) /\ line.topic # <<>>
    <3>1. line.topic \in Seq(Chars)
      BY <2>2, CommandType
    <3>2. /\ topic' \in [1..TopicLen -> Chars \cup {0}]
          /\ \A i, j \in 1..TopicLen : i < j /\ topic'[i] = 0 => topic'[j] = 0
      BY <2>2, <3>1, BaseType, StrncpyType
    <3>3. Chars \cup {0} \subseteq 0..(Base - 1)
      BY SizesAssumption DEF Chars, TYPE_INVALID
    <3>4. QED
      BY <3>2, <3>3
  <2>3. topic' = topic => topics' = topics \/ line.topic # <<>>
    BY <1>1 DEF Command, IsCommand
  <2>4. QED
    BY <1>1, <2>1, <2>2, <2>3 DEF TopicAfter, Command, IsCommand
<1>5. \A pair \in wanted' : pair[1] \in Seq(Chars) /\ pair[2] \in {0, 1}
  <2>1. \A pair \in wanted : pair[1] \in Seq(Chars) /\ pair[2] \in {0, 1}
    BY DEF Inv, TypeOK, SubscriptionsDecoded
  <2>2. CASE IsCommand(line)
    <3> DEFINE name == First(line.topic, TopicLen)
    <3>1. name \in Seq(Chars)
      BY <2>2, BaseType, CommandType, FirstType
    <3>2. wanted' \subseteq wanted \cup {<<name, 0>>, <<name, 1>>}
      BY <2>2 DEF Command, WantedAfter, First
    <3> HIDE DEF name
    <3>3. QED
      BY <2>1, <3>1, <3>2
  <2>3. CASE ~IsCommand(line)
    BY <2>1, <2>3 DEF Command
  <2>4. QED
    BY <2>2, <2>3
<1>6. TypeOK'
  BY <1>1, <1>3, <1>4, <1>5 DEF Inv, TypeOK, SubscriptionsDecoded
<1>7. QED
  BY <1>2, <1>3, <1>6 DEF Inv

\* A datagram, with either memory behind its packet.
LEMMA PublishInv ==
  ASSUME NEW d \in Datagrams
  PROVE  Inv /\ Publish(d) => Inv'
<1> SUFFICES ASSUME Inv, Publish(d)
             PROVE  Inv'
  OBVIOUS
<1> DEFINE packet == Sendable(Datagram(d))
<1>1. /\ published' = <<d>>
      /\ UNCHANGED <<id, inUse, known, status, topic, topics, wanted>>
  BY DEF Publish
<1>2. PICK beyond \in {<<0>>, <<8, 0>>} :
        /\ delivered' = \E pair \in topics : pair[1] = NewsTopic(packet, beyond)
        /\ shown' = IF delivered' THEN ParseNews(packet) ELSE shown
  BY DEF Publish
<1>3. delivered' \in BOOLEAN
  BY <1>2
<1>4. TypeOK' /\ InputsOK' /\ AuthUnderstood' /\ SubscriptionsDecoded'
  BY <1>1, <1>3 DEF Inv, TypeOK, InputsOK, AuthUnderstood, SubscriptionsDecoded
<1>5. ShortTopicsMatch'
  <2>1. ASSUME Len(d.name) < TopicLen \/ d.content.type = DATA_TYPE_INT
        PROVE  delivered' <=> Subscribed(d.name)'
    <3>1. NewsTopic(packet, beyond) = d.name
      <4>1. beyond = <<0>> \/ beyond = <<8, 0>>
        OBVIOUS
      <4>2. <<0>> \in Seq(Int) /\ <<8, 0>> \in Seq(Int)
        OBVIOUS
      <4>3. QED
        BY <2>1, <4>1, <4>2, TopicIsFound
    <3>2. delivered' = \E pair \in topics : pair[1] = d.name
      BY <1>2, <3>1, Zenon
    <3>3. topics = wanted'
      BY <1>1 DEF Inv, SubscriptionsDecoded
    <3>4. QED
      BY <3>2, <3>3 DEF Subscribed
  <2>2. DOMAIN published' = {1} /\ published'[1] = d
    BY <1>1
  <2>3. QED
    BY <2>1, <2>2 DEF ShortTopicsMatch
<1>6. ShownIsPublished'
  <2>1. SUFFICES ASSUME delivered'
                 PROVE  ShownIsPublished'
    BY DEF ShownIsPublished
  <2>2. shown' = ParseNews(packet) /\ published'[1] = d
    BY <1>1, <1>2, <2>1
  <2>3. /\ shown'.topic = d.name /\ shown'.port = Port
        /\ d.content.type # DATA_TYPE_OTHER =>
             shown'.data_type = d.content.type /\ shown'.value = d.content.value
    BY <2>2, NewsIsParsed
  <2>4. QED
    BY <2>2, <2>3 DEF ShownIsPublished
<1>7. QED
  BY <1>4, <1>5, <1>6 DEF Inv

LEMMA CodecInv == Spec => []Inv
<1>1. Inv /\ [Next]_vars => Inv'
  <2> SUFFICES ASSUME Inv, [Next]_vars
               PROVE  Inv'
    OBVIOUS
  <2>1. CASE Authenticate
    BY <2>1, AuthenticateInv
  <2>2. ASSUME NEW line \in Lines, Command(line)
        PROVE  Inv'
    BY <2>2, CommandInv
  <2>3. ASSUME NEW d \in Datagrams, Publish(d)
        PROVE  Inv'
    BY <2>3, PublishInv
  <2>4. CASE UNCHANGED vars
    BY <2>4 DEF vars, Inv, TypeOK, InputsOK, AuthUnderstood, SubscriptionsDecoded,
                ShortTopicsMatch, Subscribed, ShownIsPublished
  <2>5. QED
    BY <2>1, <2>2, <2>3, <2>4 DEF Next
<1>2. QED
  BY <1>1, InitInv, PTL DEF Spec

\* The variables keep their values; the client's buffer is a string padded up to its end.
THEOREM TypeCorrect == Spec => []TypeOK
<1>1. Inv => TypeOK
  BY DEF Inv
<1>2. QED
  BY <1>1, CodecInv, PTL

\* The server knows a client by the id it was given, and the client tells the replies apart.
THEOREM IdsAreUnderstood == Spec => []AuthUnderstood
<1>1. Inv => AuthUnderstood
  BY DEF Inv
<1>2. QED
  BY <1>1, CodecInv, PTL

\* After any lines the server's map holds the topics and the sf that they asked for.
THEOREM LinesAreUnderstood == Spec => []SubscriptionsDecoded
<1>1. Inv => SubscriptionsDecoded
  BY DEF Inv
<1>2. QED
  BY <1>1, CodecInv, PTL

\* News on a topic that a 0 follows reach exactly those who subscribed to it.
THEOREM ShortTopicsAreFound == Spec => []ShortTopicsMatch
<1>1. Inv => ShortTopicsMatch
  BY DEF Inv
<1>2. QED
  BY <1>1, CodecInv, PTL

\* What is printed is what was published, on hosts of either order of bytes.
THEOREM NewsAreUnderstood == Spec => []ShownIsPublished
<1>1. Inv => ShownIsPublished
  BY DEF Inv
<1>2. QED
  BY <1>1, CodecInv, PTL

\* The converse of the run long_topic: TopicsMatch, which a topic as long as its field refutes,
\* holds when every topic is shorter.
THEOREM OnlyLongTopicsAreLost ==
  ASSUME \A name \in Names : Len(name) < TopicLen
  PROVE  Spec => []TopicsMatch
<1> DEFINE Known == \A i \in DOMAIN published : published[i] \in Datagrams
<1>1. Inv /\ Known => TopicsMatch
  <2> SUFFICES ASSUME Inv, Known, NEW i \in DOMAIN published
               PROVE  delivered <=> Subscribed(published[i].name)
    BY DEF TopicsMatch
  <2>1. published[i].name \in Names
    BY DEF Datagrams
  <2>2. QED
    BY <2>1 DEF Inv, ShortTopicsMatch
<1>2. Init => Known
  BY DEF Init
<1>3. Known /\ [Next]_vars => Known'
  <2> SUFFICES ASSUME Known, [Next]_vars
               PROVE  Known'
    OBVIOUS
  <2>1. CASE published' = published
    BY <2>1
  <2>2. CASE published' = <<>>
    BY <2>2
  <2>3. ASSUME NEW d \in Datagrams, published' = <<d>>
        PROVE  Known'
    BY <2>3
  <2>4. QED
    BY <2>1, <2>2, <2>3 DEF Next, Authenticate, Command, Publish, vars
<1> HIDE DEF Known
<1>4. QED
  BY <1>1, <1>2, <1>3, CodecInv, PTL DEF Spec

=============================================================================
