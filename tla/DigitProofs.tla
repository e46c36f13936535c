----------------------------- MODULE DigitProofs -----------------------------
(***************************************************************************)
(* Numbers in digits, as htonl(), htons() and the clients write them: the  *)
(* division of the source's numbers, in any base, and that two or four     *)
(* digits, each a quotient's remainder, determine a number.                *)
(***************************************************************************)
EXTENDS Integers, TLAPS

\* The division of integers, as the prover knows it.
LEMMA DivisionRemainder ==
  ASSUME NEW b \in Nat, b > 0, NEW a \in Nat, NEW p \in Int, p = a \div b
  PROVE  a = b * p + (a % b)
OBVIOUS

\* A quotient and a remainder below the divisor are those of the division.
LEMMA DivisionUnique ==
  ASSUME NEW b \in Nat, b > 0, NEW q \in Nat, NEW r \in 0..(b - 1), NEW a \in Nat, a = b * q + r
  PROVE  a \div b = q /\ a % b = r
<1>0. a \div b \in Int /\ a % b \in 0..(b - 1)
  OBVIOUS
<1>a. PICK p \in Int : p = a \div b
  BY <1>0
<1>1. a = b * p + (a % b)
  BY <1>a, DivisionRemainder
<1>2. \A d \in Int : d > q => b * d >= b * q + b
  <2> SUFFICES ASSUME NEW d \in Int, d > q
               PROVE  b * d >= b * q + b
    OBVIOUS
  <2>1. PICK k \in Nat : d = q + 1 + k
    <3>1. d - q - 1 \in Nat /\ d = q + 1 + (d - q - 1)
      OBVIOUS
    <3>2. QED
      BY <3>1
  <2>2. b * d = b * q + b + b * k /\ b * k >= 0
    BY <2>1
  <2>3. QED
    BY <2>2
<1>3. \A d \in Int : d < q => b * d + b <= b * q
  <2> SUFFICES ASSUME NEW d \in Int, d < q
               PROVE  b * d + b <= b * q
    OBVIOUS
  <2>1. PICK k \in Nat : q = d + 1 + k
    <3>1. q - d - 1 \in Nat /\ q = d + 1 + (q - d - 1)
      OBVIOUS
    <3>2. QED
      BY <3>1
  <2>2. b * q = b * d + b + b * k /\ b * k >= 0
    BY <2>1
  <2>3. QED
    BY <2>2
<1>4. p = q
  <2>1. ASSUME p > q PROVE FALSE
    <3>1. b * p >= b * q + b
      BY <1>2, <2>1
    <3>2. b * p \in Int /\ b * q \in Int
      OBVIOUS
    <3>3. QED
      BY <1>0, <1>1, <3>1, <3>2
  <2>2. ASSUME p < q PROVE FALSE
    <3>1. b * p + b <= b * q
      BY <1>3, <2>2
    <3>2. b * p \in Int /\ b * q \in Int
      OBVIOUS
    <3>3. QED
      BY <1>0, <1>1, <3>1, <3>2
  <2>3. QED
    BY <2>1, <2>2
<1>5. QED
  BY <1>0, <1>a, <1>1, <1>4

\* Every number has a quotient and a remainder.
LEMMA DivisionExists ==
  ASSUME NEW b \in Nat, b > 0, NEW a \in Nat
  PROVE  \E q \in Nat, r \in 0..(b - 1) : a = b * q + r
<1>1. a \div b \in Nat /\ a % b \in 0..(b - 1)
  OBVIOUS
<1>2. PICK p \in Nat : p = a \div b
  BY <1>1
<1>3. a = b * p + (a % b)
  BY <1>2, DivisionRemainder
<1>4. QED
  BY <1>1, <1>3
\* Two digits determine a number.
LEMMA TwoDigits ==
  ASSUME NEW b \in Nat, b > 1, NEW n \in 0..(b * b - 1)
  PROVE  /\ (n \div b) % b \in 0..(b - 1) /\ n % b \in 0..(b - 1)
         /\ n = ((n \div b) % b) * b + (n % b)
<1>1. n \in Nat /\ b > 0
  <2>1. b * b \in Nat
    OBVIOUS
  <2>2. QED
    BY <2>1
<1>2. PICK q \in Nat, r \in 0..(b - 1) : n = b * q + r
  BY <1>1, DivisionExists
<1>3. n \div b = q /\ n % b = r
  BY <1>1, <1>2, DivisionUnique
<1>4. q \in 0..(b - 1)
  <2>1. ASSUME q >= b
        PROVE  FALSE
    <3>1. PICK k \in Nat : q = b + k
      <4>1. q - b \in Nat /\ q = b + (q - b)
        BY <2>1
      <4>2. QED
        BY <4>1
    <3>2. b * q = b * b + b * k /\ b * k \in Nat /\ b * b \in Nat
      BY <3>1
    <3>3. QED
      BY <1>2, <3>2
  <2>2. QED
    BY <2>1
<1>5. q % b = q
  <2>1. q = b * 0 + q
    OBVIOUS
  <2>2. QED
    BY <1>4, <2>1, DivisionUnique
<1>6. b * q = q * b
  OBVIOUS
<1>7. QED
  BY <1>2, <1>3, <1>4, <1>5, <1>6

\* Four digits determine a number.
LEMMA FourDigits ==
  ASSUME NEW b \in Nat, b > 1, NEW n \in 0..(b * b * b * b - 1)
  PROVE  /\ (n \div (b * b * b)) % b \in 0..(b - 1) /\ (n \div (b * b)) % b \in 0..(b - 1)
         /\ (n \div b) % b \in 0..(b - 1) /\ n % b \in 0..(b - 1)
         /\ n = ((((n \div (b * b * b)) % b) * b + ((n \div (b * b)) % b)) * b
                 + ((n \div b) % b)) * b + (n % b)
<1> DEFINE B2 == b * b
           B3 == b * b * b
<1>0. b \in Nat /\ b > 0
  OBVIOUS
<1>1. b \in Nat /\ b > 1 /\ B2 \in Nat /\ B2 > 0 /\ B3 \in Nat /\ B3 > 0 /\ n \in Nat
  <2>1. b \in Nat /\ b > 1
    OBVIOUS
  <2>2. B2 \in Nat /\ B2 > 0
    BY <2>1
  <2>3. B3 \in Nat /\ B3 > 0
    BY <2>1
  <2>4. QED
    BY <2>1, <2>2, <2>3
<1>2. PICK q1 \in Nat, r1 \in 0..(b - 1) : n = b * q1 + r1
  BY <1>0, <1>1, DivisionExists
<1>3. PICK q2 \in Nat, r2 \in 0..(b - 1) : q1 = b * q2 + r2
  BY <1>0, DivisionExists
<1>4. PICK q3 \in Nat, r3 \in 0..(b - 1) : q2 = b * q3 + r3
  BY <1>0, DivisionExists
<1>5. n \div b = q1 /\ n % b = r1
  BY <1>1, <1>2, DivisionUnique
<1>6. n \div B2 = q2
  <2>1. n = B2 * q2 + (b * r2 + r1)
    BY <1>1, <1>2, <1>3
  <2>2. b * r2 + r1 \in 0..(B2 - 1)
    <3>1. b * r2 <= b * (b - 1) /\ b * r2 >= 0
      BY <1>1
    <3>2. b * (b - 1) = B2 - b
      BY <1>1
    <3>3. QED
      BY <1>1, <3>1, <3>2
  <2> HIDE DEF B2
  <2>3. QED
    BY <1>1, <2>1, <2>2, DivisionUnique
<1>7. n \div B3 = q3
  <2>1. n = B3 * q3 + (B2 * r3 + (b * r2 + r1))
    BY <1>1, <1>2, <1>3, <1>4
  <2>2. B2 * r3 + (b * r2 + r1) \in 0..(B3 - 1)
    <3>1. b * r2 <= b * (b - 1) /\ b * r2 >= 0
      BY <1>1
    <3>2. b * (b - 1) = B2 - b
      BY <1>1
    <3>3. B2 * r3 <= B2 * (b - 1) /\ B2 * r3 >= 0
      BY <1>1
    <3>4. B2 * (b - 1) = B3 - B2
      BY <1>1
    <3> HIDE DEF B2, B3
    <3>5. QED
      BY <1>1, <3>1, <3>2, <3>3, <3>4
  <2> HIDE DEF B3
  <2>3. QED
    BY <1>1, <2>1, <2>2, DivisionUnique
<1>8. q3 \in 0..(b - 1)
  <2>1. n < B3 * b
    BY <1>1
  <2>2. B3 * q3 <= n
    <3>1. n = B3 * q3 + (B2 * r3 + (b * r2 + r1))
      BY <1>1, <1>2, <1>3, <1>4
    <3>2. B2 * r3 >= 0 /\ b * r2 >= 0 /\ r1 >= 0
      BY <1>1
    <3> HIDE DEF B2, B3
    <3>3. QED
      BY <1>1, <3>1, <3>2
  <2> HIDE DEF B3
  <2>3. ASSUME q3 >= b
        PROVE  FALSE
    <3>1. B3 * q3 >= B3 * b
      BY <1>1, <2>3
    <3>2. B3 * q3 \in Nat /\ B3 * b \in Nat
      BY <1>1
    <3>3. QED
      BY <1>1, <2>1, <2>2, <3>1, <3>2
  <2>4. QED
    BY <1>1, <2>3
<1>9. q3 % b = q3 /\ q2 % b = r3 /\ q1 % b = r2
  <2>1. q3 = b * 0 + q3
    BY <1>1
  <2>2. q3 % b = q3
    BY <1>1, <1>8, <2>1, DivisionUnique
  <2>3. q2 % b = r3 /\ q1 % b = r2
    BY <1>1, <1>3, <1>4, DivisionUnique
  <2>4. QED
    BY <2>2, <2>3
<1>10. q3 * b + r3 = q2 /\ q2 * b + r2 = q1 /\ q1 * b + r1 = n
  BY <1>1, <1>2, <1>3, <1>4
<1>11. ((q3 * b + r3) * b + r2) * b + r1 = n
  BY <1>10
<1>12. /\ (n \div B3) % b = q3 /\ (n \div B2) % b = r3
       /\ (n \div b) % b = r2 /\ n % b = r1
  BY <1>5, <1>6, <1>7, <1>9
<1>13. QED
  BY <1>8, <1>11, <1>12

=============================================================================
